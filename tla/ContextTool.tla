----------------------------- MODULE ContextTool -----------------------------
(***************************************************************************)
(* The tool get_context (tools/context.c, context_geo.c, context_cache.c,  *)
(* context_http.c): where the device is, the weather there and the public  *)
(* holidays, from three services, with caches.  Invocations follow each    *)
(* other under the agent lock, a reload too; the dashboard reads the last  *)
(* answer at any time.  Time passes between the steps of an invocation.    *)
(* Every service may fail every time.  Days are numbers, and so are the    *)
(* years they lie in; host and location are in one time zone.              *)
(***************************************************************************)
EXTENDS Integers, FiniteSets

CONSTANTS
    Countries,   \* country codes; "" is none
    Holidays,    \* Holidays[cc]: the days
    DayLen,      \* length of a day on the clock
    YearLen,     \* days of a year
    WxTtl,       \* CTX_WX_TTL_SEC
    HyTtl,       \* CTX_HY_TTL_SEC
    MaxCtxTime   \* bound on the clock

\* A forecast is kept for an hour; days are numbers.
ASSUME ContextAssumption ==
    /\ DayLen \in Nat \ {0} /\ YearLen \in Nat \ {0}
    /\ WxTtl \in 0 .. DayLen /\ HyTtl \in Nat
    /\ \A cc \in Countries : Holidays[cc] \subseteq Nat

Codes == Countries \cup {""}
Day(t) == t \div DayLen
Year(day) == day \div YearLen
NoQuery == [pc |-> "none"]

VARIABLES
    hostTime,  \* time(NULL)
    agentCfg,  \* [coords, cc]: agent.latitude and longitude are set, agent.country_code
    geo,       \* [src, cc]: ctx_g_src and ctx_g_cc, src "" before ctx_g_geo_inited
    wx,        \* the cached forecast: [exp, days], exp 0 for none
    hy,        \* the cached holidays: [exp, cc, ya, yb, days, whole]
    query,     \* the invocation in progress, or NoQuery
    last       \* ctx_g_last_json, or NoQuery

contextVars == <<hostTime, agentCfg, geo, wx, hy, query, last>>

ContextInit ==
    /\ hostTime = 0
    /\ agentCfg \in [coords : BOOLEAN, cc : Codes]
    /\ geo = [src |-> "", cc |-> ""]
    /\ wx = [exp |-> 0, days |-> {}]
    /\ hy = [exp |-> 0, cc |-> "", ya |-> 0, yb |-> 0, days |-> {}, whole |-> TRUE]
    /\ query = NoQuery /\ last = NoQuery

\* The timeouts of the transfers keep an invocation within a day.
TimePasses ==
    /\ hostTime < MaxCtxTime
    /\ query # NoQuery => hostTime + 1 < query.began + DayLen
    /\ hostTime' = hostTime + 1
    /\ UNCHANGED <<agentCfg, geo, wx, hy, query, last>>

tool_context_set_config ==
    /\ query = NoQuery
    /\ agentCfg' \in [coords : BOOLEAN, cc : Codes]
    /\ UNCHANGED <<hostTime, geo, wx, hy, query, last>>

-----------------------------------------------------------------------------
(* Where: found once, and kept for good. *)

\* The configured place, or none.
geo_cfg_fb ==
    IF agentCfg.coords
    THEN [src |-> "agent_fallback", cc |-> agentCfg.cc]
    ELSE [src |-> "none", cc |-> ""]

\* The service answers, cannot be reached or says it failed, or sends no JSON.
ctx_geo_resolve ==
    /\ query = NoQuery
    /\ IF geo.src # "" THEN UNCHANGED geo
       ELSE \/ \E cc \in Codes : geo' = [src |-> "ip-api", cc |-> cc]
            \/ geo' = geo_cfg_fb
            \/ geo' = [src |-> "none", cc |-> ""]
    /\ query' = [pc |-> "date", geo |-> geo', began |-> hostTime]
    /\ UNCHANGED <<hostTime, agentCfg, wx, hy, last>>

NoWeather == [ok |-> FALSE, days |-> {}]
NoHolidays == [ok |-> FALSE]

\* exec_tool takes the date, and the years of today and tomorrow.
exec_tool ==
    /\ query.pc = "date"
    /\ LET day == Day(hostTime)
       IN  query' = [pc |-> IF query.geo.src = "none" THEN "answer" ELSE "weather",
                    day |-> day, ya |-> Year(day), yb |-> Year(day + 1),
                    wx |-> NoWeather, hy |-> NoHolidays, geo |-> query.geo, cc |-> "",
                    began |-> query.began]
    /\ UNCHANGED <<hostTime, agentCfg, geo, wx, hy, last>>

-----------------------------------------------------------------------------
(* The weather. *)

WeatherGiven(days) ==
    query' = [query EXCEPT !.pc = "holidays", !.wx = [ok |-> TRUE, days |-> days]]

WeatherCached == hostTime < wx.exp

\* From the cache, from the service (three days), or not at all.
ctx_wx_fill ==
    /\ query.pc = "weather"
    /\ \/ WeatherCached /\ WeatherGiven(wx.days) /\ UNCHANGED wx
       \/ /\ ~WeatherCached
          /\ wx' = [exp |-> hostTime + WxTtl, days |-> Day(hostTime) .. Day(hostTime) + 2]
          /\ WeatherGiven(wx'.days)
       \/ ~WeatherCached /\ query' = [query EXCEPT !.pc = "holidays"] /\ UNCHANGED wx
    /\ UNCHANGED <<hostTime, agentCfg, geo, hy, last>>

\* The line of the dashboard: the forecast of the day, if it is there.
wx_day_line(c) == IF c.wx.ok /\ c.day \in c.wx.days THEN {c.day} ELSE {}

-----------------------------------------------------------------------------
(* The holidays. *)

\* The country of the place, or else the configured one.
hcode == IF geo.cc # "" THEN geo.cc ELSE agentCfg.cc

Of(cc, year) == {d \in Holidays[cc] : Year(d) = year}

hol_mark(days, whole) ==
    LET ahead == {d \in days : d >= query.day}
    IN  [ok |-> TRUE, whole |-> whole,
         today |-> query.day \in days, tomorrow |-> query.day + 1 \in days,
         next |-> {d \in ahead : \A e \in ahead : d <= e}]

HolidaysGiven(cc, days, whole) ==
    query' = [query EXCEPT !.pc = "answer", !.cc = cc, !.hy = hol_mark(days, whole)]

\* Mutant: the cache does not look at the year of tomorrow.
Mut_HolidaysCached == hostTime < hy.exp /\ hy.cc = hcode /\ hy.ya = query.ya

HolidaysCached ==
    hostTime < hy.exp /\ hy.cc = hcode /\ hy.ya = query.ya /\ hy.yb = query.yb

\* Two years are fetched when tomorrow lies in the next; the second may fail, and
\* what there is is kept.
hol_merge_arrays ==
    {[days |-> Of(hcode, query.ya) \cup Of(hcode, query.yb), whole |-> TRUE]} \cup
    (IF query.ya = query.yb THEN {} ELSE {[days |-> Of(hcode, query.ya), whole |-> FALSE]})

ctx_holidays_fill ==
    /\ query.pc = "holidays"
    /\ \/ /\ hcode # "" /\ HolidaysCached
          /\ HolidaysGiven(hcode, hy.days, hy.whole) /\ UNCHANGED hy
       \/ /\ hcode # "" /\ ~HolidaysCached
          /\ \E m \in hol_merge_arrays :
                /\ hy' = [exp |-> hostTime + HyTtl, cc |-> hcode, ya |-> query.ya,
                          yb |-> query.yb, days |-> m.days, whole |-> m.whole]
                /\ HolidaysGiven(hcode, m.days, m.whole)
       \/ /\ hcode = "" \/ ~HolidaysCached
          /\ query' = [query EXCEPT !.pc = "answer"] /\ UNCHANGED hy
    /\ UNCHANGED <<hostTime, agentCfg, geo, wx, last>>

\* The answer is printed, kept for the dashboard and returned.
Kept == last' = query /\ query' = NoQuery

ctx_dashboard_fill ==
    /\ query.pc = "answer"
    /\ Kept
    /\ UNCHANGED <<hostTime, agentCfg, geo, wx, hy>>

\* Before the first answer the dashboard is shown the configured place only.
ctx_minimal_snapshot == [pc |-> "minimal", geo |-> geo_cfg_fb]
tool_context_snapshot_json == IF last = NoQuery THEN ctx_minimal_snapshot ELSE last

ContextNext ==
    \/ TimePasses \/ tool_context_set_config
    \/ ctx_geo_resolve \/ exec_tool \/ ctx_wx_fill \/ ctx_holidays_fill \/ ctx_dashboard_fill

ContextSpec == ContextInit /\ [][ContextNext]_contextVars

-----------------------------------------------------------------------------
(* Properties. *)

\* An answer fits together, however old the caches it was made from and whatever
\* happened between its steps: the forecast has the day of the answer in it, or
\* starts right after it when midnight passed meanwhile; the flags of today and
\* tomorrow and the next holiday are those of the country's calendar, tomorrow's
\* also across the end of a year, unless the second of the two years could not
\* be fetched (context_cache.c:182-204, 270-335).
ContextRight ==
    LET shown == tool_context_snapshot_json
    IN  shown.pc = "answer" =>
        /\ shown.wx.ok => wx_day_line(shown) = {shown.day} \/ shown.day + 1 \in shown.wx.days
        /\ shown.hy.ok =>
              LET days == Of(shown.cc, shown.ya) \cup Of(shown.cc, shown.yb)
                  ahead == {d \in days : d >= shown.day}
              IN  /\ shown.hy.today = (shown.day \in Holidays[shown.cc])
                  /\ shown.hy.whole =>
                        /\ shown.hy.tomorrow = (shown.day + 1 \in Holidays[shown.cc])
                        /\ shown.hy.next = {d \in ahead : \A e \in ahead : d <= e}
=============================================================================
