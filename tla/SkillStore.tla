----------------------------- MODULE SkillStore -----------------------------
(***************************************************************************)
(* The skills (core/skill.c and the skill routes of gateway/routes.c):     *)
(* markdown files in a directory, kept in a cache that the agent reads and *)
(* that a thread refreshes when inotify reports a change.  The service     *)
(* thread writes a skill as a temporary file that it renames; the owner    *)
(* edits the files in place, so that they are half written for a while.  A *)
(* scan opens one file after the other while both go on.  A content is     *)
(* [v, n]: the version and how much of it there is, so that n < Size[v] is *)
(* a version cut short.  There is one directory: the cache and the watcher *)
(* keep to the one they were started with, whatever configuration they are *)
(* given later.                                                            *)
(***************************************************************************)
EXTENDS Integers, Sequences, SequencesExt

CONSTANTS
    Names,       \* skill names that is_safe_skill_name accepts
    Size,        \* Size[v]: how long version v is
    JsonSize,    \* JsonSize[v]: how long it is as a JSON answer
    EditMax,     \* SKILL_CONTENT_MAX - 1
    AnswerMax,   \* the longest answer the response buffer takes
    CacheMax,    \* SKILL_CACHE_SIZE - 1
    MaxEdits     \* bound on changes of the directory

ASSUME SkillsAssumption ==
    EditMax \in Nat /\ CacheMax \in Nat /\ \A v \in DOMAIN Size : Size[v] \in Nat

Versions == DOMAIN Size
Whole(v) == [v |-> v, n |-> Size[v]]
Absent == [v |-> 0, n |-> 0]
None == [pc |-> "none"]

VARIABLES
    disk,        \* disk[name]: its content, or Absent
    owner,       \* the file the owner is writing: [pc, name, v], or None
    write,       \* what the service thread is writing: [pc, name, c, raced], or None
    get,         \* the file it is reading for the dashboard: [pc, name, sz, raced], or None
    editor,      \* what the dashboard's editor holds: [pc, name, c, raced], or None
    watch,       \* "off", "load" (the first load), "arm", "idle", "scan", "dead" (no inotify)
    watching,    \* g_watch_running
    scan,        \* the scan in progress: [todo, buf]
    skillCache,  \* g_skills_cache: a sequence of pieces [name, v, i]
    cached,      \* g_skills_cache is not NULL
    events,      \* inotify events not read
    missed,      \* history: a change that neither the last load nor an event shows
    raced,       \* history: the files that were saved from a text the owner was
                 \* writing while it was measured and read
    edits

skillVars == <<disk, owner, write, get, editor, watch, watching, scan, skillCache, cached,
               events, missed, raced, edits>>
watchVars == <<watch, watching, scan, skillCache, cached>>

NoScan == [todo |-> {}, buf |-> <<>>]

SkillInit ==
    /\ disk \in [Names -> {Absent} \cup {Whole(v) : v \in Versions}]
    /\ owner = None /\ write = None /\ get = None /\ editor = None
    /\ watch = "off" /\ watching = FALSE /\ scan = NoScan /\ skillCache = <<>> /\ cached = FALSE
    /\ events = 0 /\ missed = FALSE /\ raced = {} /\ edits = 0

-----------------------------------------------------------------------------
(* The scan of the directory. *)

\* A file is appended as far as the buffer goes.
append_file_content(buf, name, c) ==
    LET all == buf \o [i \in 1 .. c.n |-> <<name, c.v, i>>]
    IN  SubSeq(all, 1, IF Len(all) < CacheMax THEN Len(all) ELSE CacheMax)

opendir == [todo |-> {s \in Names : disk[s] # Absent}, buf |-> <<>>]

\* The next file in the directory's order; one that is gone by now is left out.
load_skills_from_disk ==
    /\ watch \in {"load", "scan"}
    /\ \E s \in scan.todo :
          scan' = [todo |-> scan.todo \ {s},
                   buf |-> append_file_content(scan.buf, s, disk[s])]
    /\ UNCHANGED <<disk, owner, write, get, editor, watch, watching, skillCache, cached, events,
                   missed, raced, edits>>

\* Mutant: the events are read when the scan is done, so those during it go too.
Mut_do_reload_cache ==
    /\ watch \in {"load", "scan"} /\ scan.todo = {}
    /\ skillCache' = scan.buf /\ cached' = TRUE /\ scan' = NoScan /\ events' = 0
    /\ IF watch = "load" THEN watch' = "arm" /\ watching' = TRUE
                         ELSE watch' = "idle" /\ UNCHANGED watching
    /\ UNCHANGED <<disk, owner, write, get, editor, missed, raced, edits>>

\* The scan replaces the cache, under the mutex.
do_reload_cache ==
    /\ watch \in {"load", "scan"} /\ scan.todo = {}
    /\ skillCache' = scan.buf /\ cached' = TRUE /\ scan' = NoScan
    /\ IF watch = "load" THEN watch' = "arm" /\ watching' = TRUE
                         ELSE watch' = "idle" /\ UNCHANGED watching
    /\ UNCHANGED <<disk, owner, write, get, editor, events, missed, raced, edits>>

\* What a scan gives that comes to the files in this order.
Filled(order) ==
    LET fill[i \in 0 .. Len(order)] ==
            IF i = 0 THEN <<>>
            ELSE append_file_content(fill[i - 1], order[i], disk[order[i]])
    IN  fill[Len(order)]

\* What an agent's skill_load_all can give it: the cache, or a scan of its own.
Loads == {Filled(order) : order \in SetToSeqs(opendir.todo)}
skill_load_all == IF watching /\ cached THEN {skillCache} ELSE Loads

-----------------------------------------------------------------------------
(* The watcher. *)

skill_watch_start ==
    /\ watch = "off"
    /\ watch' = "load" /\ scan' = opendir /\ missed' = FALSE
    /\ UNCHANGED <<disk, owner, write, get, editor, watching, skillCache, cached, events, raced,
                   edits>>

\* The thread could not be created.
StartFails ==
    /\ watch = "arm" /\ watching
    /\ watch' = "off" /\ watching' = FALSE /\ cached' = FALSE /\ skillCache' = <<>>
    /\ UNCHANGED <<disk, owner, write, get, editor, scan, events, missed, raced, edits>>

\* Only now are changes reported; without inotify the thread ends, and the cache stays.
inotify_add_watch ==
    /\ watch = "arm" /\ events' = 0
    /\ watch' \in {"idle", "dead"}
    /\ UNCHANGED <<disk, owner, write, get, editor, watching, scan, skillCache, cached, missed,
                   raced, edits>>

\* A read takes as many events as its buffer has room for; a scan begins.
watch_thread_fn ==
    /\ watch = "idle" /\ watching /\ events > 0
    /\ \E k \in 1 .. events : events' = events - k
    /\ watch' = "scan" /\ scan' = opendir /\ missed' = FALSE
    /\ UNCHANGED <<disk, owner, write, get, editor, watching, skillCache, cached, raced, edits>>

\* The thread ends its scan first, then it is joined.
skill_watch_stop ==
    /\ watching
    /\ \/ /\ watching' = FALSE /\ watch \in {"arm", "scan"}
          /\ UNCHANGED <<watch, skillCache, cached, events>>
       \/ /\ watch \in {"idle", "dead"} /\ watching' = FALSE
          /\ watch' = "off" /\ cached' = FALSE /\ skillCache' = <<>> /\ events' = 0
    /\ UNCHANGED <<disk, owner, write, get, editor, scan, missed, raced, edits>>

Joined ==
    /\ ~watching /\ watch \in {"idle", "dead"}
    /\ watch' = "off" /\ cached' = FALSE /\ skillCache' = <<>> /\ events' = 0
    /\ UNCHANGED <<disk, owner, write, get, editor, watching, scan, missed, raced, edits>>

-----------------------------------------------------------------------------
(* Changes of the directory. *)

Watched == watch \in {"idle", "scan"}

\* inotify reports a change of a watched directory, also one of a temporary file.
Reported ==
    /\ edits < MaxEdits /\ edits' = edits + 1
    /\ events' = IF Watched THEN events + 1 ELSE events

\* File s gets content c.  A scan that has not come to a new file may miss it.
Put(s, c) ==
    /\ Reported
    /\ disk' = [disk EXCEPT ![s] = c]
    /\ \/ scan' = scan
       \/ /\ watch \in {"load", "scan"} /\ disk[s] = Absent
          /\ scan' = [scan EXCEPT !.todo = @ \cup {s}]
    /\ missed' = (missed \/ watch = "arm" \/ (watch = "load" /\ s \notin scan'.todo))

Editing(s) == owner # None /\ owner.name = s

\* What the owner writes is under a reader that has the file open.
Touched(s) == IF get # None /\ get.name = s THEN [get EXCEPT !.raced = TRUE] ELSE get

\* An editor of the owner cuts the file and has written a part of the new text.
OwnerBegins ==
    /\ owner = None
    /\ \E s \in Names, v \in Versions :
          /\ \E n \in 0 .. Size[v] - 1 : Put(s, [v |-> v, n |-> n])
          /\ owner' = [pc |-> "edit", name |-> s, v |-> v]
          /\ get' = Touched(s) /\ raced' = raced \ {s}
    /\ UNCHANGED <<write, editor, watch, watching, skillCache, cached>>

OwnerEnds ==
    /\ owner # None
    /\ Put(owner.name, Whole(owner.v))
    /\ get' = Touched(owner.name) /\ owner' = None
    /\ UNCHANGED <<write, editor, watch, watching, skillCache, cached, raced>>

\* File s is another one now: what the owner still writes is not in the directory.
Replaced(s) == owner' = IF Editing(s) THEN None ELSE owner

\* Checked before the temporary file is made, and not again.
skill_create(s, v) ==
    /\ disk[s] = Absent
    /\ write' = [pc |-> "temp", name |-> s, c |-> Whole(v), raced |-> FALSE]

skill_update(s, c, r) == write' = [pc |-> "temp", name |-> s, c |-> c, raced |-> r]

\* The dashboard saves what its editor holds, as it came or rewritten.
Save ==
    /\ write = None /\ get = None /\ edits < MaxEdits
    /\ \/ \E s \in Names, v \in Versions : skill_create(s, v) /\ UNCHANGED editor
       \/ /\ editor # None /\ skill_update(editor.name, editor.c, editor.raced)
          /\ editor' = None
       \/ \E v \in Versions :
             editor # None /\ skill_update(editor.name, Whole(v), FALSE) /\ editor' = None
    /\ UNCHANGED <<disk, owner, get, watch, watching, scan, skillCache, cached, events, missed,
                   raced, edits>>

\* The temporary file is made and written; on a failure it is removed.
TempSkillWritten ==
    /\ write.pc = "temp" /\ Reported
    /\ write' \in {[write EXCEPT !.pc = "rename"], None}
    /\ UNCHANGED <<disk, owner, get, editor, watch, watching, scan, skillCache, cached,
                   missed, raced>>

write_skill_atomic ==
    /\ write.pc = "rename"
    /\ Put(write.name, write.c) /\ write' = None
    /\ Replaced(write.name)
    /\ raced' = IF write.raced THEN raced \cup {write.name} ELSE raced \ {write.name}
    /\ UNCHANGED <<get, editor, watch, watching, skillCache, cached>>

skill_delete ==
    /\ write = None /\ get = None
    /\ \E s \in Names :
          disk[s] # Absent /\ Put(s, Absent) /\ Replaced(s) /\ raced' = raced \ {s}
    /\ UNCHANGED <<write, get, editor, watch, watching, skillCache, cached>>

-----------------------------------------------------------------------------
(* The dashboard reads a skill into its editor. *)

FitsEditor(sz) == sz <= EditMax

\* The file is opened and measured.
skill_get_content ==
    /\ write = None /\ get = None
    /\ \E s \in Names :
          disk[s] # Absent /\ FitsEditor(disk[s].n)
          /\ get' = [pc |-> "read", name |-> s, sz |-> disk[s].n,
                     raced |-> Editing(s) \/ s \in raced]
    /\ UNCHANGED <<disk, owner, write, editor, watchVars, events, missed, raced, edits>>

\* Mutant: the length of the answer is not looked at.
Mut_FitsAnswer(v) == JsonSize[v] >= 0
FitsAnswer(v) == JsonSize[v] <= AnswerMax

\* An answer cut off is not JSON: the editor shows nothing.
AsShown(s, c, r) ==
    [pc |-> "edit", name |-> s, raced |-> r,
     c |-> IF JsonSize[c.v] <= AnswerMax THEN c ELSE [c EXCEPT !.n = 0]]

\* It is read, and refused when it has another length than before or its answer is
\* too long.
skill_get_send ==
    /\ get # None
    /\ LET c == disk[get.name]
           used == IF c.n < EditMax THEN c.n ELSE EditMax
       IN  editor' = IF used = get.sz /\ FitsAnswer(c.v)
                     THEN AsShown(get.name, [c EXCEPT !.n = used], get.raced) ELSE editor
    /\ get' = None
    /\ UNCHANGED <<disk, owner, write, watchVars, events, missed, raced, edits>>

-----------------------------------------------------------------------------
\* The process ends anywhere; the file of a write in progress stays, hidden.
ProcessDies ==
    /\ watch # "off"
    /\ watch' = "off" /\ watching' = FALSE /\ cached' = FALSE /\ skillCache' = <<>>
    /\ scan' = NoScan /\ events' = 0 /\ missed' = FALSE /\ write' = None /\ get' = None
    /\ UNCHANGED <<disk, owner, editor, raced, edits>>

Watcher ==
    \/ load_skills_from_disk \/ do_reload_cache
    \/ skill_watch_start \/ StartFails \/ inotify_add_watch \/ watch_thread_fn
    \/ skill_watch_stop \/ Joined

Changes ==
    \/ OwnerBegins \/ OwnerEnds
    \/ Save \/ TempSkillWritten \/ write_skill_atomic \/ skill_delete

Dashboard == skill_get_content \/ skill_get_send

SkillNext == Watcher \/ Changes \/ Dashboard \/ ProcessDies

SkillSpec == SkillInit /\ [][SkillNext]_skillVars

-----------------------------------------------------------------------------
(* Properties. *)

\* A watcher with nothing left to do has the agent served what is on disk, however
\* the changes fell between its reads of events and the files of its scans.  The
\* exception is a change after the first load and before the watch is set, which
\* stays unseen until the next one (skill.c:73-97, 510-520).
CacheFresh ==
    watch = "idle" /\ watching /\ events = 0 /\ ~missed => skill_load_all \subseteq Loads

\* A save from the editor never leaves a skill cut short: what the dashboard is
\* given is a whole file or an error.  The exceptions are a file that the owner is
\* writing in place at the moment, and a save of a text that was measured and read
\* while the owner wrote it (skill.c:340-360, routes.c:396-424).
NeverCut ==
    \A s \in Names :
        disk[s] # Absent /\ ~Editing(s) /\ s \notin raced => disk[s].n = Size[disk[s].v]
=============================================================================
