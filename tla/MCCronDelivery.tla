-------------------------- MODULE MCCronDelivery --------------------------
(* Model-checking companion of CronDelivery. *)
EXTENDS CronDelivery
=============================================================================
