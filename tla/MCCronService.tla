--------------------------- MODULE MCCronService ----------------------------
(* Values for TLC: one recurring job and one-shot jobs of both kinds. *)
EXTENDS CronService

MCKind == [j \in Job |-> CASE j = "sweep" -> "every"
                           [] j = "remind" -> "once"
                           [] OTHER -> "at"]
=============================================================================
