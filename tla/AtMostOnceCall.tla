---------------------------- MODULE AtMostOnceCall ----------------------------
(***************************************************************************)
(* What the operation journal promises the client of an operation id, with *)
(* no servers, file or memory in it: a request named by an id takes effect *)
(* at most once, an id whose answer is final is never run again, and an id *)
(* whose fate is unknown stays so.  An id the journal could not keep (its  *)
(* retention passed, the file refused writes, or its request is one that   *)
(* may be cut short half done and retried) is "forgotten" and carries no   *)
(* promise any more.                                                       *)
(*                                                                         *)
(* A server that opens the file settles several ids in one commit, so a    *)
(* step moves any number of ids, each along its own life.                  *)
(***************************************************************************)

CONSTANT Ids    \* the ids clients put on their calls

VARIABLES
  status,       \* where each id stands
  applied       \* has its request taken effect?

amoVars == <<status, applied>>

Status == {"new", "running", "done", "unknown", "forgotten"}

Becomes(id, s, a) == status'[id] = s /\ applied'[id] = a

\* The request starts to run; it can, as long as it has had no effect.
Run(id) ==
  /\ status[id] = "new"
  /\ ~applied[id]
  /\ Becomes(id, "running", FALSE)

\* Its effect lands, once - also after the caller stopped waiting for it.
Effect(id) ==
  /\ status[id] \in {"running", "unknown"}
  /\ ~applied[id]
  /\ Becomes(id, status[id], TRUE)

\* It ends with an answer that is final.
Done(id) ==
  /\ status[id] = "running"
  /\ Becomes(id, "done", applied[id])

\* It ends having done nothing: the same id may run again.
Again(id) ==
  /\ status[id] = "running"
  /\ ~applied[id]
  /\ Becomes(id, "new", FALSE)

\* Nobody can say whether it took effect.
Lose(id) ==
  /\ status[id] = "running"
  /\ Becomes(id, "unknown", applied[id])

\* The journal could not keep the id, or keeps it for a request it cannot promise for.
Forget(id) == Becomes(id, "forgotten", FALSE)

Stays(id) == Becomes(id, status[id], applied[id])

AmoInit ==
  /\ status = [id \in Ids |-> "new"]
  /\ applied = [id \in Ids |-> FALSE]

AmoNext ==
  /\ status' \in [Ids -> Status]
  /\ applied' \in [Ids -> BOOLEAN]
  /\ \A id \in Ids :
       Run(id) \/ Effect(id) \/ Done(id) \/ Again(id) \/ Lose(id) \/ Forget(id) \/ Stays(id)

AmoSpec == AmoInit /\ [][AmoNext]_amoVars
===============================================================================
