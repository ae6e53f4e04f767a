------------------------------ MODULE KvStore ------------------------------
(***************************************************************************)
(* What the wallet's key-value store promises to its callers, whatever     *)
(* happens between two steps of the engine: a partition is one map with a  *)
(* revision, a commit takes effect in one step and at most once, a         *)
(* conditional commit is refused only when the revision has moved, and a   *)
(* read answers what the map held in one moment.  WalletKvEngine           *)
(* implements it with heads, shared value objects, retries and a garbage   *)
(* collector (WalletKvEngine!KvStoreSpec).                                 *)
(***************************************************************************)
EXTENDS Naturals

CONSTANTS Writers, Readers, Partitions, Keys, Contents, Nothing, Keep, Unconditional

VARIABLES
    map,    \* [Partitions -> [revision, contents]]
    call,   \* [Writers -> a commit: its status and its input]
    view,   \* [Readers -> a read: its status and what it saw]
    resets  \* how often the wallet has been reset

abstractVars == <<map, call, view, resets>>

EmptyMap == [revision |-> 0, contents |-> [k \in Keys |-> Nothing]]

\* What a commit makes of the contents of a partition.
Written(contents, write) ==
    [k \in Keys |-> IF write[k] = Keep THEN contents[k] ELSE write[k]]

Status(w) == call[w].status

StoreInit ==
    /\ map = [p \in Partitions |-> EmptyMap]
    /\ resets = 0
    /\ \A w \in Writers : call[w].status = "idle"
    /\ \A r \in Readers : view[r].status = "idle"

Call(w) ==
    /\ Status(w) \in {"idle", "ok", "conflict", "unavailable"}
    /\ call'[w].status = "called"
    /\ \A o \in Writers \ {w} : call'[o] = call[o]
    /\ UNCHANGED <<map, view, resets>>

\* The one moment in which a commit takes effect.
Apply(w, status) ==
    LET p == call[w].p
        contents == Written(map[p].contents, call[w].write)
    IN  /\ Status(w) = "called"
        /\ call[w].cond \in {Unconditional, map[p].revision}
        /\ map' = [map EXCEPT ![p] =
               IF contents = map[p].contents THEN map[p]
               ELSE [revision |-> map[p].revision + 1, contents |-> contents]]
        /\ call'[w].status = status
        /\ status = "applied" => call'[w] = [call[w] EXCEPT !.status = "applied"]
        /\ \A o \in Writers \ {w} : call'[o] = call[o]
        /\ UNCHANGED <<view, resets>>

\* A commit that took effect is never answered with a conflict; one that was
\* bound to a revision is refused only while the revision is another one.
Answer(w, status) ==
    /\ \/ Status(w) = "applied" /\ status \in {"ok", "unavailable"}
       \/ Status(w) = "called" /\ status = "unavailable"
       \/ /\ Status(w) = "called" /\ status = "conflict"
          /\ call[w].cond # map[call[w].p].revision
    /\ call'[w].status = status
    /\ \A o \in Writers \ {w} : call'[o] = call[o]
    /\ UNCHANGED <<map, view, resets>>

\* A read takes one map, at its revision.
See(r) ==
    /\ view[r].status # "seen"
    /\ view'[r].status = "seen"
    /\ \E p \in Partitions :
         /\ view'[r].p = p
         /\ view'[r].revision = map[p].revision
         /\ view'[r].era = resets
    /\ \A o \in Readers \ {r} : view'[o] = view[o]
    /\ UNCHANGED <<map, call, resets>>

\* A read finds a value gone only if the map has moved on since.
Tell(r, status) ==
    /\ view[r].status = "seen"
    /\ status = "missing" => \/ map[view[r].p].revision # view[r].revision
                             \/ resets # view[r].era
    /\ view'[r].status = status
    /\ \A o \in Readers \ {r} : view'[o] = view[o]
    /\ UNCHANGED <<map, call, resets>>

\* The wallet is reset: every partition is empty again.
Clear ==
    /\ map' = [p \in Partitions |-> EmptyMap]
    /\ resets' = resets + 1
    /\ UNCHANGED <<call, view>>

StoreNext ==
    \/ \E w \in Writers : Call(w)
    \/ \E w \in Writers, s \in {"applied", "ok"} : Apply(w, s)
    \/ \E w \in Writers, s \in {"ok", "conflict", "unavailable"} : Answer(w, s)
    \/ \E r \in Readers : See(r)
    \/ \E r \in Readers, s \in {"ok", "missing", "unavailable"} : Tell(r, s)
    \/ Clear

StoreSpec == StoreInit /\ [][StoreNext]_abstractVars
=============================================================================
