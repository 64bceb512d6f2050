------------------------------ MODULE Dataflow ------------------------------
(***************************************************************************)
(* What a pipeline run promises whoever wrote the functions, without the   *)
(* machinery that executes it: a function is called on values only, what   *)
(* it returns is either its value or futures that stand for it, and the    *)
(* run succeeds only with the value of the root.  StateMachineRunner is    *)
(* shown to implement it.                                                  *)
(***************************************************************************)
EXTENDS Naturals, FiniteSets

CONSTANTS
  Futures,   \* the futures there may be
  Root,      \* the future of the pipeline's function
  NoFuture   \* no future, not one of Futures

VARIABLES
  kwargs,    \* per future that was made: the futures it takes as arguments
  nested,    \* per future that was made: the future that stands for it
  value,     \* the futures that have their value
  outcome    \* how the run ended

vars == <<kwargs, nested, value, outcome>>

Made == DOMAIN kwargs
Outcomes == {"running", "succeeded", "failed", "canceled"}

Init ==
  /\ kwargs = [f \in {Root} |-> {}]
  /\ nested = [f \in {Root} |-> NoFuture]
  /\ value = {}
  /\ outcome = "running"

Callable(f) == f \in Made \ value /\ kwargs[f] \subseteq value

\* The function of f returns a value, or one is found in the cache.
Return(f) ==
  /\ Callable(f)
  /\ value' = value \cup {f}
  /\ UNCHANGED <<kwargs, nested, outcome>>

\* The function of f returns the future top of the new ones S.
Expand(f, S, top) ==
  /\ Callable(f) /\ S # {} /\ S \cap Made = {} /\ top \in S
  /\ nested' = [g \in Made \cup S |->
                  IF g = f THEN top ELSE IF g \in S THEN NoFuture ELSE nested[g]]
  /\ DOMAIN kwargs' = Made \cup S
  /\ \A g \in Made : kwargs'[g] = kwargs[g]
  /\ \A g \in S : kwargs'[g] \subseteq S \ {g}
  /\ UNCHANGED <<value, outcome>>

\* What stands for f has its value, and that is the value of f.
Resolve(f) ==
  /\ f \in Made \ value /\ nested[f] \in value
  /\ value' = value \cup {f}
  /\ UNCHANGED <<kwargs, nested, outcome>>

\* The runner was killed and starts again from what was saved: the futures of
\* the calls in F may be lost, they are to be called again, and functions
\* called before, R, have returned.
Recover(F, R) ==
  /\ F \cap value = {} /\ R \subseteq {f \in Made : Callable(f) /\ nested[f] = NoFuture}
  /\ \E S \in SUBSET (Made \ (value \cup R)) :
       /\ {nested[f] : f \in F} \subseteq S
       /\ Root \notin S
       /\ \A g \in Made \ S : kwargs[g] \cap S = {} /\ (nested[g] \in S => g \in F)
       /\ kwargs' = [g \in Made \ S |-> kwargs[g]]
       /\ nested' = [g \in Made \ S |-> IF g \in F THEN NoFuture ELSE nested[g]]
  /\ value' = value \cup R
  /\ UNCHANGED outcome

Succeed ==
  /\ Root \in value
  /\ outcome' = "succeeded"
  /\ UNCHANGED <<kwargs, nested, value>>

\* A function failed, or the run was canceled.
GiveUp ==
  /\ outcome' \in {"failed", "canceled"}
  /\ UNCHANGED <<kwargs, nested, value>>

Next ==
  /\ outcome = "running"
  /\ \/ \E f \in Made : Return(f) \/ Resolve(f)
     \/ \E f \in Made : \E S \in SUBSET (Futures \ Made) : \E top \in S : Expand(f, S, top)
     \/ \E F, R \in SUBSET Made : Recover(F, R)
     \/ Succeed
     \/ GiveUp

Spec == Init /\ [][Next]_vars
=============================================================================
