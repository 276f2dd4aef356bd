------------------------------ MODULE ForkJoin ------------------------------
(***************************************************************************)
(* What threadpool::dispatch promises its callers, without saying how.     *)
(*                                                                         *)
(* A call gets a team: every participant of the pool, or participant 0     *)
(* alone. Each member of the team runs its share once, in any order, and   *)
(* may panic. The call returns when every share has ended, and it returns  *)
(* by panicking exactly when one of its own shares did.                    *)
(***************************************************************************)

CONSTANTS
  Calls,      (* the calls of dispatch, each made at most once             *)
  Workers,    (* the resident threads, participants 1 .. nth-1             *)
  Zero        (* participant 0: the calling thread                         *)

VARIABLES
  phase,      (* "idle", "open" while the team runs, "returned"            *)
  team,       (* the participants of a call                                *)
  ran,        (* the participants whose share has ended                    *)
  failed,     (* the participants whose share ended in a panic             *)
  outcome     (* what the caller sees: "none", then "ok" or "panic"        *)

fjVars == <<phase, team, ran, failed, outcome>>

Participants == Workers \cup {Zero}
Teams == {Participants, {Zero}}

Init ==
  /\ phase   = [c \in Calls |-> "idle"]
  /\ team    = [c \in Calls |-> {}]
  /\ ran     = [c \in Calls |-> {}]
  /\ failed  = [c \in Calls |-> {}]
  /\ outcome = [c \in Calls |-> "none"]

Begin(c) ==
  /\ phase[c] = "idle"
  /\ phase' = [phase EXCEPT ![c] = "open"]
  /\ \E t \in Teams : team' = [team EXCEPT ![c] = t]
  /\ UNCHANGED <<ran, failed, outcome>>

Share(c, p, panics) ==
  /\ phase[c] = "open"
  /\ p \in team[c] \ ran[c]
  /\ ran' = [ran EXCEPT ![c] = @ \cup {p}]
  /\ failed' = [failed EXCEPT ![c] = IF panics THEN @ \cup {p} ELSE @]
  /\ UNCHANGED <<phase, team, outcome>>

Return(c) ==
  /\ phase[c] = "open"
  /\ ran[c] = team[c]
  /\ phase' = [phase EXCEPT ![c] = "returned"]
  /\ outcome' = [outcome EXCEPT ![c] = IF failed[c] = {} THEN "ok" ELSE "panic"]
  /\ UNCHANGED <<team, ran, failed>>

Next ==
  \E c \in Calls :
    \/ Begin(c)
    \/ \E p \in Participants, panics \in BOOLEAN : Share(c, p, panics)
    \/ Return(c)

Spec == Init /\ [][Next]_fjVars

=============================================================================
