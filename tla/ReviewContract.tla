--------------------------- MODULE ReviewContract ---------------------------
(***************************************************************************)
(* What the review workflow promises to anybody who reads the database,    *)
(* whatever handlers, threads and restarts produce the rows.  A candidate  *)
(* enters human review, is revised while it is open, is decided once, and  *)
(* becomes official knowledge only with the content that a reviewer        *)
(* approved.                                                               *)
(*                                                                         *)
(* stage and candidate are what the review row says, official is what the  *)
(* knowledge object row says (None: there is no such row).                 *)
(***************************************************************************)

CONSTANTS Items, Contents, None

VARIABLES stage, candidate, official

contractVars == <<stage, candidate, official>>

\* The stages in which a reviewer or the submitter may still act.
Open == {"human_review_required", "changes_requested"}

ContractInit ==
    /\ stage = [i \in Items |-> "absent"]
    /\ candidate = [i \in Items |-> None]
    /\ official = [i \in Items |-> None]

MoveTo(i, s) == stage' = [stage EXCEPT ![i] = s]

Submit(i, c) ==
    /\ stage[i] = "absent"
    /\ MoveTo(i, "human_review_required")
    /\ candidate' = [candidate EXCEPT ![i] = c]
    /\ UNCHANGED official

Revise(i, c) ==
    /\ stage[i] \in Open
    /\ MoveTo(i, "human_review_required")
    /\ candidate' = [candidate EXCEPT ![i] = c]
    /\ UNCHANGED official

Decide(i, s) ==
    /\ \/ stage[i] = "human_review_required"
          /\ s \in {"approved", "changes_requested", "rejected"}
       \/ stage[i] = "changes_requested" /\ s = "rejected"
    /\ MoveTo(i, s)
    /\ UNCHANGED <<candidate, official>>

\* Approved content becomes official; doing it again changes nothing.
MakeOfficial(i) ==
    /\ stage[i] = "approved"
    /\ official' = [official EXCEPT ![i] = candidate[i]]
    /\ UNCHANGED <<stage, candidate>>

\* The review closes as published only when its content is already official.
Close(i) ==
    /\ stage[i] = "approved"
    /\ official[i] = candidate[i]
    /\ MoveTo(i, "published")
    /\ UNCHANGED <<candidate, official>>

ContractNext ==
    \E i \in Items :
        \/ \E c \in Contents : Submit(i, c) \/ Revise(i, c)
        \/ \E s \in {"approved", "changes_requested", "rejected"} : Decide(i, s)
        \/ MakeOfficial(i)
        \/ Close(i)

Contract == ContractInit /\ [][ContractNext]_contractVars

=============================================================================
