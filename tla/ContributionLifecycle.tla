------------------------ MODULE ContributionLifecycle ------------------------
(***************************************************************************)
(* What the contribution workflow promises, with no sessions, versions or  *)
(* locks: a contribution is created as a draft by its author and then      *)
(* walks one fixed graph of statuses, one edge at a time, and nobody       *)
(* reviews or merges a contribution of their own.  The graph is the one    *)
(* the ContributionStatus enumeration describes and the operations of      *)
(* ContributionService draw.                                               *)
(***************************************************************************)
CONSTANTS
    Users,          \* the people (and the CLI's system user) who call it
    Contributions,  \* the contribution requests that may come to exist
    None            \* "no user", not one of Users

VARIABLE ticket  \* per contribution: its status, its author, its last reviewer

Statuses == {"draft", "submitted", "approved", "rejected", "merged", "closed"}

Edges == {<<"draft", "submitted">>, <<"submitted", "approved">>,
          <<"submitted", "rejected">>, <<"rejected", "submitted">>,
          <<"approved", "merged">>, <<"draft", "closed">>, <<"submitted", "closed">>}

Ticket == [status: Statuses \cup {"absent"}, author: Users \cup {None},
           reviewer: Users \cup {None}]

NoTicket == [status |-> "absent", author |-> None, reviewer |-> None]

Init == ticket = [c \in Contributions |-> NoTicket]

Create(c, u) ==
    /\ ticket[c].status = "absent"
    /\ ticket' = [ticket EXCEPT ![c] = [status |-> "draft", author |-> u, reviewer |-> None]]

(* Submitting, reopening and closing leave the reviewer alone. *)
Move(c, to) ==
    /\ to \in {"submitted", "closed"}
    /\ <<ticket[c].status, to>> \in Edges
    /\ ticket' = [ticket EXCEPT ![c].status = to]

Review(c, u, verdict) ==
    /\ verdict \in {"approved", "rejected"}
    /\ <<ticket[c].status, verdict>> \in Edges
    /\ u # ticket[c].author
    /\ ticket' = [ticket EXCEPT ![c] = [status |-> verdict, author |-> @.author, reviewer |-> u]]

Merge(c, u) ==
    /\ <<ticket[c].status, "merged">> \in Edges
    /\ u # ticket[c].author
    /\ ticket' = [ticket EXCEPT ![c].status = "merged"]

Next == \E c \in Contributions, u \in Users :
    \/ Create(c, u)
    \/ \E to \in Statuses : Move(c, to) \/ Review(c, u, to)
    \/ Merge(c, u)

Spec == Init /\ [][Next]_ticket
=============================================================================
