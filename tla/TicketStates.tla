---------------------------- MODULE TicketStates ----------------------------
(***************************************************************************)
(* The ticket lifecycle shared by every part of the control plane: the     *)
(* canonical states, the transition table TicketService enforces, and the  *)
(* state a linked chat task is given when its ticket becomes terminal.     *)
(***************************************************************************)

OshalTicketState ==
    {"backlog", "approved", "in_process", "in_process_discovery",
     "in_process_design", "in_process_build", "in_process_deploy",
     "in_process_test", "in_process_release", "approval_required",
     "customer_action", "complete", "escalated", "dead_letter", "paused",
     "cancelled"}

\* Exits every unfinished state offers.
Park == {"paused", "cancelled"}

\* Exits every state the queue can dispatch from, or is working in, offers.
Fail == {"escalated", "dead_letter"}

VALID_TRANSITIONS ==
    [backlog |-> {"approved", "escalated", "complete"} \cup Park,
     approved |-> {"in_process_discovery", "in_process_design",
                   "in_process_build", "backlog", "complete"}
                      \cup Fail \cup Park,
     in_process |-> {"complete", "backlog"} \cup Park,
     in_process_discovery |->
        {"approval_required", "in_process_build", "approved",
         "customer_action", "complete"} \cup Fail \cup Park,
     in_process_design |->
        {"approval_required", "in_process_build", "customer_action",
         "approved", "complete"} \cup Fail \cup Park,
     in_process_build |->
        {"approved", "in_process_deploy", "in_process_test",
         "customer_action", "complete", "in_process_discovery"}
            \cup Fail \cup Park,
     in_process_deploy |->
        {"approved", "in_process_test", "in_process_build",
         "customer_action", "complete"} \cup Fail \cup Park,
     in_process_test |->
        {"approved", "in_process_release", "in_process_build",
         "customer_action", "complete"} \cup Fail \cup Park,
     in_process_release |->
        {"approved", "complete", "in_process_test", "customer_action"}
            \cup Fail \cup Park,
     approval_required |-> {"in_process_build", "approved",
                            "customer_action"} \cup Fail \cup Park,
     customer_action |->
        {"approved", "in_process_discovery", "in_process_design",
         "in_process_build", "in_process_test", "escalated", "complete"}
            \cup Park,
     complete |-> {"backlog"},
     escalated |->
        {"backlog", "approved", "in_process_discovery",
         "approval_required", "in_process_design", "in_process_build",
         "dead_letter", "complete"} \cup Park,
     dead_letter |-> {"approved", "backlog", "cancelled"},
     paused |-> {"approved", "approval_required", "backlog", "escalated",
                 "cancelled"},
     cancelled |-> {"backlog"}]

isTicketStatusTransitionAllowed(from, to) ==
    from = to \/ to \in VALID_TRANSITIONS[from]

ChatTaskState == {"none", "open", "completed", "failed", "cancelled"}

\* Mutant of linkedChatTaskStatus: the ticket's status is copied as it is.
linkedChatTaskUnmapped(status, task) ==
    IF task = "open" /\ status \in {"complete", "cancelled"} \cup Fail
      THEN status
      ELSE task

\* What a status write does to the chat task linked to the ticket: an open
\* task is closed with the verdict of the terminal state, in the same commit.
linkedChatTaskStatus(status, task) ==
    IF task # "open" THEN task
    ELSE IF status = "complete"  THEN "completed"
    ELSE IF status \in Fail      THEN "failed"
    ELSE IF status = "cancelled" THEN "cancelled"
    ELSE task
=============================================================================
