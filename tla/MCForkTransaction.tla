------------------------- MODULE MCForkTransaction -------------------------
(* An update that deletes a directory and its file, rewrites a page in a   *)
(* directory it keeps and its tracking, and adds a record in a missing     *)
(* directory; and a fork into free names, which makes a directory.         *)
EXTENDS ForkTransaction

CONSTANTS gone, doc, skill, page, fresh, ledger, history, event

MCDests == {gone, doc, skill, page, fresh, ledger, history, event}

MCParent ==
    [d \in MCDests |-> CASE d = doc -> gone
                         [] d = page -> skill
                         [] d = event -> history
                         [] OTHER -> Root]

MCStart ==
    [d \in MCDests |-> CASE d \in {gone, skill} -> Dir
                         [] d \in {doc, page, ledger} -> "old"
                         [] OTHER -> Absent]

MCAfter ==
    [d \in MCDests |-> CASE d \in {skill, fresh} -> Dir
                         [] d \in {page, ledger, event} -> "new"
                         [] OTHER -> Absent]

Update == <<doc, gone, skill, page, ledger, event>>

Fork == <<fresh, event>>

MCPlans ==
    {[order |-> Update, after |-> MCAfter, parents |-> <<history>>, update |-> TRUE],
     [order |-> Fork, after |-> MCAfter, parents |-> <<history>>, update |-> FALSE]}
=============================================================================
