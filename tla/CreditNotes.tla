----------------------------- MODULE CreditNotes -----------------------------
(***************************************************************************)
(* The credit-note driver (internal/creditnotes): for each invoice in      *)
(* turn it draws a refund or none, and drafts, issues and, if drawn so,    *)
(* applies a note.  Every post carries its own key and is made once.  The  *)
(* log is read back by check 16 of validate.                               *)
(***************************************************************************)
EXTENDS Payments

VARIABLES
    cur,    \* the invoice ProcessInvoices is at
    step,   \* where runFlow is: next, draft, issue, apply
    drawn,  \* what was drawn for an invoice: none, issue, apply
    note,   \* the platform's credit note of an invoice
    cnLog,  \* rows of credit_notes.jsonl for an invoice
    cnStats \* Driver.Stats

noteVars == <<cur, step, drawn, note, cnLog, cnStats>>

CreditNotesInit(n) ==
    /\ cur = 1 /\ step = "next"
    /\ drawn = [i \in 1..n |-> "none"]
    /\ note = [i \in 1..n |-> "none"]
    /\ cnLog = [i \in 1..n |-> <<>>]
    /\ cnStats = [c \in {"processed", "drafted", "issued", "applied", "skipped", "errors"} |-> 0]

Count(c) == cnStats' = [cnStats EXCEPT ![c] = @ + 1]

\* id tells whether the row carries the credit note's id.
Log(id, status) == cnLog' = [cnLog EXCEPT ![cur] = Append(@, [id |-> id, status |-> status])]

NotesOver == cur \notin invoices \/ (ctxDone /\ step = "next")

\* pickKind and flip: a draw of none is skipped.
DrawNote ==
    /\ step = "next" /\ ~NotesOver
    /\ \E d \in {"none", "issue", "apply"} :
          /\ drawn' = [drawn EXCEPT ![cur] = d]
          /\ cnStats' = [cnStats EXCEPT !["processed"] = @ + 1,
                                        !["skipped"] = @ + (IF d = "none" THEN 1 ELSE 0)]
          /\ IF d = "none" THEN cur' = cur + 1 /\ UNCHANGED step
                           ELSE step' = "draft" /\ UNCHANGED cur
    /\ UNCHANGED <<note, cnLog>>

\* Mutant of FlowFails: an error leaves no row.
FlowFailsQuietly ==
    /\ Count("errors")
    /\ step' = "next" /\ cur' = cur + 1
    /\ UNCHANGED cnLog

\* An error ends the flow: the row it leaves carries no id.
FlowFails ==
    /\ Log(FALSE, "error")
    /\ Count("errors")
    /\ step' = "next" /\ cur' = cur + 1

\* A post that fails may have been carried out.
PostFails(before, after) ==
    /\ note[cur] = before
    /\ note' \in {note, [note EXCEPT ![cur] = after]}
    /\ FlowFails
    /\ UNCHANGED drawn

DraftNote ==
    /\ step = "draft"
    /\ \/ /\ ~ctxDone
          /\ note' = [note EXCEPT ![cur] = "DRAFT"]
          /\ Count("drafted")
          /\ \E id \in BOOLEAN :
                /\ Log(id, "DRAFT")
                /\ IF id THEN step' = "issue" /\ UNCHANGED cur
                         ELSE step' = "next" /\ cur' = cur + 1
          /\ UNCHANGED drawn
       \/ PostFails("none", "DRAFT")

IssueNote ==
    /\ step = "issue"
    /\ \/ /\ ~ctxDone
          /\ note' = [note EXCEPT ![cur] = "ISSUED"]
          /\ Count("issued")
          /\ Log(TRUE, "ISSUED")
          /\ IF drawn[cur] = "apply" THEN step' = "apply" /\ UNCHANGED cur
                                     ELSE step' = "next" /\ cur' = cur + 1
          /\ UNCHANGED drawn
       \/ PostFails("DRAFT", "ISSUED")

ApplyNote ==
    /\ step = "apply"
    /\ \/ /\ ~ctxDone
          /\ note' = [note EXCEPT ![cur] = "APPLIED"]
          /\ Count("applied")
          /\ Log(TRUE, "APPLIED")
          /\ step' = "next" /\ cur' = cur + 1
          /\ UNCHANGED drawn
       \/ PostFails("ISSUED", "APPLIED")

runFlow == DraftNote \/ IssueNote \/ ApplyNote

NotesStep == (DrawNote \/ runFlow) /\ UNCHANGED paymentsVars

-----------------------------------------------------------------------------
(***************************************************************************)
(* Check 16.  Rows are grouped by the note's id; rows without one are a    *)
(* group of the invoice's own.                                             *)
(***************************************************************************)
Rows(i, id) == {k \in DOMAIN cnLog[i] : cnLog[i][k].id = id}
Reconstruct == {g \in invoices \X BOOLEAN : Rows(g[1], g[2]) # {}}
HasRow(g, status) == \E k \in Rows(g[1], g[2]) : cnLog[g[1]][k].status = status

runCreditNotes ==
    IF Reconstruct = {} THEN "SKIP"
    ELSE IF /\ \A g \in Reconstruct : HasRow(g, "DRAFT") /\ HasRow(g, "ISSUED")
            /\ 20 * Cardinality({g \in Reconstruct : HasRow(g, "error")})
                  <= Cardinality(Reconstruct)
         THEN "PASS" ELSE "FAIL"
=============================================================================
