---------------------------- MODULE ExpenseReport ---------------------------
(***************************************************************************)
(* An expense report from draft to decision. `review` remembers what the   *)
(* report held when it was last approved or rejected, and whether          *)
(* anything was added since it was last submitted.                         *)
(***************************************************************************)
EXTENDS Integers, SequencesExt

CONSTANTS
    Expenses,       \* [category, amount]
    NoReason,       \* no reason for a rejection
    MaxExpenses     \* bound: expenses of the report

VARIABLES
    report,
    review          \* history: what was decided on, and whether it grew since

reportVars == <<report, review>>

Statuses == {"Draft", "Pending", "Approved", "Rejected"}
Categories == {"Meals", "Travel", "Accommodation", "Equipment", "Other"}
Reasons == {"limits", NoReason}

LimitFor == [Meals |-> 50, Travel |-> 500, Accommodation |-> 200, Equipment |-> 1000, Other |-> 100]
ReportMaximum == 5000
ApprovalThreshold == 2500

ExpenseItems == [category : Categories, amount : Int]

ASSUME ReportAssumption == Expenses \in SUBSET ExpenseItems /\ MaxExpenses \in Nat

IsOverLimit(item) == item.amount > LimitFor[item.category]
TotalOf(items) == FoldLeft(LAMBDA sum, item : sum + item.amount, 0, items)
RequiresApproval(items) ==
    (\E i \in DOMAIN items : IsOverLimit(items[i])) \/ TotalOf(items) > ApprovalThreshold

-----------------------------------------------------------------------------
ReportInit ==
    /\ report = [status |-> "Draft", items |-> <<>>, reason |-> NoReason]
    /\ review = [decided |-> <<>>, grown |-> FALSE]

\* Variant: a report that was rejected may still grow.
IsApproved == report.status = "Approved"

IsFinalized == report.status \in {"Approved", "Rejected"}

AddExpense(item) ==
    /\ Len(report.items) < MaxExpenses                             \* bound
    /\ ~IsFinalized
    /\ item.amount > 0
    /\ report' = [report EXCEPT !.items = Append(@, item)]
    /\ review' = [review EXCEPT !.grown = TRUE]

\* list.remove: the first expense equal to the one given, in any status.
RemoveExpense(item) ==
    /\ Contains(report.items, item)
    /\ report' = [report EXCEPT !.items = RemoveFirst(@, item)]
    /\ UNCHANGED review

Submittable(r) == r.items # <<>> /\ TotalOf(r.items) <= ReportMaximum

SubmitReport ==
    /\ Submittable(report)
    /\ report' = [report EXCEPT !.status = "Pending"]
    /\ review' = [review EXCEPT !.grown = FALSE]

Decide(status, reason) ==
    /\ report.status = "Pending"
    /\ report' = [report EXCEPT !.status = status, !.reason = reason]
    /\ review' = [review EXCEPT !.decided = report.items]

ApproveReport == Decide("Approved", report.reason)
RejectReport == \E reason \in Reasons \ {NoReason} : Decide("Rejected", reason)

ReopenReport ==
    /\ report.status = "Rejected"
    /\ report' = [report EXCEPT !.status = "Draft", !.reason = NoReason]
    /\ UNCHANGED review

ReportNext ==
    \/ \E item \in Expenses : AddExpense(item) \/ RemoveExpense(item)
    \/ SubmitReport \/ ApproveReport \/ RejectReport \/ ReopenReport

ReportSpec == ReportInit /\ [][ReportNext]_reportVars

-----------------------------------------------------------------------------
ReportTypeOK ==
    /\ report \in [status : Statuses, items : Seq(Expenses), reason : Reasons]
    /\ review \in [decided : Seq(Expenses), grown : BOOLEAN]

IsPartOf(few, many) == \A x \in ToSet(few) :
    Cardinality({i \in DOMAIN few : few[i] = x}) <= Cardinality({i \in DOMAIN many : many[i] = x})

\* A report in or past review is over the maximum only by what was added while
\* it was pending; one that is decided holds nothing that was not decided on;
\* so it cannot come to require an approval it did not require then; and a
\* reason stays with a report through new submissions, never with a draft
\* (report.py:46-93).
ReviewedAsDecided ==
    /\ report.status # "Draft" /\ TotalOf(report.items) > ReportMaximum => review.grown
    /\ report.status \in {"Approved", "Rejected"} =>
          /\ IsPartOf(report.items, review.decided)
          /\ RequiresApproval(report.items) => RequiresApproval(review.decided)
    /\ report.status = "Draft" => report.reason = NoReason
    /\ report.status = "Rejected" => report.reason # NoReason
=============================================================================
