--------------------------- MODULE Subscriptions ---------------------------
(***************************************************************************)
(* One add-on of one workspace, and what the platform does to sell it:     *)
(* acquiring it (platform/services/acquisitions.py), the monthly bills     *)
(* (billing.py), what a paid bill buys (renewals.py, heard through         *)
(* handlers.py), and the sweep that closes periods (entitlements.py).      *)
(*                                                                         *)
(* A worker is a request, a command or a report being handled.  It reads,  *)
(* and writes in one transaction later; between the two others may write.  *)
(* A moment is twice the number of a day, plus one for a time in the day   *)
(* and nothing for its midnight.                                           *)
(***************************************************************************)
EXTENDS Integers, Sequences, FiniteSets, FiniteSetsExt, Functions

CONSTANTS
  Worker,
  FirstDay,       \* the day each month begins, one more than Months of them
  Months,         \* bound: months in which something happens
  GraceDays, TrialDays,
  MaxRows,        \* bound: entitlements
  MaxAddOns       \* bound: bills for acquiring the add-on

ASSUME SubscriptionsAssumption ==
  /\ Months \in Nat \ {0} /\ GraceDays \in Nat /\ TrialDays \in Nat
  /\ FirstDay \in [0 .. Months + 2 -> Nat] /\ FirstDay[0] = 0
  /\ \A m, n \in 0 .. Months + 2 : m < n => FirstDay[m] < FirstDay[n]
  /\ \A day \in 0 .. FirstDay[Months + 2] - 1 :           \* is in a month
       \E m \in 0 .. Months + 1 : FirstDay[m] <= day /\ day < FirstDay[m + 1]
  /\ FirstDay[Months] + TrialDays <= FirstDay[Months + 2]  \* trials end in one
  /\ MaxRows \in Nat /\ MaxAddOns \in Nat

VARIABLES
  today,
  rows,           \* the WorkspaceEntitlement rows of the key, as written
  bill,           \* finance.Invoice rows the platform issued the workspace
  unheard,        \* paid bills with a report not handled yet: queued for after
                  \* the commit, or gone with its process until a later save
  worker,
  extension,      \* the WorkspaceExtension record's status
  creditSpent,    \* profile.trial_points_used_at is set
  regiven         \* history: bills that give the credit although it was given
                  \* after they were drawn up

vars == <<today, rows, bill, unheard, worker, extension, creditSpent, regiven>>

-----------------------------------------------------------------------------
(* Days and months *)

Month == 0 .. Months + 1
LastDay == FirstDay[Months] - 1

MonthOf(day) ==
  CHOOSE m \in Month : FirstDay[m] <= day /\ day < FirstDay[m + 1]

Length(m) == FirstDay[m + 1] - FirstDay[m]

\* The same day of the next month, or the last it has.
SameDayNextMonth(day) ==
  LET m == MonthOf(day)
  IN  FirstDay[m + 1] + Min({day - FirstDay[m], Length(m + 1) - 1})

\* add_months(moment, 1)
AddMonth(moment) == 2 * SameDayNextMonth(moment \div 2) + (moment % 2)

Midnight(day) == 2 * day
Now == 2 * today + 1

-----------------------------------------------------------------------------
(* Rows and bills *)

AddOn == {"add-on"} \X (1 .. MaxAddOns)
Monthly == {"month"} \X (0 .. Months - 1)
Bill == AddOn \cup Monthly

Otherwise == {"trial", "deferred", "granted"} \X {0}

\* A period to be written.  from: the row it goes on from (starts_at), or 0.
Period == [ends: Nat, from: 0 .. MaxRows]

\* by: the bill that bought the row, or how else it was written.
Row == [ends: Nat, from: 0 .. MaxRows, status: {"active", "grace", "ended"},
        by: Bill \cup Otherwise]

\* day: issue_date, of an add-on's bill, which is all that reads it.
\* lines: the rows a month's bill charges a renewal for.  credit: it carries
\* the trial credit.
Invoice == [status: {"none", "sent", "paid", "cancelled"}, day: Nat,
            lines: SUBSET (1 .. MaxRows), credit: BOOLEAN]

Run == [doing: {"idle", "resume"}]
  \cup [doing: {"acquire"}, course: {"trial", "bill", "deferred"}]
  \cup [doing: {"renew"}, bill: Bill, periods: SUBSET Period,
        settles: SUBSET (1 .. MaxRows)]
  \cup [doing: {"bill"}, month: 0 .. Months - 1,
        lines: SUBSET (1 .. MaxRows), credit: BOOLEAN]
  \cup [doing: {"sweep"}, late: SUBSET (1 .. MaxRows),
        over: SUBSET (1 .. MaxRows), pauses: BOOLEAN]

Idle == [doing |-> "idle"]

TypeOK ==
  /\ today \in 0 .. LastDay
  /\ rows \in Seq(Row) /\ Len(rows) <= MaxRows
  /\ bill \in [Bill -> Invoice]
  /\ unheard \subseteq Bill
  /\ worker \in [Worker -> Run]
  /\ extension \in {"inactive", "active", "paused"}
  /\ creditSpent \in BOOLEAN
  /\ regiven \subseteq Bill

Init ==
  /\ today = 0
  /\ rows = << >>
  /\ bill = [b \in Bill |-> [status |-> "none", day |-> 0, lines |-> {},
                             credit |-> FALSE]]
  /\ unheard = {}
  /\ worker = [w \in Worker |-> Idle]
  /\ extension = "inactive"
  /\ creditSpent = FALSE
  /\ regiven = {}

Purchased(i) == rows[i].by # <<"granted", 0>>

\* live_filter: an active row counts until its grace is over, as one in grace
\* does.
Live(i) ==
  /\ rows[i].status # "ended"
  /\ rows[i].ends + 2 * GraceDays >= Now

Entitled == \E i \in DOMAIN rows : Live(i)

\* The rows a month's bill charges a renewal for, and its payment renews.
Renewals(m) ==
  {i \in DOMAIN rows : Purchased(i) /\ MonthOf(rows[i].ends \div 2) = m}

\* The period an add-on's bill buys ends a month after the day it was issued.
FirstPeriod(b) == AddMonth(Midnight(bill[b].day))

\* _already_renewed
Written(ends) == \E i \in DOMAIN rows : Purchased(i) /\ rows[i].ends = ends

NewRow(ends, from, by) ==
  [ends |-> ends, from |-> from, status |-> "active", by |-> by]

Does(w, run) == worker' = [worker EXCEPT ![w] = run]

-----------------------------------------------------------------------------
(* Acquiring the add-on *)

Outstanding == {b \in AddOn : bill[b].status = "sent"}

Held == rows # << >>

\* acquire, up to the write: nothing keeps another request from asking between.
\* A priced add-on: a free one is never billed.
BeginAcquire(w) ==
  /\ worker[w].doing = "idle"
  /\ ~ Entitled
  /\ Outstanding = {}
  /\ \E course \in {"trial", "bill", "deferred"} :
       /\ course = "trial" <=> TrialDays > 0 /\ ~ Held
       /\ Does(w, [doing |-> "acquire", course |-> course])
  /\ UNCHANGED <<today, rows, bill, unheard, extension, creditSpent, regiven>>

\* _entitle: for a trial, or because there is no rate to bill at today.  An
\* extension that refuses to be switched on takes the row with it.
Entitle(w) ==
  /\ worker[w].doing = "acquire"
  /\ worker[w].course \in {"trial", "deferred"}
  /\ Len(rows) < MaxRows
  /\ \/ /\ rows' = Append(rows, NewRow(
              IF worker[w].course = "trial" THEN Now + 2 * TrialDays
                                            ELSE AddMonth(Now),
              0, <<worker[w].course, 0>>))
        /\ extension' = "active"
     \/ UNCHANGED <<rows, extension>>
  /\ Does(w, Idle)
  /\ UNCHANGED <<today, bill, unheard, creditSpent, regiven>>

\* _issue_bill, under the next number nothing has taken.
IssueBill(w) ==
  /\ worker[w].doing = "acquire" /\ worker[w].course = "bill"
  /\ \E n \in 1 .. MaxAddOns :
       /\ bill[<<"add-on", n>>].status = "none"
       /\ \A k \in 1 .. n - 1 : bill[<<"add-on", k>>].status # "none"
       /\ bill' = [bill EXCEPT ![<<"add-on", n>>] =
            [status |-> "sent", day |-> today, lines |-> {},
             credit |-> FALSE]]
  /\ Does(w, Idle)
  /\ UNCHANGED <<today, rows, unheard, extension, creditSpent, regiven>>

-----------------------------------------------------------------------------
(* The console *)

\* grant_entitlement, which holds the workspace, for a month.
Grant(w) ==
  /\ worker[w].doing = "idle"
  /\ ~ Entitled
  /\ Len(rows) < MaxRows
  /\ rows' = Append(rows, NewRow(AddMonth(Now), 0, <<"granted", 0>>))
  /\ Does(w, [doing |-> "resume"])
  /\ UNCHANGED <<today, bill, unheard, extension, creditSpent, regiven>>

\* _resume_if_paused
Resume(w) ==
  /\ worker[w].doing = "resume"
  /\ extension' = IF extension = "paused" /\ Entitled THEN "active"
                                                     ELSE extension
  /\ Does(w, Idle)
  /\ UNCHANGED <<today, rows, bill, unheard, creditSpent, regiven>>

Activate ==
  /\ extension # "active"
  /\ Entitled
  /\ extension' = "active"
  /\ UNCHANGED <<today, rows, bill, unheard, worker, creditSpent, regiven>>

Deactivate ==
  /\ extension # "inactive"
  /\ extension' = "inactive"
  /\ UNCHANGED <<today, rows, bill, unheard, worker, creditSpent, regiven>>

-----------------------------------------------------------------------------
(* Paying *)

\* A bill is settled, and its renewal queued for after the commit.
PayBill(b) ==
  /\ bill[b].status = "sent"
  /\ bill' = [bill EXCEPT ![b].status = "paid"]
  /\ unheard' = unheard \cup {b}
  /\ UNCHANGED <<today, rows, worker, extension, creditSpent, regiven>>

\* on_invoice_saved: any save of a paid bill reports it again.
SaveBill(b) ==
  /\ bill[b].status = "paid"
  /\ unheard' = unheard \cup {b}
  /\ UNCHANGED <<today, rows, bill, worker, extension, creditSpent, regiven>>

\* An add-on's: a month's bill that is cancelled is as one nobody pays.
CancelBill(b) ==
  /\ b \in AddOn
  /\ bill[b].status = "sent"
  /\ bill' = [bill EXCEPT ![b].status = "cancelled"]
  /\ UNCHANGED <<today, rows, unheard, worker, extension, creditSpent, regiven>>

-----------------------------------------------------------------------------
(* What a paid bill buys: renew_for_invoice *)

FirstBought(b) == {[ends |-> FirstPeriod(b), from |-> 0]}

\* Mutant: a row that has ended since is not renewed.
Bought_Live(b) ==
  IF b \in AddOn THEN FirstBought(b)
    ELSE {[ends |-> AddMonth(rows[i].ends), from |-> i] :
             i \in {r \in Renewals(b[2]) : Live(r)}}

\* A period for each row charged: two may end on one day, the last of a month.
Bought(b) ==
  IF b \in AddOn THEN FirstBought(b)
    ELSE {[ends |-> AddMonth(rows[i].ends), from |-> i] : i \in Renewals(b[2])}

\* Mutant: the invoice is not held while the periods are looked for.
Free_NoLock(b) == TRUE

\* Nobody holds the invoice.
Free(b) == \A w \in Worker : worker[w].doing = "renew" => worker[w].bill # b

\* Each period is looked for before any is written.
BeginRenew(w, b) ==
  /\ worker[w].doing = "idle"
  /\ b \in unheard
  /\ Free(b)
  /\ unheard' = unheard \ {b}
  /\ LET periods == {p \in Bought(b) : ~ Written(p.ends)}
     IN  Does(w, [doing |-> "renew", bill |-> b, periods |-> periods,
           settles |-> {i \in DOMAIN rows :
                          /\ rows[i].status = "grace"
                          /\ \E p \in periods : p.from = i}])
  /\ UNCHANGED <<today, rows, bill, extension, creditSpent, regiven>>

\* They are written in the order of the rows they go on from.
FinishRenew(w) ==
  LET n == Cardinality(worker[w].periods)
  IN  /\ worker[w].doing = "renew"
      /\ Len(rows) + n <= MaxRows
      /\ \E new \in Bijection(1 .. n, worker[w].periods) :
           /\ \A j, k \in 1 .. n : j < k => new[j].from < new[k].from
           /\ rows' = [i \in DOMAIN rows |->
                IF i \in worker[w].settles /\ rows[i].status = "grace"
                  THEN [rows[i] EXCEPT !.status = "ended"]
                  ELSE rows[i]]
              \o [k \in 1 .. n |->
                    NewRow(new[k].ends, new[k].from, worker[w].bill)]
      /\ Does(w, Idle)
      /\ UNCHANGED <<today, bill, unheard, extension, creditSpent, regiven>>

-----------------------------------------------------------------------------
(* issue_monthly_bills, for this workspace *)

BeginBilling(w, m) ==
  /\ worker[w].doing = "idle"
  /\ m < MonthOf(today)
  /\ bill[<<"month", m>>].status = "none"
  /\ \E used \in BOOLEAN :
       /\ used \/ Renewals(m) # {}
       /\ Does(w, [doing |-> "bill", month |-> m, lines |-> Renewals(m),
                   credit |-> ~ creditSpent])
  /\ UNCHANGED <<today, rows, bill, unheard, extension, creditSpent, regiven>>

\* issue_bill, with this status
Issue(w, status) ==
  bill' = [bill EXCEPT ![<<"month", worker[w].month>>] =
    [status |-> status, day |-> 0, lines |-> worker[w].lines,
     credit |-> worker[w].credit]]

Regives(w) ==
  regiven' = IF worker[w].credit /\ creditSpent
               THEN regiven \cup {<<"month", worker[w].month>>} ELSE regiven

\* Mutant: the profile is not saved.
FinishBilling_Unsaved(w) ==
  /\ worker[w].doing = "bill"
  /\ IF bill[<<"month", worker[w].month>>].status = "none"
       THEN Issue(w, "sent") /\ Regives(w)
       ELSE UNCHANGED <<bill, regiven>>
  /\ Does(w, Idle)
  /\ UNCHANGED <<today, rows, unheard, extension, creditSpent>>

\* Mutant: the bill is left a draft.
FinishBilling_Draft(w) ==
  /\ worker[w].doing = "bill"
  /\ IF bill[<<"month", worker[w].month>>].status = "none"
       THEN /\ Issue(w, "draft") /\ Regives(w)
            /\ creditSpent' = (creditSpent \/ worker[w].credit)
       ELSE UNCHANGED <<bill, creditSpent, regiven>>
  /\ Does(w, Idle)
  /\ UNCHANGED <<today, rows, unheard, extension>>

\* The number of a month's bill is unique: another run may have been first.
\* Of two months, each carries the credit if both were drawn up before.
FinishBilling(w) ==
  /\ worker[w].doing = "bill"
  /\ IF bill[<<"month", worker[w].month>>].status = "none"
       THEN /\ Issue(w, "sent") /\ Regives(w)
            /\ creditSpent' = (creditSpent \/ worker[w].credit)
       ELSE UNCHANGED <<bill, creditSpent, regiven>>
  /\ Does(w, Idle)
  /\ UNCHANGED <<today, rows, unheard, extension>>

-----------------------------------------------------------------------------
(* close_due_periods, with _pause_extensions *)

\* Mutant: there is no grace.
Over_NoGrace(i) == rows[i].ends < Now

Over(i) == rows[i].ends + 2 * GraceDays < Now

\* Mutant: nobody is offered for pausing whose row ran out unseen.
BeginSweep_GraceOnly(w) ==
  LET late == {i \in DOMAIN rows :
                 rows[i].status = "active" /\ rows[i].ends < Now}
      over == {i \in DOMAIN rows :
                 /\ rows[i].status = "grace" \/ i \in late
                 /\ Over(i)}
  IN  /\ worker[w].doing = "idle"
      /\ late \cup over # {}
      /\ Does(w, [doing |-> "sweep", late |-> late, over |-> over,
                  pauses |-> /\ over \ late # {}
                             /\ ~ \E i \in DOMAIN rows \ over : Live(i)
                             /\ extension = "active"])
      /\ UNCHANGED <<today, rows, bill, unheard, extension, creditSpent, regiven>>

BeginSweep(w) ==
  LET late == {i \in DOMAIN rows :
                 rows[i].status = "active" /\ rows[i].ends < Now}
      over == {i \in DOMAIN rows :
                 /\ rows[i].status = "grace" \/ i \in late
                 /\ Over(i)}
  IN  /\ worker[w].doing = "idle"
      /\ late \cup over # {}
      /\ Does(w, [doing |-> "sweep", late |-> late, over |-> over,
                  pauses |-> /\ over # {}
                             /\ ~ \E i \in DOMAIN rows \ over : Live(i)
                             /\ extension = "active"])
      /\ UNCHANGED <<today, rows, bill, unheard, extension, creditSpent, regiven>>

FinishSweep(w) ==
  /\ worker[w].doing = "sweep"
  /\ rows' = [i \in DOMAIN rows |->
       IF i \in worker[w].over /\ rows[i].status # "ended"
         THEN [rows[i] EXCEPT !.status = "ended"]
       ELSE IF i \in worker[w].late /\ rows[i].status = "active"
         THEN [rows[i] EXCEPT !.status = "grace"]
       ELSE rows[i]]
  /\ extension' = IF worker[w].pauses THEN "paused" ELSE extension
  /\ Does(w, Idle)
  /\ UNCHANGED <<today, bill, unheard, creditSpent, regiven>>

-----------------------------------------------------------------------------

Crash(w) ==
  /\ worker[w].doing # "idle"
  /\ unheard' = IF worker[w].doing = "renew" THEN unheard \cup {worker[w].bill}
                                             ELSE unheard
  /\ Does(w, Idle)
  /\ UNCHANGED <<today, rows, bill, extension, creditSpent, regiven>>

NextDay ==
  /\ today < LastDay
  /\ today' = today + 1
  /\ UNCHANGED <<rows, bill, unheard, worker, extension, creditSpent, regiven>>

Next ==
  \/ \E w \in Worker :
       \/ BeginAcquire(w) \/ Entitle(w) \/ IssueBill(w)
       \/ Grant(w) \/ Resume(w)
       \/ \E b \in Bill : BeginRenew(w, b)
       \/ FinishRenew(w)
       \/ \E m \in 0 .. Months - 1 : BeginBilling(w, m)
       \/ FinishBilling(w)
       \/ BeginSweep(w) \/ FinishSweep(w)
       \/ Crash(w)
  \/ \E b \in Bill : PayBill(b) \/ SaveBill(b) \/ CancelBill(b)
  \/ Activate \/ Deactivate
  \/ NextDay

Spec == Init /\ [][Next]_vars

-----------------------------------------------------------------------------
(* Properties *)

Heard(b) ==
  /\ bill[b].status = "paid"
  /\ b \notin unheard
  /\ Free(b)

\* The periods a bill charged for, by their ends.
Charged(b) ==
  IF b \in AddOn THEN {FirstPeriod(b)}
                 ELSE {AddMonth(rows[l].ends) : l \in bill[b].lines}

\* Every bill that is paid, and was heard to be, bought at least the periods
\* it charged for, however late and however often its payment was reported.
PaidIsGiven ==
  \A b \in Bill : Heard(b) => \A e \in Charged(b) : Written(e)

\* A payment that is reported twice, or twice at once, buys the first period
\* once, and goes on from each row once.
GivenOnce ==
  \A i, j \in DOMAIN rows :
    /\ rows[i].by \in Bill /\ rows[j].by = rows[i].by
    /\ rows[j].from = rows[i].from
    => i = j

\* The trial credit is given once in a workspace's life, but for bills drawn up
\* before the first that gives it was written.
CreditOnce == Cardinality({b \in Bill \ regiven : bill[b].credit}) <= 1

\* An extension in use has an entitlement the sweep has yet to settle, so that
\* it is paused when nobody renews it, however late the sweep runs.
StillWatched ==
  extension = "active" => \E i \in DOMAIN rows : rows[i].status # "ended"

\* No period is cut short: a row ends when its grace is over, or when the
\* period after it has been bought.
EndsInTime ==
  [][\A i \in DOMAIN rows :
       rows[i].status # "ended" /\ rows'[i].status = "ended" =>
         \/ rows[i].ends + 2 * GraceDays < Now
         \/ \E j \in DOMAIN rows' : rows'[j].ends = AddMonth(rows[i].ends)]_vars

\* An extension stays paused only as long as nobody pays for it.
PaidIsAvailable ==
  extension = "paused" /\ (\A w \in Worker : worker[w] = Idle)
    => \A i \in DOMAIN rows : ~ (Live(i) /\ rows[i].by \in Bill)
=============================================================================
