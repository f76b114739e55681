------------------------------ MODULE Retention -------------------------------
(***************************************************************************)
(* The access log and its retention: every login adds a row, and on the    *)
(* first of a month run_retention adds the rows older than the retention   *)
(* to monthly counts and deletes them.                                     *)
(*                                                                         *)
(* The retention is a number of days, so the cutoff falls inside a month   *)
(* and the rest of that month is added by a later run.  Time passes in     *)
(* halves of a month.  A group is what a row is counted by besides its     *)
(* month: provider, kind of user, client and IdP, of which three nullable, *)
(* and NULLs never conflict in a unique constraint of PostgreSQL.          *)
(***************************************************************************)
EXTENDS Integers

CONSTANTS
    Groups,      \* values of (idp, provider_type, user_type, client_id)
    NullGroups,  \* those with a NULL among them
    Retained,    \* halves of a month a row is kept
    PerHalf,     \* bound: rows of a group in half a month
    LastHalf     \* bound: halves of a month in the history of the system

ASSUME RetentionAssumption ==
    /\ NullGroups \subseteq Groups
    /\ Retained \in Nat /\ PerHalf \in Nat /\ LastHalf \in Nat \ {0}

VARIABLES
    today,   \* the half of a month it is
    log,     \* rows of access_log
    stats,   \* rows of access_stats_monthly
    counts,  \* and their counts
    run,     \* the job of the scheduler
    (* history *)
    logins   \* logins of a month and group

retTable == <<log, stats, counts>>
retVars  == <<today, retTable, run, logins>>

------------------------------------------------------------------------------
Halves   == 1..LastHalf
Month(h) == (h + 1) \div 2
Months   == 1..Month(LastHalf)

(* A cell of the counts: the columns of uq_access_stats_monthly *)
Cells == Months \X Groups
Zero  == [c \in Cells |-> 0]

(* The rows of a log that are counted in a cell, up to some half of a month: *)
(* those of the first half and those of the second.                          *)
LoggedIn(l, h, g, last) == IF h \in Halves /\ h <= last THEN l[<<h, g>>] ELSE 0

Logged(l, c, last) ==
    LoggedIn(l, 2 * c[1] - 1, c[2], last) + LoggedIn(l, 2 * c[1], c[2], last)

RetTypeOK ==
    /\ today \in Halves
    /\ log \in [Halves \X Groups -> Nat]
    /\ stats \in [Cells -> Nat]
    /\ counts \in [Cells -> Nat]
    /\ run \in [pc : {"idle", "store"}, cutoff : Int, cells : [Cells -> Nat]]
    /\ logins \in [Cells -> Nat]

NoRun == [pc |-> "idle", cutoff |-> 0, cells |-> Zero]

RetInit ==
    /\ today = 1
    /\ log = [e \in Halves \X Groups |-> 0]
    /\ stats = Zero /\ counts = Zero /\ logins = Zero
    /\ run = NoRun

------------------------------------------------------------------------------
(* log_access *)
LogAccess(g) ==
    /\ log[<<today, g>>] < PerHalf
    /\ log' = [log EXCEPT ![<<today, g>>] = @ + 1]
    /\ logins' = [logins EXCEPT ![<<Month(today), g>>] = @ + 1]
    /\ UNCHANGED <<today, stats, counts, run>>

HalfMonthPasses ==
    /\ today < LastHalf
    /\ today' = today + 1
    /\ UNCHANGED <<retTable, run, logins>>

(* run_retention counts the rows before the cutoff ... *)
CountOld ==
    /\ run.pc = "idle"
    /\ LET cutoff == today - Retained IN
       run' = [pc |-> "store", cutoff |-> cutoff,
               cells |-> [c \in Cells |-> Logged(log, c, cutoff - 1)]]
    /\ UNCHANGED <<today, retTable, logins>>

(* ... adds the counts to the rows that conflict, or as rows of their own,   *)
(* and deletes what it counted, in one transaction.                          *)
Conflicts(c) == stats[c] > 0 /\ c[2] \notin NullGroups

(* Mutant: the count of an earlier run is replaced. *)
StoreCountsOver ==
    /\ run.pc = "store"
    /\ stats' = [c \in Cells |->
                   IF run.cells[c] > 0 /\ ~Conflicts(c) THEN stats[c] + 1 ELSE stats[c]]
    /\ counts' = [c \in Cells |-> IF run.cells[c] > 0 THEN run.cells[c] ELSE counts[c]]
    /\ log' = [e \in Halves \X Groups |-> IF e[1] < run.cutoff THEN 0 ELSE log[e]]
    /\ run' = NoRun
    /\ UNCHANGED <<today, logins>>

StoreCounts ==
    /\ run.pc = "store"
    /\ stats' = [c \in Cells |->
                   IF run.cells[c] > 0 /\ ~Conflicts(c) THEN stats[c] + 1 ELSE stats[c]]
    /\ counts' = [c \in Cells |-> counts[c] + run.cells[c]]
    /\ log' = [e \in Halves \X Groups |-> IF e[1] < run.cutoff THEN 0 ELSE log[e]]
    /\ run' = NoRun
    /\ UNCHANGED <<today, logins>>

(* An error or a restart: the transaction is rolled back. *)
RunFails ==
    /\ run.pc = "store"
    /\ run' = NoRun
    /\ UNCHANGED <<today, retTable, logins>>

RetNext ==
    \/ \E g \in Groups : LogAccess(g)
    \/ HalfMonthPasses
    \/ CountOld \/ StoreCounts \/ RunFails

RetSpec == RetInit /\ [][RetNext]_retVars

------------------------------------------------------------------------------
(* Every login is counted once, in the log or in the monthly counts,         *)
(* whichever runs fail and although a month is added in two runs; and a      *)
(* month has one row of counts for a group without NULL.                     *)
StatsAddUp ==
    \A c \in Cells :
       /\ counts[c] + Logged(log, c, today) = logins[c]
       /\ c[2] \notin NullGroups => stats[c] <= 1
==============================================================================
