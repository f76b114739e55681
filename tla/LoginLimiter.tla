----------------------------- MODULE LoginLimiter -----------------------------
(***************************************************************************)
(* The rate limit of the admin login, for one client address: is_ip_banned *)
(* counts the failed attempts in the window before a password or a code is *)
(* looked at, record_failed_attempt adds one after it was wrong, and       *)
(* clear_attempts forgets them after a login.                              *)
(*                                                                         *)
(* Requests are coroutines: others run between the check and the record.   *)
(* The time of an attempt is the server default now(), which in PostgreSQL *)
(* is the start of the transaction - here that of the first query of the   *)
(* request - so a slow request records an attempt in the past.  Times are  *)
(* kept as ages in minutes.                                                *)
(***************************************************************************)
EXTENDS Integers, FiniteSets

CONSTANTS
    Handlers,  \* the requests that may be under way at once
    Ids,       \* ids of login_attempts rows (a bound, freed ids are reused)
    Max,       \* MAX_ATTEMPTS
    Window,    \* WINDOW_MINUTES
    Ban,       \* BAN_MINUTES
    Keep       \* minutes until old rows are cleaned up (one day)

ASSUME HandlersAssumption == IsFiniteSet(Handlers) /\ Handlers # {}
ASSUME IdsAssumption == IsFiniteSet(Ids)
ASSUME MaxAssumption == Max \in Nat \ {0}
ASSUME MinutesAssumption == Window \in Nat /\ Ban \in Nat /\ Keep \in Nat /\ Window < Keep

VARIABLES
    rows,   \* the login_attempts rows of the address
    age,    \* minutes since attempted_at, per row
    pc,     \* what each request is about to do
    begun,  \* minutes since the first query of each request
    ban     \* minutes until the ban_expiry last computed (history)

vars == <<rows, age, pc, begun, ban>>

------------------------------------------------------------------------------
Pcs == {"idle", "record", "clear"}

TypeOK ==
    /\ rows \subseteq Ids
    /\ age \in [Ids -> Nat]
    /\ pc \in [Handlers -> Pcs]
    /\ begun \in [Handlers -> Nat]
    /\ ban \in Nat

Init ==
    /\ rows = {}
    /\ age = [i \in Ids |-> 0]
    /\ pc = [h \in Handlers |-> "idle"]
    /\ begun = [h \in Handlers |-> 0]
    /\ ban = 0

(* attempted_at >= since *)
InWindow == {i \in rows : age[i] <= Window}

(* The last attempt: ORDER BY attempted_at DESC LIMIT 1 *)
Last == {i \in rows : \A j \in rows : age[i] <= age[j]}

(* Mutant: the ban is left to the rows, and they to the clean-up. *)
BannedByRows == Cardinality(rows) >= Max /\ Last # {}

(* The second condition is now < last_attempt + BAN_MINUTES. *)
Banned == Cardinality(InWindow) >= Max /\ \E i \in Last : age[i] < Ban

(* Requests that passed the check and whose password or code was wrong. *)
Recording == {h \in Handlers : pc[h] = "record"}

(* Mutant: the difference as it is. *)
LongestFirst(m, n) == m

Longest(m, n) == IF m > n THEN m ELSE n

------------------------------------------------------------------------------
(* is_ip_banned says yes: the request is answered 429.  So is one that has   *)
(* just recorded its failure, which asks once more.                          *)
Refuse(h) ==
    /\ pc[h] = "idle"
    /\ Banned
    /\ \E i \in Last : ban' = Longest(Ban - age[i], 0)
    /\ UNCHANGED <<rows, age, pc, begun>>

(* Mutant: the failure is recorded and the check left to the next request. *)
WrongUnchecked(h) ==
    /\ pc[h] = "idle"
    /\ pc' = [pc EXCEPT ![h] = "record"]
    /\ begun' = [begun EXCEPT ![h] = 0]
    /\ UNCHANGED <<rows, age, ban>>

(* is_ip_banned says no and the password, or the code, is wrong ... *)
Wrong(h) ==
    /\ pc[h] = "idle"
    /\ ~Banned
    /\ pc' = [pc EXCEPT ![h] = "record"]
    /\ begun' = [begun EXCEPT ![h] = 0]
    /\ UNCHANGED <<rows, age, ban>>

(* ... or right: verify_code, when there is a second factor, and then        *)
(* clear_attempts.                                                           *)
Right(h) ==
    /\ pc[h] = "idle"
    /\ ~Banned
    /\ pc' = [pc EXCEPT ![h] = "clear"]
    /\ begun' = [begun EXCEPT ![h] = 0]
    /\ UNCHANGED <<rows, age, ban>>

(* record_failed_attempt: INSERT, delete the rows older than a day, commit. *)
Record(h) ==
    /\ pc[h] = "record"
    /\ \E i \in Ids \ rows :
          /\ age' = [age EXCEPT ![i] = begun[h]]
          /\ rows' = {j \in rows \cup {i} : age'[j] <= Keep}
    /\ pc' = [pc EXCEPT ![h] = "idle"]
    /\ begun' = [begun EXCEPT ![h] = 0]
    /\ UNCHANGED ban

(* clear_attempts *)
Clear(h) ==
    /\ pc[h] = "clear"
    /\ rows' = {}
    /\ age' = [i \in Ids |-> 0]
    /\ pc' = [pc EXCEPT ![h] = "idle"]
    /\ begun' = [begun EXCEPT ![h] = 0]
    /\ ban' = 0

(* A request dies before its commit. *)
Abort(h) ==
    /\ pc[h] # "idle"
    /\ pc' = [pc EXCEPT ![h] = "idle"]
    /\ begun' = [begun EXCEPT ![h] = 0]
    /\ UNCHANGED <<rows, age, ban>>

(* A minute passes.  Nothing looks at an age beyond Keep. *)
Older(n) == IF n > Keep THEN n ELSE n + 1

Tick ==
    /\ age' = [i \in Ids |-> IF i \in rows THEN Older(age[i]) ELSE age[i]]
    /\ begun' = [h \in Handlers |-> IF pc[h] = "idle" THEN 0 ELSE Older(begun[h])]
    /\ ban' = Longest(ban - 1, 0)
    /\ UNCHANGED <<rows, pc>>

Next ==
    \/ \E h \in Handlers :
          Refuse(h) \/ Wrong(h) \/ Right(h) \/ Record(h) \/ Clear(h) \/ Abort(h)
    \/ Tick

Spec == Init /\ [][Next]_vars

(* Time passes; the clients owe nothing. *)
FairSpec == Spec /\ WF_vars(Tick)

------------------------------------------------------------------------------
(* The attempts counted that are younger than a ban *)
Recent == {i \in InWindow : age[i] < Ban}

(* However the requests of one address overlap, the failures counted in the *)
(* window and younger than a ban never exceed the limit by more than the     *)
(* requests under way, less one: the check before the password and the record *)
(* after it are not atomic, but a request that waits between them is a       *)
(* failure still to come.  With a ban longer than the window, the default,   *)
(* these are all that is counted.                                            *)
FailuresBounded ==
    Cardinality(Recent) + Cardinality(Recording) <= Max + Cardinality(Handlers) - 1

(* A ban ends: no run of refused requests keeps an address out for ever.    *)
BanEnds == Banned ~> ~Banned

(* "LOGIN_BAN_MINUTES": from a refusal to the ban_expiry it computed, no     *)
(* password is looked at unless a login clears the attempts.                 *)
BanLasts ==
    [][\A h \in Handlers : pc[h] = "idle" /\ pc'[h] # "idle" => ban = 0]_vars
==============================================================================
