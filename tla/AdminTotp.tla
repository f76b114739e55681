------------------------------ MODULE AdminTotp ------------------------------
(***************************************************************************)
(* The second factor of the admin login: the single row of admin_totp, its *)
(* enrolment (/admin/login/setup), its use (/admin/login/2fa), the reset   *)
(* from the console and the change of SESSION_SECRET that makes the stored *)
(* secret unreadable.                                                      *)
(*                                                                         *)
(* A request keeps in memory the row it read first: the ORM session maps   *)
(* id 1 to one object and does not refresh it, and an UPDATE writes the    *)
(* columns the request changed on whatever row has that id by then.  Every *)
(* statement is one step.  The ban is LoginLimiter's; the pending cookie   *)
(* only takes requests away and is left out.  Codes of different secrets   *)
(* or time steps are assumed to differ.                                    *)
(***************************************************************************)
EXTENDS Integers, FiniteSets

CONSTANTS
    Handlers,  \* the requests that may be under way at once
    Secrets,   \* TOTP secrets, drawn at random and never twice (a bound)
    Horizon,   \* the last time step (a bound)
    NoCode,    \* what a GET of the setup page brings
    Modes      \* how the program may be used, see mode

ASSUME NoCodeAssumption == NoCode \notin [secret : Secrets, step : Nat]
ASSUME HorizonAssumption == Horizon \in Nat
ASSUME ModesAssumption == Modes \subseteq [serial : BOOLEAN, resets : BOOLEAN]

VARIABLES
    table,  \* the rows of admin_totp
    drawn,  \* the secrets drawn so far
    now,    \* the current time step (30 seconds)
    pc,     \* what each request is about to do
    route,  \* "setup" or "login"
    code,   \* the code each request brings
    saw,    \* the row in the memory of each request, if any
    used,   \* codes that were accepted (history)
    mode    \* never changes.  serial: requests do not overlap; resets: the
            \* console command reset-2fa is used, and SESSION_SECRET is
            \* changed (and not changed back)

vars == <<table, drawn, now, pc, route, code, saw, used, mode>>

------------------------------------------------------------------------------
(* last is last_used_counter, 0 for NULL.  readable: decrypt_secret works.  *)
Row == [secret : Secrets, confirmed : BOOLEAN, readable : BOOLEAN, last : Nat]

Codes == [secret : Secrets, step : Nat]

Pcs == {"idle", "look", "again", "create", "check", "in"}

TypeOK ==
    /\ table \subseteq Row
    /\ drawn \subseteq Secrets
    /\ now \in Nat
    /\ pc \in [Handlers -> Pcs]
    /\ route \in [Handlers -> {"setup", "login"}]
    /\ code \in [Handlers -> Codes \cup {NoCode}]
    /\ saw \in [Handlers -> SUBSET Row]
    /\ used \subseteq Codes
    /\ mode \in Modes

Init ==
    /\ table = {}
    /\ drawn = {}
    /\ now = 1
    /\ pc = [h \in Handlers |-> "idle"]
    /\ route = [h \in Handlers |-> "setup"]
    /\ code = [h \in Handlers |-> NoCode]
    /\ saw = [h \in Handlers |-> {}]
    /\ used = {}
    /\ mode \in Modes

Quiet == \A h \in Handlers : pc[h] = "idle"

Confirmed(rows) == \E r \in rows : r.confirmed

Readable(rows) == \E r \in rows : r.readable

(* Mutant: the last step starts below every step. *)
NewRowBelow(s) == [secret |-> s, confirmed |-> FALSE, readable |-> TRUE, last |-> -1]

NewRow(s) == [secret |-> s, confirmed |-> FALSE, readable |-> TRUE, last |-> 0]

Goto(h, next) == pc' = [pc EXCEPT ![h] = next]

(* The request is answered and forgotten. *)
End(h) ==
    /\ Goto(h, "idle")
    /\ route' = [route EXCEPT ![h] = "setup"]
    /\ code' = [code EXCEPT ![h] = NoCode]
    /\ saw' = [saw EXCEPT ![h] = {}]

------------------------------------------------------------------------------
(* GET /admin/login/setup, or a POST of a code from a phone whose clock is   *)
(* at most one step ahead.                                                   *)
Request(h, r, c) ==
    /\ pc[h] = "idle"
    /\ mode.serial => Quiet
    /\ c = NoCode => r = "setup"
    /\ Goto(h, "look")
    /\ route' = [route EXCEPT ![h] = r]
    /\ code' = [code EXCEPT ![h] = c]
    /\ UNCHANGED <<table, drawn, now, saw, used>>

(* get_totp in the route: on to the code, on to get_or_create_pending, or a  *)
(* redirect from one route to the other.                                     *)
LookLogin(h) ==
    /\ pc[h] = "look" /\ route[h] = "login" /\ Confirmed(table)
    /\ Goto(h, "check")
    /\ saw' = [saw EXCEPT ![h] = table]
    /\ UNCHANGED <<table, drawn, now, route, code, used>>

LookSetup(h) ==
    /\ pc[h] = "look" /\ route[h] = "setup" /\ ~Confirmed(table)
    /\ Goto(h, "again")
    /\ saw' = [saw EXCEPT ![h] = table]
    /\ UNCHANGED <<table, drawn, now, route, code, used>>

LookAway(h) ==
    /\ pc[h] = "look"
    /\ Confirmed(table) <=> route[h] = "setup"
    /\ End(h)
    /\ UNCHANGED <<table, drawn, now, used>>

(* get_totp in get_or_create_pending finds the object of the first query,    *)
(* when there is one and the row still exists.                               *)
SeenAgain(h) == IF saw[h] # {} /\ table # {} THEN saw[h] ELSE table

LookAgain(h) ==
    /\ pc[h] = "again"
    /\ ~Confirmed(SeenAgain(h))
    /\ saw' = [saw EXCEPT ![h] = SeenAgain(h)]
    /\ Goto(h, IF Readable(SeenAgain(h)) THEN "check" ELSE "create")
    /\ UNCHANGED <<table, drawn, now, route, code, used>>

(* ValueError: the row was confirmed since. *)
LookAgainFails(h) ==
    /\ pc[h] = "again"
    /\ Confirmed(SeenAgain(h))
    /\ End(h)
    /\ UNCHANGED <<table, drawn, now, used>>

(* Mutant: the new row replaces one that came first. *)
InsertOver(h) ==
    /\ pc[h] = "create" /\ saw[h] = {}
    /\ \E s \in Secrets \ drawn :
          /\ drawn' = drawn \cup {s}
          /\ table' = {NewRow(s)}
          /\ saw' = [saw EXCEPT ![h] = {NewRow(s)}]
    /\ Goto(h, "check")
    /\ UNCHANGED <<now, route, code, used>>

(* INSERT of the row with id 1: the primary key refuses a second one.        *)
Insert(h) ==
    /\ pc[h] = "create" /\ saw[h] = {} /\ table = {}
    /\ \E s \in Secrets \ drawn :
          /\ drawn' = drawn \cup {s}
          /\ table' = {NewRow(s)}
          /\ saw' = [saw EXCEPT ![h] = {NewRow(s)}]
    /\ Goto(h, "check")
    /\ UNCHANGED <<now, route, code, used>>

(* UPDATE of an unreadable row: a new secret, and no last_used_counter where *)
(* the object had one.                                                       *)
Replace(h) ==
    /\ pc[h] = "create" /\ saw[h] # {} /\ table # {}
    /\ \E s \in Secrets \ drawn :
          /\ drawn' = drawn \cup {s}
          /\ table' = {[r EXCEPT !.secret = s, !.readable = TRUE,
                               !.last = IF \E q \in saw[h] : q.last # 0 THEN 0 ELSE r.last] :
                          r \in table}
          /\ saw' = [saw EXCEPT ![h] = {NewRow(s)}]
    /\ Goto(h, "check")
    /\ UNCHANGED <<now, route, code, used>>

(* The INSERT meets a row, or the UPDATE none. *)
CreateFails(h) ==
    /\ pc[h] = "create"
    /\ saw[h] = {} <=> table # {}
    /\ End(h)
    /\ UNCHANGED <<table, drawn, now, used>>

------------------------------------------------------------------------------
(* The page shows the secret of the object. *)
Shown(h) ==
    /\ pc[h] = "check" /\ code[h] = NoCode
    /\ End(h)
    /\ UNCHANGED <<table, drawn, now, used>>

(* Mutant: the last time step is not compared. *)
MatchesAnyStep(c, rows) ==
    \E r \in rows : r.readable /\ c.secret = r.secret /\ c.step \in now - 1 .. now + 1

(* verify_code accepts: the code is of the secret, of a step around now, and *)
(* newer than the last one.                                                  *)
Matches(c, rows) ==
    \E r \in rows :
        /\ r.readable
        /\ c.secret = r.secret
        /\ c.step \in now - 1 .. now + 1
        /\ c.step > r.last

(* Mutant: the row is confirmed but the step not recorded. *)
AcceptUnrecorded(h) ==
    /\ pc[h] = "check" /\ code[h] # NoCode
    /\ Matches(code[h], saw[h])
    /\ table # {}
    /\ table' = {[r EXCEPT !.confirmed = r.confirmed \/ ~Confirmed(saw[h])] : r \in table}
    /\ used' = used \cup {code[h]}
    /\ Goto(h, "in")
    /\ UNCHANGED <<drawn, now, route, code, saw>>

(* UPDATE and commit; the session gets its user. *)
Accept(h) ==
    /\ pc[h] = "check" /\ code[h] # NoCode
    /\ Matches(code[h], saw[h])
    /\ table # {}
    /\ table' = {[r EXCEPT !.last = code[h].step,
                          !.confirmed = r.confirmed \/ ~Confirmed(saw[h])] : r \in table}
    /\ used' = used \cup {code[h]}
    /\ Goto(h, "in")
    /\ UNCHANGED <<drawn, now, route, code, saw>>

(* A wrong code, a secret that is not readable, or an UPDATE of no row.      *)
Reject(h) ==
    /\ pc[h] = "check" /\ code[h] # NoCode
    /\ Matches(code[h], saw[h]) => table = {}
    /\ End(h)
    /\ UNCHANGED <<table, drawn, now, used>>

Leave(h) ==
    /\ pc[h] = "in"
    /\ End(h)
    /\ UNCHANGED <<table, drawn, now, used>>

(* The address is banned, or the request dies. *)
Abandon(h) ==
    /\ pc[h] \in {"look", "again", "create", "check"}
    /\ End(h)
    /\ UNCHANGED <<table, drawn, now, used>>

------------------------------------------------------------------------------
(* reset_totp, from the console or at startup with ADMIN_2FA_RESET. *)
Reset ==
    /\ mode.resets
    /\ mode.serial => Quiet
    /\ table # {}
    /\ table' = {}
    /\ UNCHANGED <<drawn, now, pc, route, code, saw, used>>

(* A restart with another SESSION_SECRET; no request survives it. *)
Rekey ==
    /\ mode.resets
    /\ Readable(table)
    /\ table' = {[r EXCEPT !.readable = FALSE] : r \in table}
    /\ pc' = [h \in Handlers |-> "idle"]
    /\ route' = [h \in Handlers |-> "setup"]
    /\ code' = [h \in Handlers |-> NoCode]
    /\ saw' = [h \in Handlers |-> {}]
    /\ UNCHANGED <<drawn, now, used>>

Tick ==
    /\ now < Horizon
    /\ now' = now + 1
    /\ UNCHANGED <<table, drawn, pc, route, code, saw, used>>

(* A code of any step a phone can have reached. *)
Entered == [secret : drawn, step : 1 .. now + 1]

Step ==
    \/ \E h \in Handlers :
          \/ \E r \in {"setup", "login"}, c \in Entered \cup {NoCode} : Request(h, r, c)
          \/ LookLogin(h) \/ LookSetup(h) \/ LookAway(h)
          \/ LookAgain(h) \/ LookAgainFails(h)
          \/ Insert(h) \/ Replace(h) \/ CreateFails(h)
          \/ Shown(h) \/ Accept(h) \/ Reject(h) \/ Leave(h) \/ Abandon(h)
    \/ Reset
    \/ Rekey
    \/ Tick

Next == Step /\ UNCHANGED mode

Spec == Init /\ [][Next]_vars

------------------------------------------------------------------------------
(* A confirmed row holds a secret the admin has: one whose code was accepted *)
(* by verify_code.  If not, every later login asks for a code of a secret    *)
(* that no phone knows.  Requests may overlap, or the secret may be reset    *)
(* between them; not both.                                                   *)
NotLockedOut ==
    mode.serial \/ ~mode.resets =>
    \A r \in table : r.confirmed => \E c \in used : c.secret = r.secret

(* A code counts once, across enrolments, resets and changes of the key, as   *)
(* long as requests do not overlap.                                          *)
CodeOnce ==
    [][mode.serial => \A h \in Handlers : pc[h] # "in" /\ pc'[h] = "in" => code[h] \notin used]_vars

(* "last_used_counter: time step of the last accepted code": while a secret  *)
(* stays, the step it remembers never goes back, as long as requests do not  *)
(* overlap.                                                                  *)
StepForward ==
    [][mode.serial =>
         \A r \in table, q \in table' : q.secret = r.secret => q.last >= r.last]_vars
==============================================================================
