-------------------------------- MODULE Sessions --------------------------------
(***************************************************************************)
(* Signing in (src/src/auth): one-time passwords (otp/otp.services.ts),    *)
(* accounts (users/user.service.ts) and sessions, one row of               *)
(* refresh_tokens each (refresh_token/refresh-token.service.ts), for the   *)
(* requests of one person with one name, an address or a phone number.     *)
(*                                                                         *)
(* Nothing in the database says that a name has one account, an account    *)
(* one session on a platform, or a password one use: each is a read or a   *)
(* delete, and a write that follows it.  An account is named by the        *)
(* request that created it, a session by the one it was issued to.         *)
(***************************************************************************)
EXTENDS Integers

CONSTANTS
    Sends,          \* sendOTP requests; also the password each one makes
    Requests,       \* the requests that find an account or open a session, numbered
                    \* in the order they arrive
    PlatformOf      \* [Requests -> platform], the x-platform header

VARIABLES
    sending,        \* [Sends -> "idle", "cleared", "sent", "done"]
    otps,           \* passwords with a row in otps, committed
    expired,        \* passwords past their expires_at
    users,          \* the accounts with this name, committed
    tokens,         \* sessions: the requests with a row in refresh_tokens
    req,            \* [Requests -> [kind, pc, user, with]]
    met             \* pairs of requests that ran at the same time

sessionVars == <<sending, otps, expired, users, tokens, req, met>>

Nobody == 0
Kinds == {"login", "review", "social", "refresh", "admin", "guest"}
Steps == {"verify", "validate", "find", "create", "forget", "drop", "save", "revoke"}

TypeOK ==
    /\ sending \in [Sends -> {"idle", "cleared", "sent", "done"}]
    /\ otps \subseteq Sends /\ expired \subseteq Sends
    /\ users \subseteq Requests /\ tokens \subseteq Requests
    /\ req \in [Requests -> [kind: Kinds \cup {"none"},
                             pc: Steps \cup {"idle", "done", "failed"},
                             user: Requests \cup {Nobody},
                             with: Sends \cup Requests \cup {Nobody}]]
    /\ met \subseteq Requests \X Requests

Init ==
    /\ sending = [s \in Sends |-> "idle"]
    /\ otps = {} /\ expired = {} /\ users = {} /\ tokens = {} /\ met = {}
    /\ req = [r \in Requests |-> [kind |-> "none", pc |-> "idle",
                               user |-> Nobody, with |-> Nobody]]

-----------------------------------------------------------------------------
(* sendOTP                                                                 *)

(* The App Store's review is sent none, its name has a fixed password.     *)
NotReviewed == \A r \in Requests : req[r].kind # "review"

(* The old passwords go first, outside the transaction of the new one.     *)
ClearOtps(s) ==
    /\ sending[s] = "idle" /\ NotReviewed
    /\ otps' = {}
    /\ sending' = [sending EXCEPT ![s] = "cleared"]
    /\ UNCHANGED <<expired, users, tokens, req, met>>

(* The row is inserted and the message leaves before COMMIT.               *)
SendOtp(s) ==
    /\ sending[s] = "cleared"
    /\ sending' = [sending EXCEPT ![s] = "sent"]
    /\ UNCHANGED <<otps, expired, users, tokens, req, met>>

CommitOtp(s) ==
    /\ sending[s] = "sent"
    /\ otps' = otps \cup {s}
    /\ sending' = [sending EXCEPT ![s] = "done"]
    /\ UNCHANGED <<expired, users, tokens, req, met>>

(* ROLLBACK: the message was not sent, or it was and COMMIT failed.        *)
SendFails(s) ==
    /\ sending[s] \in {"cleared", "sent"}
    /\ sending' = [sending EXCEPT ![s] = "done"]
    /\ UNCHANGED <<otps, expired, users, tokens, req, met>>

OtpExpires(s) ==
    /\ s \in otps \ expired
    /\ expired' = expired \cup {s}
    /\ UNCHANGED <<sending, otps, users, tokens, req, met>>

-----------------------------------------------------------------------------
(* login, loginWithSocial, refreshToken, loginAdminAsUser, and a booking   *)
(* made by a guest, which finds or creates the account of the name; a login *)
(* with the name and the fixed password of the App Store's review is not   *)
(* verified (getBypassOTPLogin)                                            *)

UnderWay == {r \in Requests : req[r].pc \in Steps}

FirstStep(kind) == [login |-> "verify", review |-> "find", social |-> "find",
                    refresh |-> "validate", admin |-> "drop", guest |-> "find"][kind]

HasAccount(r) == [login |-> "forget", review |-> "forget", social |-> "drop",
                  guest |-> "done"][req[r].kind]

(* What the caller holds: a password that was sent to it, the tokens of a  *)
(* session, an account an administrator has picked, or nothing.            *)
Holds(kind) ==
    CASE kind = "login"   -> {s \in Sends : sending[s] \in {"sent", "done"}}
      [] kind = "refresh" -> {q \in Requests : req[q].kind # "guest" /\ req[q].pc = "done"}
      [] kind = "admin"   -> users
      [] OTHER            -> {Nobody}

Start(r, kind, held) ==
    /\ req[r].pc = "idle" /\ \A q \in Requests : q < r => req[q].pc # "idle"
    /\ held \in Holds(kind)
    /\ kind = "review" => \A s \in Sends : sending[s] = "idle"
    /\ req' = [req EXCEPT ![r] = [kind |-> kind, pc |-> FirstStep(kind), with |-> held,
                                  user |-> IF kind = "admin" THEN held ELSE Nobody]]
    /\ met' = met \cup ({r} \X UnderWay) \cup (UnderWay \X {r})
    /\ UNCHANGED <<sending, otps, expired, users, tokens>>

Goes(r, step) == req' = [req EXCEPT ![r].pc = step]

(* What a request that failed was, and what it held, is of no more use.    *)
Ended(r) == [req[r] EXCEPT !.pc = "failed", !.kind = "none", !.with = Nobody]
GivesUp(r) == req' = [req EXCEPT ![r] = Ended(r)]

(* isCorrect compares the password with one of the rows of the name.       *)
Verify(r) ==
    /\ req[r].pc = "verify"
    /\ \/ \E s \in otps :
             IF s = req[r].with /\ s \notin expired THEN Goes(r, "find") ELSE GivesUp(r)
       \/ otps = {} /\ GivesUp(r)
    /\ UNCHANGED <<sending, otps, expired, users, tokens, met>>

(* validate: the row of the old token must be there.                       *)
Validate(r) ==
    /\ req[r].pc = "validate"
    /\ LET old == req[r].with IN
       IF old \in tokens
       THEN req' = [req EXCEPT ![r].pc = "drop", ![r].user = req[old].user]
       ELSE GivesUp(r)
    /\ UNCHANGED <<sending, otps, expired, users, tokens, met>>

(* upsert and findOrCreateByEmailPhone take whichever row is found.        *)
FindUser(r) ==
    /\ req[r].pc = "find"
    /\ \/ \E u \in users : req' = [req EXCEPT ![r].pc = HasAccount(r), ![r].user = u]
       \/ users = {} /\ Goes(r, "create")
    /\ UNCHANGED <<sending, otps, expired, users, tokens, met>>

(* The account's customer, provider and user rows, and COMMIT.             *)
CreateUser(r) ==
    /\ req[r].pc = "create"
    /\ users' = users \cup {r}
    /\ req' = [req EXCEPT ![r].pc = HasAccount(r), ![r].user = r]
    /\ UNCHANGED <<sending, otps, expired, tokens, met>>

(* "Delete the OTP so that it can't be used again" (auth.resolver.ts 139). *)
ForgetOtps(r) ==
    /\ req[r].pc = "forget"
    /\ otps' = {}
    /\ Goes(r, "drop")
    /\ UNCHANGED <<sending, expired, users, tokens, met>>

Rivals(r) == {q \in tokens : req[q].user = req[r].user /\ PlatformOf[q] = PlatformOf[r]}

(* A session that is opened beside the old one.                            *)
DropSession_Kept(r) ==
    /\ req[r].pc = "drop"
    /\ Goes(r, "save")
    /\ UNCHANGED <<sending, otps, expired, users, tokens, met>>

(* saveRefreshToken: delete, hash, insert.                                 *)
DropSession(r) ==
    /\ req[r].pc = "drop"
    /\ tokens' = tokens \ Rivals(r)
    /\ Goes(r, "save")
    /\ UNCHANGED <<sending, otps, expired, users, met>>

SaveSession(r) ==
    /\ req[r].pc = "save"
    /\ tokens' = tokens \cup {r}
    /\ Goes(r, IF req[r].kind = "refresh" THEN "revoke" ELSE "done")
    /\ UNCHANGED <<sending, otps, expired, users, met>>

(* delRefreshToken of the token that was presented, last.                  *)
RevokeOld(r) ==
    /\ req[r].pc = "revoke"
    /\ tokens' = tokens \ {req[r].with}
    /\ Goes(r, "done")
    /\ UNCHANGED <<sending, otps, expired, users, met>>

(* A call fails and the handler throws: what it wrote before stays.        *)
Fails(r) ==
    /\ r \in UnderWay
    /\ GivesUp(r)
    /\ UNCHANGED <<sending, otps, expired, users, tokens, met>>

Next ==
    \/ \E s \in Sends :
          ClearOtps(s) \/ SendOtp(s) \/ CommitOtp(s) \/ SendFails(s) \/ OtpExpires(s)
    \/ \E r \in Requests :
          \/ \E kind \in Kinds, held \in Sends \cup Requests \cup {Nobody} :
                Start(r, kind, held)
          \/ Verify(r) \/ Validate(r) \/ FindUser(r) \/ CreateUser(r) \/ ForgetOtps(r)
          \/ DropSession(r) \/ SaveSession(r) \/ RevokeOld(r) \/ Fails(r)

Spec == Init /\ [][Next]_sessionVars

-----------------------------------------------------------------------------
(* One account for a name, one session for an account on a platform ("we   *)
(* are only gonna keep one session per platform with the same user",       *)
(* refresh-token.service.ts 96), and one sign-in for a password            *)
(* (auth.resolver.ts 139), but for the fixed one of the App Store's review *)
(* (117-125): two are left only by two requests that ran at the same time, *)
(* never by one that follows another, and never by one that failed         *)
(* half-way.                                                               *)
SignInsAreSingle ==
    /\ \A q, r \in users : q # r => <<q, r>> \in met
    /\ \A r \in tokens, q \in Requests : q \in Rivals(r) \ {r} => <<q, r>> \in met
    /\ \A q, r \in Requests :
          /\ q # r /\ req[q].with = req[r].with
          /\ \A x \in {q, r} : req[x].kind = "login" /\ req[x].pc = "done"
          => <<q, r>> \in met
=============================================================================
