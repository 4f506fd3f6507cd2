--------------------------- MODULE CustomerSessions ---------------------------
(*************************************************************************)
(* Sessions of one customer: CustomerAuthenticationService, with what    *)
(* staff (CustomerManagementService) and the privacy service do to its   *)
(* rows.                                                                 *)
(*                                                                       *)
(* Passwords are verified outside any transaction and identities by      *)
(* their provider, so login, password change and erasure read first,     *)
(* work, and write later; each write is one transaction that locks the   *)
(* account row. A session keeps one refresh token at a time; the tokens  *)
(* before it are in customer_refresh_token_history.                      *)
(*************************************************************************)
EXTENDS Integers, FiniteSets

CONSTANTS
  DeviceRows,        (* Rows customer_devices may get.                   *)
  SessionRows,       (* Rows customer_sessions may get.                  *)
  Requests,          (* Requests in progress at a time.                  *)
  Challenges,        (* Rows customer_identity_challenges may get.       *)
  MaxActiveDevices,  (* MAX_ACTIVE_DEVICES.                              *)
  MaxPasswords,      (* Bound on the passwords of the account.           *)
  MaxRotations,      (* Bound on rotation_count of a session.            *)
  NoRow

ASSUME MaxActiveDevicesAssumption == MaxActiveDevices \in Nat \ {0}
ASSUME DeviceRowsAssumption == IsFiniteSet(DeviceRows)
ASSUME NoRowAssumption == NoRow \notin DeviceRows \cup SessionRows \cup Challenges

VARIABLES
  account,    (* customer_accounts.status, "none" before the insert.     *)
  password,   (* Which password_hash the account has, counted from 1.    *)
  device,     (* customer_devices.status.                                *)
  session,    (* customer_sessions: revoked_at, device, rotation_count, age,
                 and how the session was opened.                             *)
  challenge,  (* customer_identity_challenges.consumed_at.               *)
  request     (* What each request in progress has found out so far.     *)

accountVars == <<account, password, device, session, challenge, request>>

Kinds == {"none", "login", "vouched", "identity", "principal", "verified"}

NoSession == [state |-> "none", device |-> NoRow, rotations |-> 0, age |-> "fresh",
              knows |-> 0, via |-> NoRow]
NoRequest == [kind |-> "none", saw |-> 0, row |-> NoRow]

SessionTypeOK ==
  /\ account \in {"none", "active", "disabled", "erasure_pending"}
  /\ password \in Nat
  /\ device \in [DeviceRows -> {"none", "active", "revoked"}]
  /\ session \in [SessionRows ->
       [state: {"none", "live", "revoked"}, device: DeviceRows \cup {NoRow}, rotations: Nat,
        age: {"fresh", "expired"}, knows: Nat, via: Challenges \cup {NoRow}]]
  /\ challenge \in [Challenges -> {"none", "open", "consumed"}]
  /\ request \in [Requests ->
       [kind: Kinds, saw: Nat, row: SessionRows \cup Challenges \cup {NoRow}]]

SessionInit ==
  /\ account = "none"
  /\ password = 0
  /\ device = [d \in DeviceRows |-> "none"]
  /\ session = [s \in SessionRows |-> NoSession]
  /\ challenge = [c \in Challenges |-> "none"]
  /\ request = [r \in Requests |-> NoRequest]

ActiveDevices == {d \in DeviceRows : device[d] = "active"}
IsLive(s)     == session[s].state = "live"

\* The sessions of the devices in gone.
SessionsOn(gone) == {s \in SessionRows : session[s].device \in gone}

\* The sessions after those in ended were revoked.
Revoked(ended) ==
  [s \in SessionRows |-> IF IsLive(s) /\ s \in ended
                         THEN [session[s] EXCEPT !.state = "revoked"] ELSE session[s]]

Answered(r) == request' = [request EXCEPT ![r] = NoRequest]

-----------------------------------------------------------------------------
(* Registering, and proving who one is.                                  *)

Register ==
  /\ account = "none"
  /\ account' = "active"
  /\ password' = 1
  /\ UNCHANGED <<device, session, challenge, request>>

\* The first half of login: the password is verified against the hash read.
Login(r) ==
  /\ request[r] = NoRequest
  /\ account = "active"
  /\ request' = [request EXCEPT ![r] = [kind |-> "login", saw |-> password, row |-> NoRow]]
  /\ UNCHANGED <<account, password, device, session, challenge>>

\* identityChallenge.
IdentityChallenge(c) ==
  /\ challenge[c] = "none"
  /\ challenge' = [challenge EXCEPT ![c] = "open"]
  /\ UNCHANGED <<account, password, device, session, request>>

\* identityLogin reads the challenge, and the provider vouches for its nonce.
IdentityVouched(r, c) ==
  /\ request[r] = NoRequest
  /\ challenge[c] = "open"
  /\ request' = [request EXCEPT ![r] = [kind |-> "vouched", saw |-> 0, row |-> c]]
  /\ UNCHANGED <<account, password, device, session, challenge>>

\* The challenge is consumed, and the account created at the first login.
IdentityLogin(r) ==
  LET c == request[r].row IN
  /\ request[r].kind = "vouched"
  /\ challenge[c] = "open"
  /\ challenge' = [challenge EXCEPT ![c] = "consumed"]
  /\ IF account = "none" THEN account' = "active" /\ password' = 1
                         ELSE UNCHANGED <<account, password>>
  /\ request' = [request EXCEPT ![r].kind = "identity"]
  /\ UNCHANGED <<device, session>>

\* authenticateAccess, before a handler that acts for the principal.
AuthenticateAccess(r, s) ==
  /\ request[r] = NoRequest
  /\ account = "active"
  /\ IsLive(s)
  /\ session[s].age = "fresh"
  /\ device[session[s].device] = "active"
  /\ request' = [request EXCEPT ![r] = [kind |-> "principal", saw |-> 0, row |-> s]]
  /\ UNCHANGED <<account, password, device, session, challenge>>

\* changePassword and requestErasure verify the current password.
VerifyPassword(r) ==
  /\ request[r].kind = "principal"
  /\ account = "active"
  /\ request' = [request EXCEPT ![r].kind = "verified", ![r].saw = password]
  /\ UNCHANGED <<account, password, device, session, challenge>>

\* A check failed, or the customer went away.
RefuseRequest(r) ==
  /\ request[r] # NoRequest
  /\ Answered(r)
  /\ UNCHANGED <<account, password, device, session, challenge>>

-----------------------------------------------------------------------------
(* Sessions.                                                             *)

\* Mutant: only the account's status is read again.
StillActive(r) == account = "active"

\* The account is as it was when the password was verified.
StillProven(r) ==
  /\ account = "active"
  /\ request[r].kind # "identity" => password = request[r].saw

\* The rows of issueCustomerSession on device d, after the devices in evicted
\* made room for it.
Open(r, d, evicted) ==
  \E s \in SessionRows :
    /\ session[s] = NoSession
    /\ device' = [e \in DeviceRows |-> IF e = d THEN "active"
                                       ELSE IF e \in evicted THEN "revoked" ELSE device[e]]
    /\ session' = [Revoked(SessionsOn(evicted \cup {d})) EXCEPT
         ![s] = [state |-> "live", device |-> d, rotations |-> 0, age |-> "fresh",
                 knows |-> IF request[r].kind = "identity" THEN password ELSE request[r].saw,
                 via |-> request[r].row]]
    /\ Answered(r)
    /\ UNCHANGED <<account, password, challenge>>

\* issueCustomerSession for a device it knows.
IssueOnKnownDevice(r, d) ==
  /\ request[r].kind \in {"login", "identity"}
  /\ StillProven(r)
  /\ device[d] = "active"
  /\ Open(r, d, {})

\* issueCustomerSession for a new device.  Those seen least recently make room.
Excess == Cardinality(ActiveDevices) - MaxActiveDevices + 1

IssueOnNewDevice(r, d) ==
  /\ request[r].kind \in {"login", "identity"}
  /\ StillProven(r)
  /\ device[d] = "none"
  /\ \E evicted \in SUBSET ActiveDevices :
       /\ Cardinality(evicted) = IF Excess > 0 THEN Excess ELSE 0
       /\ Open(r, d, evicted)

\* refresh, with the current token of the session.
Refresh(s) ==
  /\ account = "active"
  /\ session[s].device \in ActiveDevices
  /\ IsLive(s)
  /\ session[s].age = "fresh"
  /\ session[s].rotations < MaxRotations
  /\ session' = [session EXCEPT ![s].rotations = @ + 1]
  /\ UNCHANGED <<account, password, device, challenge, request>>

\* refresh, with a token that was rotated: by a thief, or by the customer
\* whose answer got lost.
RefreshReplay(s) ==
  /\ session[s].rotations > 0
  /\ session[s].age = "fresh"
  /\ session' = Revoked({s})
  /\ UNCHANGED <<account, password, device, challenge, request>>

Logout(s) ==
  /\ session' = Revoked({s})
  /\ UNCHANGED <<account, password, device, challenge, request>>

SessionExpires(s) ==
  /\ session[s].state # "none"
  /\ session[s].age = "fresh"
  /\ session' = [session EXCEPT ![s].age = "expired"]
  /\ UNCHANGED <<account, password, device, challenge, request>>

-----------------------------------------------------------------------------
(* What the customer does to the account.                                *)

\* revokeDevice.
RevokeDevice(r, d) ==
  /\ request[r].kind = "principal"
  /\ account = "active"
  /\ device[d] = "active"
  /\ device' = [device EXCEPT ![d] = "revoked"]
  /\ session' = Revoked(SessionsOn({d}))
  /\ Answered(r)
  /\ UNCHANGED <<account, password, challenge>>

\* changePassword: the session that asked for it goes on.
ChangePassword(r) ==
  LET own == request[r].row IN
  /\ request[r].kind = "verified"
  /\ StillProven(r)
  /\ IsLive(own)
  /\ session[own].age = "fresh"
  /\ device[session[own].device] = "active"
  /\ password < MaxPasswords
  /\ password' = password + 1
  /\ session' = [Revoked(SessionRows \ {own}) EXCEPT ![own].knows = password + 1]
  /\ Answered(r)
  /\ UNCHANGED <<account, device, challenge>>

\* The end of every session on every device.
CloseAll ==
  /\ session' = Revoked(SessionRows)
  /\ device' = [d \in DeviceRows |-> IF device[d] = "active" THEN "revoked" ELSE device[d]]

\* resetPassword, with a grant that was sent to the customer's address.
ResetPassword ==
  /\ account = "active"
  /\ password < MaxPasswords
  /\ password' = password + 1
  /\ CloseAll
  /\ UNCHANGED <<account, challenge, request>>

DisableOwnAccount(r) ==
  /\ request[r].kind = "principal"
  /\ account = "active"
  /\ account' = "disabled"
  /\ CloseAll
  /\ Answered(r)
  /\ UNCHANGED <<password, challenge>>

\* CustomerPrivacyService.requestErasure.
RequestErasure(r) ==
  /\ request[r].kind = "verified"
  /\ StillProven(r)
  /\ account' = "erasure_pending"
  /\ CloseAll
  /\ Answered(r)
  /\ UNCHANGED <<password, challenge>>

-----------------------------------------------------------------------------
(* What the merchant's staff do to it.                                   *)

\* updateStatus: devices stay as they are.
StaffDisables ==
  /\ account = "active"
  /\ account' = "disabled"
  /\ session' = Revoked(SessionRows)
  /\ UNCHANGED <<password, device, challenge, request>>

StaffEnables ==
  /\ account = "disabled"
  /\ account' = "active"
  /\ UNCHANGED <<password, device, session, challenge, request>>

\* revokeSessions, of every device or of one.
StaffRevokesSessions ==
  /\ session' = Revoked(SessionRows)
  /\ UNCHANGED <<account, password, device, challenge, request>>

StaffRevokesDevice(d) ==
  /\ device[d] = "active"
  /\ device' = [device EXCEPT ![d] = "revoked"]
  /\ session' = Revoked(SessionsOn({d}))
  /\ UNCHANGED <<account, password, challenge, request>>

-----------------------------------------------------------------------------

RequestNext(r) ==
  \/ Login(r) \/ IdentityLogin(r) \/ VerifyPassword(r) \/ RefuseRequest(r)
  \/ \E c \in Challenges : IdentityVouched(r, c)
  \/ \E s \in SessionRows : AuthenticateAccess(r, s)
  \/ \E d \in DeviceRows : IssueOnKnownDevice(r, d) \/ IssueOnNewDevice(r, d) \/ RevokeDevice(r, d)
  \/ ChangePassword(r) \/ DisableOwnAccount(r) \/ RequestErasure(r)

SessionNext ==
  \/ Register \/ ResetPassword
  \/ \E c \in Challenges : IdentityChallenge(c)
  \/ \E r \in Requests : RequestNext(r)
  \/ \E s \in SessionRows : Refresh(s) \/ RefreshReplay(s) \/ Logout(s) \/ SessionExpires(s)
  \/ StaffDisables \/ StaffEnables \/ StaffRevokesSessions
  \/ \E d \in DeviceRows : StaffRevokesDevice(d)

SessionSpec == SessionInit /\ [][SessionNext]_accountVars

-----------------------------------------------------------------------------
(* Properties.                                                           *)

\* A session that was not revoked is on a device its customer can account for: the
\* account is active, the device is one of at most MAX_ACTIVE_DEVICES active
\* ones, and no other session that was not revoked is on that device.
DevicesAreAccountable ==
  /\ Cardinality(ActiveDevices) <= MaxActiveDevices
  /\ \A s \in SessionRows : IsLive(s) =>
       /\ account = "active"
       /\ session[s].device \in ActiveDevices
       /\ \A t \in SessionRows : IsLive(t) /\ session[t].device = session[s].device => t = s

\* A password that was changed or reset lets nobody in: sessions were opened
\* under the account's password of now, or changed it, although a login
\* verifies the password long before it opens the session.  And a challenge
\* answered by a provider opens one session at most.
SessionsKnowThePassword ==
  \A s \in SessionRows :
    /\ IsLive(s) => session[s].knows = password
    /\ \A t \in SessionRows :
         session[s].via # NoRow /\ session[s].via = session[t].via => s = t

\* Together, of every session, whatever came between the steps that opened it.
SessionsAreAccountable == DevicesAreAccountable /\ SessionsKnowThePassword

\* A session that was revoked never comes back, and its refresh token is never
\* exchanged for another, whichever request was on its way meanwhile.
RevokedForGood ==
  [][\A s \in SessionRows : session[s].state = "revoked" =>
       /\ session'[s].state = "revoked"
       /\ session'[s].rotations = session[s].rotations]_accountVars
=============================================================================
