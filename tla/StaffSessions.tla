----------------------------- MODULE StaffSessions -----------------------------
(*************************************************************************)
(* Sessions of one member of staff, of the platform or of a tenant:      *)
(* AuthenticationService over AuthenticationRepository, and what other   *)
(* staff do to the account in StaffManagementService.                    *)
(*                                                                       *)
(* Unlike a customer's login, a staff login does not look at the         *)
(* password again when it inserts the session, and it reads the          *)
(* account's status without a lock, so nothing orders it after a reset   *)
(* or a disabling.                                                       *)
(*************************************************************************)
EXTENDS Integers

CONSTANTS
  StaffLogins,   (* Logins, and the auth_sessions rows they insert.      *)
  Clients,       (* IP addresses with user agents.                       *)
  MaxStaffTokens (* Bound on the refresh tokens of a session.            *)

ASSUME MaxStaffTokensAssumption == MaxStaffTokens \in Nat

VARIABLES
  staffStatus,   (* platform_staff.status or tenant_staff.status.        *)
  staffPassword, (* Which password_hash the account has.                 *)
  staffSession,  (* auth_sessions: state, which refresh token it has, and the
                    password its login verified.                              *)
  tokenHistory,  (* auth_refresh_token_history: session, token, client,
                    whether used_at is at most five seconds ago.              *)
  shown,         (* The rotated tokens each client has shown to refresh. *)
  underWay       (* Logins under way when the account was last changed.  *)

staffVars == <<staffStatus, staffPassword, staffSession, tokenHistory, shown, underWay>>

NoStaffSession == [state |-> "none", token |-> 0, knows |-> 0]

StaffTypeOK ==
  /\ staffStatus \in {"active", "disabled"}
  /\ staffPassword \in Nat
  /\ staffSession \in [StaffLogins ->
       [state: {"none", "verified", "opening", "live", "revoked", "expired"},
        token: 0 .. MaxStaffTokens, knows: Nat]]
  /\ tokenHistory \subseteq [session: StaffLogins, token: 0 .. MaxStaffTokens,
                             client: Clients, recent: BOOLEAN]
  /\ shown \subseteq [session: StaffLogins, token: 0 .. MaxStaffTokens, client: Clients]
  /\ underWay \subseteq StaffLogins

StaffInit ==
  /\ staffStatus = "active"
  /\ staffPassword = 0
  /\ staffSession = [s \in StaffLogins |-> NoStaffSession]
  /\ tokenHistory = {}
  /\ shown = {}
  /\ underWay = {}

InState(s, state)   == staffSession[s].state = state
SetState(s, state)  == staffSession' = [staffSession EXCEPT ![s].state = state]

-----------------------------------------------------------------------------
(* AuthenticationService.login.                                          *)

\* findCredential and verifyPassword.
VerifyStaff(s) ==
  /\ InState(s, "none")
  /\ staffStatus = "active"
  /\ staffSession' = [staffSession EXCEPT ![s].state = "verified", ![s].knows = staffPassword]
  /\ UNCHANGED <<staffStatus, staffPassword, tokenHistory, shown, underWay>>

\* createSession inserts the row and reads the account (loadPrincipal).
OpenStaffSession(s) ==
  /\ InState(s, "verified")
  /\ IF staffStatus = "active" THEN SetState(s, "opening")
     ELSE staffSession' = [staffSession EXCEPT ![s] = NoStaffSession]
  /\ UNCHANGED <<staffStatus, staffPassword, tokenHistory, shown, underWay>>

\* Its transaction commits: from now on others see the row.
CommitStaffSession(s) ==
  /\ InState(s, "opening")
  /\ SetState(s, "live")
  /\ UNCHANGED <<staffStatus, staffPassword, tokenHistory, shown, underWay>>

-----------------------------------------------------------------------------
(* refresh and logout.                                                   *)

Shows(s, t, c) == shown' = shown \cup {[session |-> s, token |-> t, client |-> c]}

\* rotateSession, with the session's token.
RotateSession(s, c) ==
  LET t == staffSession[s].token IN
  /\ InState(s, "live")
  /\ staffStatus = "active"
  /\ t < MaxStaffTokens
  /\ staffSession' = [staffSession EXCEPT ![s].token = t + 1]
  /\ tokenHistory' = tokenHistory \cup {[session |-> s, token |-> t, client |-> c, recent |-> TRUE]}
  /\ Shows(s, t, c)
  /\ UNCHANGED <<staffStatus, staffPassword, underWay>>

\* Mutant: anybody's prompt retry is tolerated.
AnybodyRetries(h, c) == h.recent

\* recent_same_client: the client's own retry, of which it got no answer.
SameClientRetries(h, c) == h.client = c /\ h.recent

\* handleRefreshTokenReplay: the token was rotated before.
ReplayToken(h, c) ==
  /\ h \in tokenHistory
  /\ IF SameClientRetries(h, c) \/ ~InState(h.session, "live")
       THEN UNCHANGED staffSession
       ELSE SetState(h.session, "revoked")
  /\ Shows(h.session, h.token, c)
  /\ UNCHANGED <<staffStatus, staffPassword, tokenHistory, underWay>>

FiveSecondsPass(h) ==
  /\ h \in tokenHistory
  /\ h.recent
  /\ tokenHistory' = (tokenHistory \ {h}) \cup {[h EXCEPT !.recent = FALSE]}
  /\ UNCHANGED <<staffStatus, staffPassword, staffSession, shown, underWay>>

\* revokeByRefreshToken, with the session's token: another one ends nothing.
StaffLogout(s) ==
  /\ InState(s, "live")
  /\ SetState(s, "revoked")
  /\ UNCHANGED <<staffStatus, staffPassword, tokenHistory, shown, underWay>>

StaffSessionExpires(s) ==
  /\ InState(s, "live")
  /\ SetState(s, "expired")
  /\ UNCHANGED <<staffStatus, staffPassword, tokenHistory, shown, underWay>>

-----------------------------------------------------------------------------
(* StaffManagementService.                                               *)

\* revokeAllSessions: the rows it can see.
RevokeAllSessions ==
  staffSession' = [s \in StaffLogins |->
    IF InState(s, "live") THEN [staffSession[s] EXCEPT !.state = "revoked"] ELSE staffSession[s]]

NoteUnderWay == underWay' = {s \in StaffLogins : staffSession[s].state \in {"verified", "opening"}}

DisableStaff ==
  /\ staffStatus = "active"
  /\ staffStatus' = "disabled"
  /\ RevokeAllSessions
  /\ NoteUnderWay
  /\ UNCHANGED <<staffPassword, tokenHistory, shown>>

EnableStaff ==
  /\ staffStatus = "disabled"
  /\ staffStatus' = "active"
  /\ UNCHANGED <<staffPassword, staffSession, tokenHistory, shown, underWay>>

\* Mutant: sessions outlive a reset.
ResetHashOnly ==
  /\ staffPassword = 0
  /\ staffPassword' = 1
  /\ NoteUnderWay
  /\ UNCHANGED <<staffStatus, staffSession, tokenHistory, shown>>

ResetStaffPassword ==
  /\ staffPassword = 0
  /\ staffPassword' = 1
  /\ RevokeAllSessions
  /\ NoteUnderWay
  /\ UNCHANGED <<staffStatus, tokenHistory, shown>>

RevokeStaffSessions ==
  /\ RevokeAllSessions
  /\ NoteUnderWay
  /\ UNCHANGED <<staffStatus, staffPassword, tokenHistory, shown>>

StaffSessionsNext ==
  \/ \E s \in StaffLogins :
       \/ VerifyStaff(s) \/ OpenStaffSession(s) \/ CommitStaffSession(s)
       \/ StaffLogout(s) \/ StaffSessionExpires(s)
       \/ \E c \in Clients : RotateSession(s, c)
  \/ \E h \in tokenHistory : FiveSecondsPass(h) \/ \E c \in Clients : ReplayToken(h, c)
  \/ DisableStaff \/ EnableStaff \/ ResetStaffPassword \/ RevokeStaffSessions

StaffSpec == StaffInit /\ [][StaffSessionsNext]_staffVars

-----------------------------------------------------------------------------
(* Properties.                                                           *)

\* A stolen refresh token is of no use for long: no session lives on of which
\* two clients have shown one token, whichever of them rotated it first, and
\* although a client may retry a rotation whose answer it did not get.
ReplaysEndSessions ==
  \A x, y \in shown :
    /\ x.session = y.session /\ x.token = y.token
    /\ InState(x.session, "live")
    => x.client = y.client

\* After a reset or a disabling only a login that was under way at that moment
\* can have a session of before: one with the old password, or one of an
\* account that is disabled now.
OnlyLoginsUnderWaySurvive ==
  \A s \in StaffLogins :
    InState(s, "live") /\ (staffSession[s].knows # staffPassword \/ staffStatus = "disabled")
      => s \in underWay

\* Whatever ended the sessions of a member of staff, a token shown twice, a reset or
\* a disabling, nobody goes on with one who was not signing in at that moment.
EndedSessionsStayEnded == ReplaysEndSessions /\ OnlyLoginsUnderWaySurvive
=============================================================================
