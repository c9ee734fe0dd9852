-------------------------------- MODULE Sessions --------------------------------
(***************************************************************************)
(* The sessions of one user and what ends them: login, refresh and logout  *)
(* (auth.service.ts), password reset by a mailed token                     *)
(* (password-reset.service.ts), change of password and revocation          *)
(* (security.service.ts).  Passwords are numbered: what matters is under   *)
(* which of them a session was opened.  Lock-out, expiry and sign-in       *)
(* through Google are left out.  One action is the code between two        *)
(* awaits; a transaction is one action.                                    *)
(***************************************************************************)
EXTENDS Naturals, FiniteSets

CONSTANTS
    Visitor,             \* concurrent calls
    MaxSessions,         \* bound: sessions created
    MaxRotations,        \* bound: refreshes of a session
    MaxPasswords,        \* bound: passwords
    MaxResets            \* bound: reset tokens

ASSUME SessionAssumption ==
    /\ IsFiniteSet(Visitor)
    /\ MaxSessions \in Nat /\ MaxRotations \in Nat
    /\ MaxPasswords \in Nat \ {0} /\ MaxResets \in Nat

SessionId == 1..MaxSessions
Reset == 1..MaxResets

VARIABLES
    password,            \* number of User.passwordHash
    session,             \* Session rows: the password they rest on, the refresh token
    nextSession,
    reset,               \* PasswordReset rows; "void" once expiresAt is set back
    visitor,             \* what a call has read and will do
    interrupted          \* history: a change of password dropped between its writes

sessionVars == <<password, session, nextSession, reset, visitor, interrupted>>

Gone == [pc |-> "idle", id |-> 0, pw |-> 0]

SessionTypeOK ==
    /\ password \in 1..MaxPasswords
    /\ DOMAIN session \subseteq SessionId
    /\ \A s \in DOMAIN session :
        session[s] \in [pw : 1..MaxPasswords, token : 0..MaxRotations, late : BOOLEAN]
    /\ nextSession \in 1..(MaxSessions + 1)
    /\ \A s \in DOMAIN session : s < nextSession
    /\ reset \in [Reset -> {"none", "open", "void", "used"}]
    /\ visitor \in [Visitor -> [pc : {"idle", "createSession", "rotate", "createReset",
                                      "commitReset", "writePassword", "deleteSessions"},
                                id : SessionId \cup Reset \cup {0}, pw : 0..MaxPasswords]]
    /\ interrupted \in BOOLEAN

SessionInit ==
    /\ password = 1
    /\ session = <<>>
    /\ nextSession = 1
    /\ reset = [r \in Reset |-> "none"]
    /\ visitor = [v \in Visitor |-> Gone]
    /\ interrupted = FALSE

Visit(v, local) == visitor[v] = Gone /\ visitor' = [visitor EXCEPT ![v] = local]
Finish(v) == visitor' = [visitor EXCEPT ![v] = Gone]
Without(ids) == [s \in DOMAIN session \ ids |-> session[s]]

(* login: the password is compared, the session created two awaits later    *)
BeginLogin(v) ==
    /\ Visit(v, [pc |-> "createSession", id |-> 0, pw |-> password])
    /\ UNCHANGED <<password, session, nextSession, reset, interrupted>>

CreateSession(v) ==
    /\ visitor[v].pc = "createSession"
    /\ nextSession <= MaxSessions
    /\ session' = [s \in DOMAIN session \cup {nextSession} |->
                     IF s = nextSession
                     THEN [pw |-> visitor[v].pw, token |-> 0,
                           late |-> visitor[v].pw # password]
                     ELSE session[s]]
    /\ nextSession' = nextSession + 1
    /\ Finish(v)
    /\ UNCHANGED <<password, reset, interrupted>>

(* refreshTokens: the row found by its token is updated by its id, and an   *)
(* update of a row that is gone throws                                      *)
BeginRefresh(v, s) ==
    /\ session[s].token < MaxRotations
    /\ Visit(v, [pc |-> "rotate", id |-> s, pw |-> session[s].pw])
    /\ UNCHANGED <<password, session, nextSession, reset, interrupted>>

Rotated(v) ==
    [session EXCEPT ![visitor[v].id].token = IF @ < MaxRotations THEN @ + 1 ELSE @]

(* An upsert of the row.                                                    *)
RotateAnyway(v) ==
    IF visitor[v].id \in DOMAIN session THEN session' = Rotated(v)
    ELSE session' = [s \in DOMAIN session \cup {visitor[v].id} |->
                       IF s = visitor[v].id
                       THEN [pw |-> visitor[v].pw, token |-> 0, late |-> FALSE]
                       ELSE session[s]]
RotateToken(v) ==
    IF visitor[v].id \in DOMAIN session THEN session' = Rotated(v) ELSE UNCHANGED session

Refresh(v) ==
    /\ visitor[v].pc = "rotate"
    /\ RotateToken(v)
    /\ Finish(v)
    /\ UNCHANGED <<password, nextSession, reset, interrupted>>

(* logout with the session's present token, revokeSession: with an older    *)
(* token logout deletes nothing                                             *)
EndSession(s) ==
    /\ session' = Without({s})
    /\ UNCHANGED <<password, nextSession, reset, visitor, interrupted>>

RevokeAllSessions ==
    /\ session # <<>>
    /\ session' = <<>>
    /\ UNCHANGED <<password, nextSession, reset, visitor, interrupted>>

(* requestReset: the open tokens are made void, then a new one is created   *)
RequestReset(v) ==
    /\ Visit(v, [pc |-> "createReset", id |-> 0, pw |-> 0])
    /\ reset' = [r \in Reset |-> IF reset[r] = "open" THEN "void" ELSE reset[r]]
    /\ UNCHANGED <<password, session, nextSession, interrupted>>

CreateReset(v) ==
    /\ visitor[v].pc = "createReset"
    /\ \E r \in Reset :
        /\ reset[r] = "none"
        /\ \A q \in Reset : q < r => reset[q] # "none"
        /\ reset' = [reset EXCEPT ![r] = "open"]
    /\ Finish(v)
    /\ UNCHANGED <<password, session, nextSession, interrupted>>

(* consumeToken: the token is read, the new password hashed, then one       *)
(* transaction; then the session of the automatic login                     *)
BeginReset(v, r) ==
    /\ reset[r] = "open"
    /\ Visit(v, [pc |-> "commitReset", id |-> r, pw |-> 0])
    /\ UNCHANGED <<password, session, nextSession, reset, interrupted>>

CommitReset(v) ==
    /\ visitor[v].pc = "commitReset"
    /\ password < MaxPasswords
    /\ password' = password + 1
    /\ reset' = [reset EXCEPT ![visitor[v].id] = "used"]
    /\ session' = <<>>
    /\ visitor' = [visitor EXCEPT ![v] = [pc |-> "createSession", id |-> 0,
                                          pw |-> password + 1]]
    /\ UNCHANGED <<nextSession, interrupted>>

(* changePassword: two writes, no transaction                               *)
BeginChange(v) ==
    /\ Visit(v, [pc |-> "writePassword", id |-> 0, pw |-> 0])
    /\ UNCHANGED <<password, session, nextSession, reset, interrupted>>

WritePassword(v) ==
    /\ visitor[v].pc = "writePassword"
    /\ password < MaxPasswords
    /\ password' = password + 1
    /\ visitor' = [visitor EXCEPT ![v].pc = "deleteSessions"]
    /\ UNCHANGED <<session, nextSession, reset, interrupted>>

DeleteSessions(v) ==
    /\ visitor[v].pc = "deleteSessions"
    /\ session' = <<>>
    /\ Finish(v)
    /\ UNCHANGED <<password, nextSession, reset, interrupted>>

(* An await throws, or the process dies.                                    *)
DropVisitor(v) ==
    /\ visitor[v] # Gone
    /\ interrupted' = (interrupted \/ visitor[v].pc = "deleteSessions")
    /\ Finish(v)
    /\ UNCHANGED <<password, session, nextSession, reset>>

SessionNext ==
    \/ \E v \in Visitor :
        \/ BeginLogin(v) \/ CreateSession(v)
        \/ \E s \in DOMAIN session : BeginRefresh(v, s)
        \/ Refresh(v)
        \/ RequestReset(v) \/ CreateReset(v)
        \/ \E r \in Reset : BeginReset(v, r)
        \/ CommitReset(v)
        \/ BeginChange(v) \/ WritePassword(v) \/ DeleteSessions(v)
        \/ DropVisitor(v)
    \/ \E s \in DOMAIN session : EndSession(s)
    \/ RevokeAllSessions

SessionSpec == SessionInit /\ [][SessionNext]_sessionVars
-----------------------------------------------------------------------------
(* Sessions opened under an old password do not survive a new one           *)
(* (password-reset.service.ts:222): no refresh in flight brings one back.   *)
(* Two cases remain: a login that compared the old password before and      *)
(* creates its session after, and a change of password that is between its  *)
(* two writes, or was dropped there.                                        *)
OldSessionsEnd ==
    \A s \in DOMAIN session :
        \/ session[s].pw = password
        \/ session[s].late
        \/ \E v \in Visitor : visitor[v].pc = "deleteSessions"
        \/ interrupted
=============================================================================
