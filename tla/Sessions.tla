-------------------------------- MODULE Sessions --------------------------------
(***************************************************************************)
(* Signing in and out: the auth_sessions of one member (AuthService,       *)
(* AuthSecurityService) and the member's phone (AppController, HttpAuthApi *)
(* and its SessionStore).                                                  *)
(*                                                                         *)
(* The phone does not wait for a logout: it forgets the session at once,   *)
(* and the request and its answer arrive when they arrive, or are lost.    *)
(* A login can be given up on the phone while the server goes on with it.  *)
(***************************************************************************)
EXTENDS Naturals, Sequences

CONSTANTS
    MaxSessions,    \* bound: login challenges started
    MaxPhoneCalls   \* bound: the phone's other requests, in the order it sends them

VARIABLES
    sessions,    \* auth_sessions, in the order of creation
    lapsed,      \* the sessions whose expiresAt is past
    challenge,   \* the phone: the challenge a PIN is asked for, 0 for none
    signedIn,    \* AppController._session: the login it is of, 0 for none
    tokens,      \* SessionStore: the login its tokens are of, 0 for none
    phoneCall,   \* the requests
    revived,     \* ghost: sessions ended while a verify was about to save them
    overtaken,   \* ghost: sessions ended by a logout sent before they were in use
    revoked,     \* ghost: sessions revoked by the member
    wiped        \* ghost: the answer of a logout came after the login

sessionVars == <<sessions, lapsed, challenge, signedIn, tokens, phoneCall,
                 revived, overtaken, revoked, wiped>>
server == <<sessions, lapsed>>
phone == <<challenge, signedIn, tokens>>
ghosts == <<revived, overtaken, revoked, wiped>>

-----------------------------------------------------------------------------
PhoneCalls == 1..MaxPhoneCalls
SessionStatus == {"pending", "verified", "logged_out"}

ASSUME SessionConstants == MaxSessions \in Nat /\ MaxPhoneCalls \in Nat

\* A login is the session it verified; loginMember verifies none.
ByPassword == MaxSessions + 1
Logins == 0..ByPassword

Unsent == [at |-> "idle"]
Over == [at |-> "over"]
PhoneCall == [at: {"save", "answer", "logout", "cleared"},
              login: Logins,     \* what the call signs in, or the token it bears
              heard: BOOLEAN]    \* the phone still waits for the answer

SessionTypeOK ==
    /\ sessions \in Seq(SessionStatus) /\ Len(sessions) <= MaxSessions
    /\ lapsed \subseteq DOMAIN sessions
    /\ challenge \in 0..Len(sessions)
    /\ signedIn \in Logins /\ tokens \in Logins
    /\ phoneCall \in [PhoneCalls -> PhoneCall \cup {Unsent, Over}]
    /\ revived \subseteq DOMAIN sessions /\ overtaken \subseteq DOMAIN sessions
    /\ revoked \subseteq DOMAIN sessions /\ wiped \in BOOLEAN

SessionInit ==
    /\ sessions = << >> /\ lapsed = {}
    /\ challenge = 0 /\ signedIn = 0 /\ tokens = 0
    /\ phoneCall = [k \in PhoneCalls |-> Unsent]
    /\ revived = {} /\ overtaken = {} /\ revoked = {} /\ wiped = FALSE

Sends(k) == phoneCall[k] = Unsent /\ \A j \in 1..(k - 1) : phoneCall[j] # Unsent
Ended(k) == phoneCall' = [phoneCall EXCEPT ![k] = Over]

\* The phone shows the login screen and waits for nothing.
AtLogin == /\ signedIn = 0
           /\ \A j \in PhoneCalls : phoneCall[j].at \in {"save", "answer"} => ~phoneCall[j].heard

-----------------------------------------------------------------------------
\* startLogin: the challenge is created and its answer arrives.
StartLogin ==
    /\ AtLogin
    /\ Len(sessions) < MaxSessions
    /\ sessions' = Append(sessions, "pending")
    /\ challenge' = Len(sessions) + 1
    /\ UNCHANGED <<lapsed, signedIn, tokens, phoneCall, ghosts>>

\* Five minutes pass.
Lapse(n) ==
    /\ n \notin lapsed
    /\ lapsed' = lapsed \cup {n}
    /\ UNCHANGED <<sessions, phone, phoneCall, ghosts>>

\* Mutation of MayVerify: findOne looks for the challenge only.
MayVerifyAny(n) == n \notin lapsed

MayVerify(n) == sessions[n] = "pending" /\ n \notin lapsed

\* verifyPin on the phone, and verifyPinLogin up to the save: the PIN is right, and
\* a challenge that may not be verified is refused on the phone's screen.
VerifyPin(k) ==
    /\ Sends(k) /\ AtLogin /\ challenge # 0
    /\ MayVerify(challenge)
    /\ phoneCall' = [phoneCall EXCEPT ![k] =
          [at |-> "save", login |-> challenge, heard |-> TRUE]]
    /\ UNCHANGED <<server, phone, ghosts>>

\* authSession.save() sends the status it changed, over whatever is stored.
SaveVerified(k) ==
    /\ phoneCall[k].at = "save"
    /\ sessions' = [sessions EXCEPT ![phoneCall[k].login] = "verified"]
    /\ phoneCall' = [phoneCall EXCEPT ![k].at = "answer"]
    /\ UNCHANGED <<lapsed, phone, ghosts>>

\* loginMember: tokens without a session.
LoginByPassword(k) ==
    /\ Sends(k) /\ AtLogin
    /\ phoneCall' = [phoneCall EXCEPT ![k] =
          [at |-> "answer", login |-> ByPassword, heard |-> TRUE]]
    /\ UNCHANGED <<server, phone, ghosts>>

\* _toSession stores the tokens, and verifyPin or login the session.
SignIn(k) ==
    /\ phoneCall[k].at = "answer" /\ phoneCall[k].heard
    /\ signedIn' = phoneCall[k].login
    /\ tokens' = phoneCall[k].login
    /\ challenge' = 0
    /\ wiped' = FALSE
    /\ Ended(k)
    /\ UNCHANGED <<server, revived, overtaken, revoked>>

\* The server is done, and the phone no longer listens.
Unheard(k) ==
    /\ phoneCall[k].at = "answer" /\ ~phoneCall[k].heard
    /\ Ended(k)
    /\ UNCHANGED <<server, phone, ghosts>>

\* The connection of a login breaks: the phone shows an error.
GiveUp(k) ==
    /\ phoneCall[k].at \in {"save", "answer"} /\ phoneCall[k].heard
    /\ phoneCall' = [phoneCall EXCEPT ![k].heard = FALSE]
    /\ UNCHANGED <<server, phone, ghosts>>

-----------------------------------------------------------------------------
\* Mutation of Logout: the app stays signed in until the server has answered.
LogoutWaits(k) ==
    /\ Sends(k) /\ signedIn # 0
    /\ phoneCall' = [phoneCall EXCEPT ![k] =
          [at |-> "logout", login |-> tokens, heard |-> FALSE]]
    /\ tokens' = 0
    /\ UNCHANGED <<server, challenge, signedIn, ghosts>>

\* AppController.logout, by the member or the session timer: the request bears the
\* token, and the session and the store are cleared before it is answered.
Logout(k) ==
    /\ Sends(k) /\ signedIn # 0
    /\ phoneCall' = [phoneCall EXCEPT ![k] =
          [at |-> "logout", login |-> tokens, heard |-> FALSE]]
    /\ signedIn' = 0
    /\ tokens' = 0
    /\ UNCHANGED <<server, challenge, ghosts>>

Verifying == {phoneCall[k].login : k \in {j \in PhoneCalls : phoneCall[j].at = "save"}}
InUse(n) == \/ signedIn = n
            \/ \E k \in PhoneCalls : phoneCall[k].at = "answer" /\ phoneCall[k].login = n

LoggedOut(status) == IF status \in {"pending", "verified"} THEN "logged_out" ELSE status

\* AuthService.logout: updateMany over all the member's sessions, unless the
\* request came without a token.
ServeLogout(k) ==
    LET ended == {n \in DOMAIN sessions : sessions[n] # "logged_out"}
    IN  /\ phoneCall[k].at = "logout"
        /\ IF phoneCall[k].login = 0 THEN UNCHANGED <<sessions, revived, overtaken>>
           ELSE /\ sessions' = [n \in DOMAIN sessions |-> LoggedOut(sessions[n])]
                /\ revived' = revived \cup (ended \cap Verifying)
                /\ overtaken' = overtaken \cup {n \in ended : InUse(n)}
        /\ phoneCall' = [phoneCall EXCEPT ![k].at = "cleared"]
        /\ UNCHANGED <<lapsed, phone, revoked, wiped>>

\* HttpAuthApi.logout goes on after its await: sessionStore.clear().
LogoutAnswered(k) ==
    /\ phoneCall[k].at = "cleared"
    /\ tokens' = 0
    /\ wiped' = (signedIn # 0)
    /\ Ended(k)
    /\ UNCHANGED <<server, challenge, signedIn, revived, overtaken, revoked>>

\* The request or its answer is lost: the await throws and nothing follows it.
LogoutLost(k) ==
    /\ phoneCall[k].at \in {"logout", "cleared"}
    /\ Ended(k)
    /\ UNCHANGED <<server, phone, ghosts>>

\* revokeSession, from the phone's list of sessions: whatever the session's status.
RevokeSession(n) ==
    /\ signedIn # 0 /\ tokens # 0
    /\ n \notin revoked
    /\ sessions' = [sessions EXCEPT ![n] = "logged_out"]
    /\ revived' = revived \cup ({n} \cap Verifying)
    /\ revoked' = revoked \cup {n}
    /\ UNCHANGED <<lapsed, phone, phoneCall, overtaken, wiped>>

-----------------------------------------------------------------------------
SessionNextOf(k) ==
    \/ VerifyPin(k) \/ SaveVerified(k) \/ LoginByPassword(k)
    \/ SignIn(k) \/ Unheard(k) \/ GiveUp(k)
    \/ Logout(k) \/ ServeLogout(k) \/ LogoutAnswered(k) \/ LogoutLost(k)

SessionNext ==
    \/ StartLogin
    \/ \E n \in DOMAIN sessions : Lapse(n) \/ RevokeSession(n)
    \/ \E k \in PhoneCalls : SessionNextOf(k)

-----------------------------------------------------------------------------
(* While the app is signed in, the store has the tokens of that login, and  *)
(* the server counts its session as verified: unless a late answer of an    *)
(* earlier logout cleared the store, its late request ended the session, or *)
(* the member revoked it (AppController.logout does not wait for            *)
(* HttpAuthApi.logout, and updateMany ends every session).                  *)
SignedInIsLive ==
    signedIn # 0 =>
        /\ tokens = signedIn \/ wiped
        /\ \/ signedIn = ByPassword \/ signedIn \in overtaken \cup revoked
           \/ sessions[signedIn] = "verified"

(* A session that was logged out or revoked is never verified again, unless *)
(* a verify had found it pending before and saved it after (verifyPinLogin, *)
(* logout, revokeSession).                                                  *)
LoggedOutStaysOut ==
    [][\A n \in DOMAIN sessions :
          sessions[n] = "logged_out" => sessions'[n] = "logged_out" \/ n \in revived]_sessionVars
=============================================================================
