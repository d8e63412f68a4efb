------------------------------ MODULE Sessions ------------------------------
(***************************************************************************)
(* A user's session in one browser: the cookies that its tabs share, the   *)
(* console's routes that rewrite them (rotateSession, login, logout), the  *)
(* rows of refresh_tokens behind them, and what triggers a rotation: a 401 *)
(* on an API call (apiRequest) or on the load of a page ((app)/layout).    *)
(***************************************************************************)
EXTENDS FiniteSets, Naturals

CONSTANTS
    Calls,       \* API calls that a tab may have open at a time
    Tabs,        \* documents of the console, each with a refreshInFlight
    TabOf,       \* the tab a call belongs to
    Loads,       \* page loads that may be under way at a time
    SignIn,      \* the request of the login form
    SignOut,     \* the request of signOut
    Tokens,      \* pairs of tokens; enough that one is never out of use
    NoToken,
    NoCall,
    MaxEvents    \* bound of the model: tokens that expire, requests that fail,
                 \* answers that are lost, sign-ins and sign-outs, a removal

ASSUME SessionsAssumption ==
    /\ TabOf \in [Calls -> Tabs]
    /\ NoToken \notin Tokens /\ NoCall \notin Calls
    /\ SignIn # SignOut /\ {SignIn, SignOut} \cap (Calls \cup Loads) = {}
    /\ Calls \cap Loads = {}
    /\ MaxEvents \in Nat

(* A new pair differs from all that are in use: tokens are random.         *)
ASSUME TokensAssumption ==
    /\ IsFiniteSet(Calls) /\ IsFiniteSet(Loads)
    /\ IsFiniteSet(Tokens) =>
          Cardinality(Tokens) >= 2 * Cardinality(Calls) + Cardinality(Loads) + 3

VARIABLES
    member,      \* whether the user is a member of the organisation
    valid,       \* pairs whose refresh token has a row that is not revoked
    live,        \* pairs whose access token has not expired
    jar,         \* the pair in the browser's cookies
    call,        \* an API call: its progress, the pair it was sent with, and
                 \* the call whose refresh it waits for
    latch,       \* refreshInFlight of a tab: the call whose refresh it is
    load,        \* a page load: its progress
    trip,        \* a request to a route under /api/auth: its progress, the
                 \* pair it was sent with, the pair that was issued for it
    signedIn,    \* history: the user has signed in, and not out since
    late,        \* history: when the last form was answered, another request
                 \* was still to change the cookies
    disturbed,   \* history: documents rotated at once, or a rotation failed
    events       \* what MaxEvents counts

vars == <<member, valid, live, jar, call, latch, load, trip, signedIn,
          late, disturbed, events>>

Rotators == Calls \cup Loads
Actors == Rotators \cup {SignIn, SignOut}

Quietly == [pc |-> "idle", at |-> NoToken, for |-> NoCall]
NoTrip == [pc |-> "idle", held |-> NoToken, got |-> NoToken]
Admitted == [NoTrip EXCEPT !.pc = "admitted"]
Refused == [NoTrip EXCEPT !.pc = "refused"]

(* The answer of a trip is on its way: it sets the cookies or clears them. *)
Answers == {"granted", "refused"}
AtTheApi == {"sent", "found", "admitted"}

(* The pairs somebody still refers to; others stand for all pairs to come. *)
InUse ==
    {jar} \cup {call[c].at : c \in Calls}
        \cup {trip[a].held : a \in Actors} \cup {trip[a].got : a \in Actors}

(* A pair that went out of use is a name for another.                      *)
Forget == valid' = valid \cap InUse' /\ live' = live \cap InUse'

NewToken == CHOOSE n \in Tokens \ InUse : TRUE

Event == events < MaxEvents /\ events' = events + 1

(* A trip that is still to change the cookies.                             *)
UnderWay(a) == trip[a].pc \in AtTheApi \cup Answers

SameDocument(a, b) == a \in Calls /\ b \in Calls /\ TabOf[a] = TabOf[b]

Init ==
    /\ member = TRUE
    /\ signedIn \in BOOLEAN
    /\ jar = IF signedIn THEN CHOOSE n \in Tokens : TRUE ELSE NoToken
    /\ valid \in SUBSET ({jar} \ {NoToken})
    /\ live = valid
    /\ call = [c \in Calls |-> Quietly]
    /\ latch = [t \in Tabs |-> NoCall]
    /\ load = [l \in Loads |-> "idle"]
    /\ trip = [a \in Actors |-> NoTrip]
    /\ disturbed = (signedIn /\ valid = {})
    /\ late = FALSE
    /\ events = 0

-----------------------------------------------------------------------------
(***************************************************************************)
(* The routes of the console and what they call.  The browser attaches the *)
(* cookies when it sends a request and takes new ones with the answer.     *)
(***************************************************************************)

(* Mutant: a refresh without a cookie is sent on.                          *)
RotatesAnyway == TRUE
(* rotateSession has nothing to rotate without a cookie.                   *)
CanRotate == jar # NoToken

WithCookies == [NoTrip EXCEPT !.pc = "sent", !.held = jar]

BeginRotation(a) ==
    /\ trip[a].pc = "idle"
    /\ trip' = [trip EXCEPT ![a] = WithCookies]
    /\ disturbed' =
        (disturbed \/ \E b \in Rotators \ {a} : UnderWay(b) /\ ~SameDocument(a, b))

(* AuthService.refresh, the SELECT: a row that is not revoked.             *)
Find(a) ==
    /\ a \in Rotators
    /\ trip[a].pc = "sent"
    /\ trip' = [trip EXCEPT ![a] =
                    IF @.held \in valid THEN [@ EXCEPT !.pc = "found"] ELSE Refused]
    /\ UNCHANGED <<member, jar, call, latch, load, signedIn, late, disturbed,
                   events>>
    /\ Forget

(* ... the UPDATE, by id, the user's membership, and the commit.           *)
Revoke(a) ==
    /\ trip[a].pc = "found"
    /\ trip' = [trip EXCEPT ![a] = IF member THEN Admitted ELSE Refused]
    /\ UNCHANGED <<member, jar, call, latch, load, signedIn, late, disturbed,
                   events>>
    /\ valid' = (valid \ {trip[a].held}) \cap InUse'
    /\ live' = live \cap InUse'

(* issue, a transaction of its own.                                        *)
Issue(a) ==
    /\ trip[a].pc = "admitted"
    /\ valid' = valid \cup {NewToken}
    /\ live' = live \cup {NewToken}
    /\ trip' = [trip EXCEPT ![a] =
                    [NoTrip EXCEPT !.pc = "granted", !.got = NewToken]]
    /\ UNCHANGED <<member, jar, call, latch, load, signedIn, late, disturbed,
                   events>>

(* AuthService.logout; the route clears the cookies whatever comes of it.  *)
RevokeOnly ==
    /\ trip[SignOut].pc = "sent"
    /\ trip' = [trip EXCEPT ![SignOut] = Refused]
    /\ UNCHANGED <<member, jar, call, latch, load, signedIn, late, disturbed,
                   events>>
    /\ valid' = (valid \ {trip[SignOut].held}) \cap InUse'
    /\ live' = live \cap InUse'

(* The API fails, or is not reached, or its answer is lost (callApi).  The *)
(* console clears the cookies on it, except for a login.                   *)
Outage(a) ==
    /\ trip[a].pc \in AtTheApi \cup {"granted"}
    /\ Event
    /\ trip' = [trip EXCEPT ![a] = IF a = SignIn THEN NoTrip ELSE Refused]
    /\ disturbed' = (disturbed \/ a \in Rotators)
    /\ UNCHANGED <<member, jar, call, latch, load, signedIn, late>>
    /\ Forget

(* setSessionCookies and clearSessionCookies, when the answer arrives.     *)
Cookies(a) == IF trip[a].pc = "granted" THEN trip[a].got ELSE NoToken

-----------------------------------------------------------------------------
(***************************************************************************)
(* API calls through the proxy.  One that is answered 401 refreshes once,  *)
(* together with the others of its tab, and is sent once more.             *)
(***************************************************************************)
Send(c) ==
    /\ call[c].pc = "idle"
    /\ trip[c].pc = "idle"
    /\ call' = [call EXCEPT ![c] = [Quietly EXCEPT !.pc = "sent", !.at = jar]]
    /\ UNCHANGED <<member, valid, live, jar, latch, load, trip, signedIn, late,
                   disturbed, events>>

(* Any outcome but a first 401 ends the call, an error or a failed fetch too.*)
Answer(c) ==
    /\ call[c].pc \in {"sent", "resent"}
    /\ call' = [call EXCEPT ![c] = Quietly]
    /\ UNCHANGED <<member, jar, latch, load, trip, signedIn, late, disturbed,
                   events>>
    /\ Forget

Settled(c) == trip[c].pc \in {"kept", "lost"}

(* How calls go on whose refresh was settled: sent again, or given up.     *)
Resumed(kept, cookies) ==
    IF kept THEN [Quietly EXCEPT !.pc = "resent", !.at = cookies] ELSE Quietly

(* Mutant: every call refreshes on its own.                                *)
LeaderIsOneself(c) == c
(* The call whose refresh c takes part in, its own if there is none.       *)
Leader(c) == IF latch[TabOf[c]] = NoCall THEN c ELSE latch[TabOf[c]]

(* Mutant: a refresh that is over is waited for as well.                   *)
JoinedAnyway(b) == [Quietly EXCEPT !.pc = "waiting", !.for = b]
(* What becomes of a call that takes part in the refresh of b.             *)
Joined(b) ==
    IF Settled(b) THEN Resumed(trip[b].pc = "kept", jar)
    ELSE [Quietly EXCEPT !.pc = "waiting", !.for = b]

(* A refresh without a cookie (rotateSession returns null) is over at once.*)
Unauthorized(c) ==
    /\ call[c].pc = "sent"
    /\ call[c].at \notin live
    /\ IF Leader(c) # c
       THEN /\ call' = [call EXCEPT ![c] = Joined(Leader(c))]
            /\ UNCHANGED <<trip, disturbed, latch>>
       ELSE IF ~CanRotate
       THEN /\ call' = [call EXCEPT ![c] = Quietly]
            /\ UNCHANGED <<trip, disturbed, latch>>
       ELSE /\ call' = [call EXCEPT ![c] = Joined(c)]
            /\ latch' = [latch EXCEPT ![TabOf[c]] = c]
            /\ BeginRotation(c)
    /\ UNCHANGED <<member, jar, load, signedIn, late, events>>
    /\ Forget

(* The answer of c's refresh: the calls that wait for it go on.            *)
Settle(c, kept, cookies) ==
    /\ trip' = [trip EXCEPT ![c] =
                    [NoTrip EXCEPT !.pc = IF kept THEN "kept" ELSE "lost"]]
    /\ call' = [b \in Calls |-> IF call[b].pc = "waiting" /\ call[b].for = c
                                THEN Resumed(kept, cookies) ELSE call[b]]

ReceiveCall(c) ==
    /\ trip[c].pc \in Answers
    /\ jar' = Cookies(c)
    /\ Settle(c, trip[c].pc = "granted", Cookies(c))
    /\ UNCHANGED <<member, latch, load, signedIn, late, disturbed, events>>
    /\ Forget

(* The timer of `finally`: those who come later start a refresh anew.      *)
Release(t) ==
    /\ latch[t] # NoCall /\ Settled(latch[t])
    /\ latch' = [latch EXCEPT ![t] = NoCall]
    /\ trip' = [trip EXCEPT ![latch[t]] = NoTrip]
    /\ UNCHANGED <<member, valid, live, jar, call, load, signedIn, late,
                   disturbed, events>>

-----------------------------------------------------------------------------
(***************************************************************************)
(* Page loads.  Rendering may not write cookies, so that a page without an *)
(* access token sends the browser to the refresh route and back.           *)
(***************************************************************************)
Open(l) ==
    /\ load[l] = "idle"
    /\ load' = [load EXCEPT ![l] = "app"]
    /\ UNCHANGED <<member, valid, live, jar, call, latch, trip, signedIn, late,
                   disturbed, events>>

(* GET /v1/auth/me: the access token, and a membership.                    *)
Authenticated == jar \in live /\ member

(* AppLayout on getSession: the page, a redirect to the login form, or     *)
(* SessionRefresh, which replaces the location by GET /api/auth/refresh.   *)
Render(l) ==
    /\ load[l] = "app"
    /\ IF Authenticated
       THEN load' = [load EXCEPT ![l] = "idle"] /\ UNCHANGED <<trip, disturbed>>
       ELSE IF ~CanRotate
       THEN load' = [load EXCEPT ![l] = "login"] /\ UNCHANGED <<trip, disturbed>>
       ELSE load' = [load EXCEPT ![l] = "away"] /\ BeginRotation(l)
    /\ UNCHANGED <<member, jar, call, latch, signedIn, late, events>>
    /\ Forget

(* getSession cannot tell: the API fails, and the page says so.            *)
Unreachable(l) ==
    /\ load[l] \in {"app", "login"}
    /\ jar # NoToken
    /\ Event
    /\ load' = [load EXCEPT ![l] = "idle"]
    /\ UNCHANGED <<member, valid, live, jar, call, latch, trip, signedIn, late,
                   disturbed>>

(* The GET route redirects to where the user was going, or to the login.   *)
ReceiveLoad(l) ==
    /\ trip[l].pc \in Answers
    /\ jar' = Cookies(l)
    /\ load' = [load EXCEPT ![l] = IF trip[l].pc = "granted" THEN "app" ELSE "login"]
    /\ trip' = [trip EXCEPT ![l] = NoTrip]
    /\ UNCHANGED <<member, call, latch, signedIn, late, disturbed, events>>
    /\ Forget

(* AuthLayout: on to the dashboard, or the login form.                     *)
Enter(l) ==
    /\ load[l] = "login"
    /\ load' = [load EXCEPT ![l] = IF Authenticated THEN "app" ELSE "idle"]
    /\ UNCHANGED <<member, jar, call, latch, trip, signedIn, late, disturbed,
                   events>>
    /\ Forget

-----------------------------------------------------------------------------
(* AuthService.login up to its issue; one that is denied changes nothing.  *)
BeginSignIn ==
    /\ trip[SignIn].pc = "idle"
    /\ member
    /\ Event
    /\ trip' = [trip EXCEPT ![SignIn] = Admitted]
    /\ UNCHANGED <<member, valid, live, jar, call, latch, load, signedIn, late,
                   disturbed>>

(* From here on the session is a new one, unless an older trip comes late. *)
ReceiveSignIn ==
    /\ trip[SignIn].pc = "granted"
    /\ jar' = Cookies(SignIn)
    /\ trip' = [trip EXCEPT ![SignIn] = NoTrip]
    /\ signedIn' = TRUE
    /\ late' = \E b \in Actors \ {SignIn} : UnderWay(b)
    /\ disturbed' = (disturbed /\ late')
    /\ UNCHANGED <<member, call, latch, load, events>>
    /\ Forget

BeginSignOut ==
    /\ trip[SignOut].pc = "idle"
    /\ signedIn
    /\ Event
    /\ trip' = [trip EXCEPT ![SignOut] = IF jar = NoToken THEN Refused ELSE WithCookies]
    /\ UNCHANGED <<member, valid, live, jar, call, latch, load, signedIn, late,
                   disturbed>>

ReceiveSignOut ==
    /\ trip[SignOut].pc \in Answers
    /\ jar' = Cookies(SignOut)
    /\ trip' = [trip EXCEPT ![SignOut] = NoTrip]
    /\ signedIn' = FALSE
    /\ late' = \E b \in Actors \ {SignOut} : UnderWay(b)
    /\ disturbed' = (disturbed /\ late')
    /\ UNCHANGED <<member, call, latch, load, events>>
    /\ Forget

-----------------------------------------------------------------------------
(* The answer of a route does not reach the browser: the cookies are left  *)
(* as they are, calls are given up, a page load ends with an error.        *)
Lose(a) ==
    /\ trip[a].pc \in Answers
    /\ Event
    /\ disturbed' = (disturbed \/ a # SignIn)
    /\ UNCHANGED jar
    /\ IF a \in Calls THEN Settle(a, FALSE, jar)
       ELSE trip' = [trip EXCEPT ![a] = NoTrip] /\ UNCHANGED call
    /\ load' = [l \in Loads |-> IF l = a THEN "idle" ELSE load[l]]
    /\ UNCHANGED <<member, latch, signedIn, late>>
    /\ Forget

Expire(n) ==
    /\ n \in live \cap InUse
    /\ Event
    /\ live' = live \ {n}
    /\ UNCHANGED <<member, valid, jar, call, latch, load, trip, signedIn, late,
                   disturbed>>

(* removeMember, by an owner.                                              *)
RemoveMember ==
    /\ member
    /\ Event
    /\ member' = FALSE
    /\ UNCHANGED <<valid, live, jar, call, latch, load, trip, signedIn, late,
                   disturbed>>

-----------------------------------------------------------------------------
RotationStep(a) == Find(a) \/ Revoke(a) \/ Issue(a)
CallStep(c) ==
    Answer(c) \/ Unauthorized(c) \/ RotationStep(c) \/ ReceiveCall(c)
LoadStep(l) == Render(l) \/ RotationStep(l) \/ ReceiveLoad(l) \/ Enter(l)
SignInStep == Issue(SignIn) \/ ReceiveSignIn
SignOutStep == RevokeOnly \/ ReceiveSignOut

Next ==
    \/ \E c \in Calls : Send(c) \/ CallStep(c)
    \/ \E t \in Tabs : Release(t)
    \/ \E l \in Loads : Open(l) \/ Unreachable(l) \/ LoadStep(l)
    \/ BeginSignIn \/ SignInStep
    \/ BeginSignOut \/ SignOutStep
    \/ \E a \in Actors : Outage(a) \/ Lose(a)
    \/ \E n \in Tokens : Expire(n)
    \/ RemoveMember

Spec == Init /\ [][Next]_vars

(* A request that was sent is answered, or counts as a fault; timers fire. *)
Fairness ==
    /\ \A c \in Calls : WF_vars(CallStep(c))
    /\ \A t \in Tabs : WF_vars(Release(t))
    /\ \A l \in Loads : WF_vars(LoadStep(l))

FairSpec == Spec /\ Fairness

-----------------------------------------------------------------------------
(* Types; a rotation that was sent on holds a token.                       *)
TypeOK ==
    /\ {member, signedIn, late, disturbed} \subseteq BOOLEAN
    /\ valid \subseteq Tokens /\ live \subseteq Tokens
    /\ jar \in Tokens \cup {NoToken}
    /\ call \in [Calls -> [pc : {"idle", "sent", "waiting", "resent"},
                           at : Tokens \cup {NoToken}, for : Calls \cup {NoCall}]]
    /\ latch \in [Tabs -> Calls \cup {NoCall}]
    /\ load \in [Loads -> {"idle", "app", "away", "login"}]
    /\ trip \in [Actors -> [pc : {"idle", "kept", "lost"} \cup AtTheApi \cup Answers,
                            held : Tokens \cup {NoToken}, got : Tokens \cup {NoToken}]]
    /\ \A a \in Actors : trip[a].pc \in {"sent", "found"} => trip[a].held \in Tokens
    /\ \A a \in Actors : trip[a].pc = "granted" => trip[a].got \in Tokens
    /\ events \in 0..MaxEvents

(* When nobody is to change them any more the cookies hold no pair but one *)
(* that can be rotated: rotation consumes the only valid refresh token and *)
(* must hand over the next one (rotateSession, getSession).  And it is the *)
(* pair of the session: a member who signed in has one, and who signed out *)
(* has none, if the last of the two was answered when nothing else was     *)
(* under way.  A refresh that is answered after a sign-out sets the        *)
(* cookies again, and one refused after a sign-in clears them: then, the   *)
(* first part is all that holds.  After documents have rotated at the same *)
(* time, or a rotation has failed, nothing is said.                        *)
CookiesMatchSession ==
    (~disturbed /\ \A a \in Actors : ~UnderWay(a)) =>
        /\ jar \in valid \cup {NoToken}
        /\ ~late => ((signedIn /\ member => jar \in valid) /\ (~signedIn => jar = NoToken))

(* Every page load comes to an end, at a page, the login form or an error, *)
(* instead of being redirected for ever; every API call is answered,       *)
(* whenever it joins the refresh of another.                               *)
EverythingIsAnswered ==
    /\ \A l \in Loads : load[l] # "idle" ~> load[l] = "idle"
    /\ \A c \in Calls : call[c].pc # "idle" ~> call[c].pc = "idle"
=============================================================================
