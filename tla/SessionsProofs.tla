--------------------------- MODULE SessionsProofs ---------------------------
(***************************************************************************)
(* Theorems about Sessions, for any number of tabs, calls and page loads:  *)
(* the types of the variables, and that undisturbed rotation leaves the    *)
(* cookies those of the session.                                           *)
(***************************************************************************)
EXTENDS Sessions, FiniteSetTheorems, TLAPS

(* What a trip may hold in its various states: one pair at most.           *)
Trips ==
    [pc : {"idle", "kept", "lost"} \cup AtTheApi \cup Answers,
     held : Tokens \cup {NoToken}, got : Tokens \cup {NoToken}]

Sound(t) ==
    /\ t.pc \in {"sent", "found"} => t.held \in Tokens
    /\ t.pc = "granted" => t.got \in Tokens
    /\ t.held = NoToken \/ t.got = NoToken
    /\ t.pc = "admitted" => t.held = NoToken /\ t.got = NoToken

SoundTrips == {t \in Trips : Sound(t)}

Tidy == TypeOK /\ trip \in [Actors -> SoundTrips]

LEMMA Distinct ==
    /\ SignIn \in Actors /\ SignOut \in Actors /\ SignIn # SignOut
    /\ SignIn \notin Rotators /\ SignOut \notin Rotators
    /\ Rotators \subseteq Actors /\ Calls \subseteq Rotators /\ Loads \subseteq Rotators
BY SessionsAssumption DEF Actors, Rotators

LEMMA TripsAreSound ==
    /\ NoTrip \in SoundTrips /\ Admitted \in SoundTrips /\ Refused \in SoundTrips
    /\ [NoTrip EXCEPT !.pc = "kept"] \in SoundTrips
    /\ [NoTrip EXCEPT !.pc = "lost"] \in SoundTrips
    /\ \A n \in Tokens : [NoTrip EXCEPT !.pc = "granted", !.got = n] \in SoundTrips
    /\ jar \in Tokens => WithCookies \in SoundTrips
    /\ \A t \in SoundTrips : t.pc = "sent" => [t EXCEPT !.pc = "found"] \in SoundTrips
<1> USE DEF NoTrip, SoundTrips, Trips, Sound, AtTheApi, Answers
<1>1. NoTrip \in SoundTrips
  OBVIOUS
<1>2. Admitted \in SoundTrips /\ Refused \in SoundTrips
  BY DEF Admitted, Refused
<1>3. /\ [NoTrip EXCEPT !.pc = "kept"] \in SoundTrips
      /\ [NoTrip EXCEPT !.pc = "lost"] \in SoundTrips
  OBVIOUS
<1>4. \A n \in Tokens : [NoTrip EXCEPT !.pc = "granted", !.got = n] \in SoundTrips
  OBVIOUS
<1>5. jar \in Tokens => WithCookies \in SoundTrips
  BY DEF WithCookies
<1>6. \A t \in SoundTrips : t.pc = "sent" => [t EXCEPT !.pc = "found"] \in SoundTrips
  OBVIOUS
<1> QED
  BY <1>1, <1>2, <1>3, <1>4, <1>5, <1>6

-----------------------------------------------------------------------------
(***************************************************************************)
(* A new pair is new: by counting, since each call and each trip refers to *)
(* one pair at most, and the trip that it is issued for to none.           *)
(***************************************************************************)
LEMMA ImageIsNoLarger ==
    ASSUME NEW S, IsFiniteSet(S), NEW f
    PROVE  /\ IsFiniteSet({f[x] : x \in S})
           /\ Cardinality({f[x] : x \in S}) <= Cardinality(S)
<1> DEFINE T == {f[x] : x \in S}
           g == [x \in S |-> f[x]]
<1>1. g \in Surjection(S, T)
  BY DEF Surjection
<1> HIDE DEF g
<1> QED
  BY <1>1, FS_Surjection

LEMMA UnionIsNoLarger ==
    ASSUME NEW S, IsFiniteSet(S), NEW T, IsFiniteSet(T)
    PROVE  /\ IsFiniteSet(S \cup T)
           /\ Cardinality(S) \in Nat /\ Cardinality(T) \in Nat /\ Cardinality(S \cup T) \in Nat
           /\ Cardinality(S \cup T) <= Cardinality(S) + Cardinality(T)
<1>1. IsFiniteSet(S \cap T) /\ IsFiniteSet(S \cup T)
  BY FS_Subset, FS_Union
<1>2. /\ Cardinality(S) \in Nat /\ Cardinality(T) \in Nat
      /\ Cardinality(S \cup T) \in Nat /\ Cardinality(S \cap T) \in Nat
  BY <1>1, FS_CardinalityType
<1>3. Cardinality(S \cup T) = Cardinality(S) + Cardinality(T) - Cardinality(S \cap T)
  BY FS_Union
<1> QED
  BY <1>1, <1>2, <1>3

LEMMA ActorsAreFew ==
    /\ IsFiniteSet(Actors)
    /\ Cardinality(Actors) <= Cardinality(Calls) + Cardinality(Loads) + 2
    /\ Cardinality(Calls) \in Nat /\ Cardinality(Loads) \in Nat
<1>1. /\ IsFiniteSet(Rotators) /\ Cardinality(Rotators) \in Nat
      /\ Cardinality(Calls) \in Nat /\ Cardinality(Loads) \in Nat
      /\ Cardinality(Rotators) <= Cardinality(Calls) + Cardinality(Loads)
  BY TokensAssumption, UnionIsNoLarger DEF Rotators
<1>2. IsFiniteSet({SignIn, SignOut}) /\ Cardinality({SignIn, SignOut}) <= 2
  <2>1. IsFiniteSet({SignIn}) /\ Cardinality({SignIn}) = 1
    BY FS_Singleton
  <2>2. {SignIn, SignOut} = {SignIn} \cup {SignOut}
    OBVIOUS
  <2> QED
    BY <2>1, <2>2, FS_AddElement
<1>3. Cardinality({SignIn, SignOut}) \in Nat
  BY <1>2, FS_CardinalityType
<1>4. /\ IsFiniteSet(Actors) /\ Cardinality(Actors) \in Nat
      /\ Cardinality(Actors) <= Cardinality(Rotators) + Cardinality({SignIn, SignOut})
  BY <1>1, <1>2, UnionIsNoLarger DEF Actors
<1> QED
  BY <1>1, <1>2, <1>3, <1>4

LEMMA TokensAreMany == Tokens # {}
<1>1. SUFFICES ASSUME Tokens = {} PROVE FALSE
  OBVIOUS
<1>2. IsFiniteSet(Tokens) /\ Cardinality(Tokens) = 0
  BY <1>1, FS_EmptySet
<1> QED
  BY <1>2, TokensAssumption, ActorsAreFew

LEMMA NewTokenIsNew ==
    ASSUME Tidy, NEW a \in Actors, trip[a].held = NoToken, trip[a].got = NoToken
    PROVE  NewToken \in Tokens /\ NewToken \notin InUse
<1> DEFINE at == [c \in Calls |-> call[c].at]
           pair == [b \in Actors |-> IF trip[b].got = NoToken THEN trip[b].held
                                                              ELSE trip[b].got]
           Others == Actors \ {a}
           Ats == {at[c] : c \in Calls}
           Pairs == {pair[b] : b \in Others}
           Held == {jar} \cup Ats
           All == Held \cup Pairs
<1>1. InUse \cap Tokens \subseteq All
  <2>1. \A c \in Calls : call[c].at \in Ats
    BY Zenon
  <2>2. ASSUME NEW b \in Actors, trip[b].held \in Tokens PROVE trip[b].held \in Pairs
    <3>1. b # a /\ trip[b].got = NoToken
      BY <2>2, SessionsAssumption DEF Tidy, SoundTrips, Sound
    <3>2. pair[b] = trip[b].held /\ b \in Others
      BY <3>1
    <3> HIDE DEF pair
    <3> QED
      BY <3>2
  <2>3. ASSUME NEW b \in Actors, trip[b].got \in Tokens PROVE trip[b].got \in Pairs
    <3>1. b # a /\ trip[b].got # NoToken
      BY <2>3, SessionsAssumption
    <3>2. pair[b] = trip[b].got /\ b \in Others
      BY <3>1
    <3> HIDE DEF pair
    <3> QED
      BY <3>2
  <2> HIDE DEF Ats, Pairs
  <2> QED
    BY <2>1, <2>2, <2>3 DEF InUse
<1>2. /\ IsFiniteSet(Ats) /\ Cardinality(Ats) <= Cardinality(Calls)
      /\ IsFiniteSet(Pairs) /\ Cardinality(Pairs) <= Cardinality(Others)
  <2>1. IsFiniteSet(Others)
    BY ActorsAreFew, FS_RemoveElement
  <2> HIDE DEF at, pair, Others
  <2> QED
    BY <2>1, TokensAssumption, ImageIsNoLarger
<1>3. Cardinality(Others) = Cardinality(Actors) - 1 /\ Cardinality(Actors) \in Nat
  BY ActorsAreFew, FS_RemoveElement, FS_CardinalityType
<1> HIDE DEF Ats, Pairs, Others
<1>4. IsFiniteSet({jar}) /\ Cardinality({jar}) = 1
  BY FS_Singleton
<1>5. /\ IsFiniteSet(Held) /\ Cardinality(Held) \in Nat /\ Cardinality(Ats) \in Nat
      /\ Cardinality(Held) <= 1 + Cardinality(Ats)
  BY <1>2, <1>4, UnionIsNoLarger
<1> HIDE DEF Held
<1>6. /\ IsFiniteSet(All) /\ Cardinality(All) \in Nat /\ Cardinality(Pairs) \in Nat
      /\ Cardinality(All) <= Cardinality(Held) + Cardinality(Pairs)
  BY <1>2, <1>5, UnionIsNoLarger
<1> HIDE DEF All
<1>7. Cardinality(All) <= 2 * Cardinality(Calls) + Cardinality(Loads) + 2
  BY <1>2, <1>3, <1>5, <1>6, ActorsAreFew
<1>8. Tokens \ InUse # {}
  <2>1. SUFFICES ASSUME Tokens \subseteq InUse PROVE FALSE
    OBVIOUS
  <2>2. Tokens \in SUBSET All
    BY <1>1, <2>1
  <2>3. IsFiniteSet(Tokens) /\ Cardinality(Tokens) <= Cardinality(All)
    BY <1>6, <2>2, FS_Subset
  <2>4. Cardinality(Tokens) \in Nat
    BY <2>3, FS_CardinalityType
  <2> QED
    BY <1>6, <1>7, <2>3, <2>4, TokensAssumption, ActorsAreFew
<1>9. NewToken \in Tokens \ InUse
  BY <1>8, Zenon DEF NewToken
<1> QED
  BY <1>9
-----------------------------------------------------------------------------
(* Types.                                                                  *)

LEMMA InitTidy == Init => Tidy
<1> SUFFICES ASSUME Init PROVE Tidy
  OBVIOUS
<1>1. jar \in Tokens \cup {NoToken}
  BY TokensAreMany DEF Init
<1>2. trip \in [Actors -> SoundTrips] /\ \A a \in Actors : trip[a] = NoTrip
  BY TripsAreSound DEF Init
<1>3. valid \subseteq Tokens /\ live \subseteq Tokens
  BY <1>1 DEF Init
<1>4. trip \in [Actors -> Trips] /\ \A a \in Actors : Sound(trip[a])
  BY <1>2 DEF SoundTrips
<1>5. {member, signedIn, late, disturbed} \subseteq BOOLEAN
  BY DEF Init
<1> QED
  BY <1>1, <1>2, <1>3, <1>4, <1>5, SessionsAssumption
     DEF Init, Tidy, TypeOK, Trips, Sound, Quietly

(* What routes and browsers do to a trip.                                  *)
LEMMA TripChanges ==
    ASSUME Tidy, NEW a \in Actors, NEW t \in SoundTrips, trip' = [trip EXCEPT ![a] = t]
    PROVE  trip' \in [Actors -> SoundTrips]
BY DEF Tidy

LEMMA TripsStaySound == Tidy /\ [Next]_vars => trip' \in [Actors -> SoundTrips]
<1> SUFFICES ASSUME Tidy, [Next]_vars PROVE trip' \in [Actors -> SoundTrips]
  OBVIOUS
<1>1. ASSUME NEW a \in Actors, jar # NoToken, trip' = [trip EXCEPT ![a] = WithCookies]
      PROVE  trip' \in [Actors -> SoundTrips]
  <2>1. jar \in Tokens
    BY <1>1 DEF Tidy, TypeOK
  <2> QED
    BY <1>1, <2>1, TripsAreSound, TripChanges
<1>2. ASSUME NEW a \in Actors,
             \/ trip' = [trip EXCEPT ![a] = NoTrip]
             \/ trip' = [trip EXCEPT ![a] = Admitted]
             \/ trip' = [trip EXCEPT ![a] = Refused]
      PROVE  trip' \in [Actors -> SoundTrips]
  BY <1>2, TripsAreSound, TripChanges
<1>3. ASSUME NEW c \in Calls, NEW kept, NEW cookies, Settle(c, kept, cookies)
      PROVE  trip' \in [Actors -> SoundTrips]
  <2>1. \/ trip' = [trip EXCEPT ![c] = [NoTrip EXCEPT !.pc = "kept"]]
        \/ trip' = [trip EXCEPT ![c] = [NoTrip EXCEPT !.pc = "lost"]]
    BY <1>3 DEF Settle
  <2> QED
    BY <2>1, Distinct, TripsAreSound, TripChanges
<1>4. ASSUME NEW a \in Actors, Find(a) PROVE trip' \in [Actors -> SoundTrips]
  <2>1. trip[a].pc = "sent" /\ trip[a] \in SoundTrips
    BY <1>4 DEF Find, Tidy
  <2>2. \/ trip' = [trip EXCEPT ![a] = Refused]
        \/ trip' = [trip EXCEPT ![a] = [trip[a] EXCEPT !.pc = "found"]]
    BY <1>4 DEF Find
  <2> QED
    BY <2>1, <2>2, TripsAreSound, TripChanges
<1>5. ASSUME NEW a \in Actors, Revoke(a) PROVE trip' \in [Actors -> SoundTrips]
  BY <1>2, <1>5 DEF Revoke
<1>6. ASSUME NEW a \in Actors, Issue(a) PROVE trip' \in [Actors -> SoundTrips]
  <2>1. trip[a].held = NoToken /\ trip[a].got = NoToken
    BY <1>6 DEF Issue, Tidy, SoundTrips, Sound
  <2>2. NewToken \in Tokens
    BY <2>1, NewTokenIsNew
  <2> QED
    BY <1>6, <2>2, TripsAreSound, TripChanges DEF Issue
<1>7. ASSUME NEW c \in Calls, Unauthorized(c) PROVE trip' \in [Actors -> SoundTrips]
  <2>1. trip' = trip \/ (jar # NoToken /\ trip' = [trip EXCEPT ![c] = WithCookies])
    BY <1>7 DEF Unauthorized, BeginRotation, CanRotate
  <2> QED
    BY <1>1, <2>1, Distinct DEF Tidy
<1>8. ASSUME NEW l \in Loads, Render(l) PROVE trip' \in [Actors -> SoundTrips]
  <2>1. trip' = trip \/ (jar # NoToken /\ trip' = [trip EXCEPT ![l] = WithCookies])
    BY <1>8 DEF Render, BeginRotation, CanRotate
  <2> QED
    BY <1>1, <2>1, Distinct DEF Tidy
<1>9. ASSUME NEW t \in Tabs, Release(t) PROVE trip' \in [Actors -> SoundTrips]
  <2>1. latch[t] \in Actors
    BY <1>9, Distinct DEF Release, Tidy, TypeOK
  <2> QED
    BY <1>2, <1>9, <2>1 DEF Release
<1>10. CASE BeginSignIn \/ ReceiveSignIn
  BY <1>2, <1>10, Distinct DEF BeginSignIn, ReceiveSignIn
<1>11. CASE BeginSignOut \/ RevokeOnly \/ ReceiveSignOut
  <2>1. \/ jar # NoToken /\ trip' = [trip EXCEPT ![SignOut] = WithCookies]
        \/ trip' = [trip EXCEPT ![SignOut] = Refused]
        \/ trip' = [trip EXCEPT ![SignOut] = NoTrip]
    BY <1>11 DEF BeginSignOut, RevokeOnly, ReceiveSignOut
  <2> QED
    BY <1>1, <1>2, <2>1, Distinct
<1>12. ASSUME NEW a \in Actors, Outage(a) \/ Lose(a) PROVE trip' \in [Actors -> SoundTrips]
  BY <1>2, <1>3, <1>12 DEF Outage, Lose
<1>13. CASE UNCHANGED trip
  BY <1>13 DEF Tidy
<1>14. ASSUME NEW c \in Calls, ReceiveCall(c) PROVE trip' \in [Actors -> SoundTrips]
  BY <1>3, <1>14 DEF ReceiveCall
<1>15. ASSUME NEW l \in Loads, ReceiveLoad(l) PROVE trip' \in [Actors -> SoundTrips]
  BY <1>2, <1>15, Distinct DEF ReceiveLoad
<1> QED
  BY <1>4, <1>5, <1>6, <1>7, <1>8, <1>9, <1>10, <1>11, <1>12, <1>13, <1>14, <1>15, Distinct
     DEF Next, vars, CallStep, LoadStep, RotationStep, SignInStep, SignOutStep, Send, Answer,
         Open, Unreachable, Enter, Expire, RemoveMember

LEMMA CallsStayTyped ==
    ASSUME Tidy, [Next]_vars
    PROVE  call' \in [Calls -> [pc : {"idle", "sent", "waiting", "resent"},
                                at : Tokens \cup {NoToken}, for : Calls \cup {NoCall}]]
<1> DEFINE CallRecs == [pc : {"idle", "sent", "waiting", "resent"},
                        at : Tokens \cup {NoToken}, for : Calls \cup {NoCall}]
<1>1. call \in [Calls -> CallRecs] /\ jar \in Tokens \cup {NoToken}
  BY DEF Tidy, TypeOK
<1>2. Quietly \in CallRecs
  BY DEF Quietly
<1>3. \A n \in Tokens \cup {NoToken} : \A kept : Resumed(kept, n) \in CallRecs
  BY DEF Quietly, Resumed
<1>4. \A b \in Calls : Joined(b) \in CallRecs
  <2>1. \A b \in Calls : [Quietly EXCEPT !.pc = "waiting", !.for = b] \in CallRecs
    BY DEF Quietly
  <2> HIDE DEF CallRecs
  <2> QED
    BY <1>1, <1>3, <2>1 DEF Joined
<1>5. \A n \in Tokens \cup {NoToken} : [Quietly EXCEPT !.pc = "sent", !.at = n] \in CallRecs
  BY DEF Quietly
<1>6. \A a \in Actors : Cookies(a) \in Tokens \cup {NoToken}
  BY DEF Cookies, Tidy, TypeOK
<1> HIDE DEF CallRecs
<1>7. ASSUME NEW c \in Calls, NEW kept, NEW n \in Tokens \cup {NoToken}, Settle(c, kept, n)
      PROVE  call' \in [Calls -> CallRecs]
  BY <1>1, <1>3, <1>7 DEF Settle
<1>8. ASSUME NEW c \in Calls, Send(c) \/ Answer(c) PROVE call' \in [Calls -> CallRecs]
  BY <1>1, <1>2, <1>5, <1>8 DEF Send, Answer
<1>9. ASSUME NEW c \in Calls, Unauthorized(c) PROVE call' \in [Calls -> CallRecs]
  <2>1. Leader(c) \in Calls
    BY SessionsAssumption DEF Leader, Tidy, TypeOK
  <2>2. PICK r \in CallRecs : call' = [call EXCEPT ![c] = r]
    BY <1>2, <1>4, <1>9, <2>1 DEF Unauthorized
  <2> QED
    BY <1>1, <2>2
<1>10. ASSUME NEW c \in Calls, ReceiveCall(c) PROVE call' \in [Calls -> CallRecs]
  <2>1. Cookies(c) \in Tokens \cup {NoToken}
    BY <1>6, Distinct
  <2> QED
    BY <1>7, <1>10, <2>1 DEF ReceiveCall
<1>11. ASSUME NEW a \in Actors, Lose(a) PROVE call' \in [Calls -> CallRecs]
  BY <1>1, <1>7, <1>11 DEF Lose
<1>12. ASSUME UNCHANGED call PROVE call' \in [Calls -> CallRecs]
  BY <1>1, <1>12
<1>13. call' \in [Calls -> CallRecs]
  BY <1>8, <1>9, <1>10, <1>11, <1>12
     DEF Next, vars, CallStep, LoadStep, RotationStep, SignInStep, SignOutStep, Find, Revoke,
         Issue, Release, Open, Unreachable, Render, ReceiveLoad, Enter, BeginSignIn,
         ReceiveSignIn, BeginSignOut, RevokeOnly, ReceiveSignOut, Outage, Expire, RemoveMember
<1> QED
  BY <1>13 DEF CallRecs

LEMMA RestStaysTyped ==
    ASSUME Tidy, [Next]_vars
    PROVE  /\ {member, signedIn, late, disturbed}' \subseteq BOOLEAN
           /\ valid' \subseteq Tokens /\ live' \subseteq Tokens
           /\ jar' \in Tokens \cup {NoToken}
           /\ latch' \in [Tabs -> Calls \cup {NoCall}]
           /\ load' \in [Loads -> {"idle", "app", "away", "login"}]
           /\ events' \in 0..MaxEvents
<1>1. \A a \in Actors : Cookies(a) \in Tokens \cup {NoToken}
  BY DEF Cookies, Tidy, TypeOK
<1>2. /\ {member, signedIn, late, disturbed} \subseteq BOOLEAN
      /\ valid \subseteq Tokens /\ live \subseteq Tokens
      /\ jar \in Tokens \cup {NoToken}
      /\ latch \in [Tabs -> Calls \cup {NoCall}]
      /\ load \in [Loads -> {"idle", "app", "away", "login"}]
      /\ events \in 0..MaxEvents /\ MaxEvents \in Nat
  BY SessionsAssumption DEF Tidy, TypeOK
<1> DEFINE Rest == /\ {member, signedIn, late, disturbed}' \subseteq BOOLEAN
                   /\ valid' \subseteq Tokens /\ live' \subseteq Tokens
                   /\ jar' \in Tokens \cup {NoToken}
                   /\ latch' \in [Tabs -> Calls \cup {NoCall}]
                   /\ load' \in [Loads -> {"idle", "app", "away", "login"}]
                   /\ events' \in 0..MaxEvents
<1>3. Forget => valid' \subseteq Tokens /\ live' \subseteq Tokens
  BY <1>2 DEF Forget
<1>4. Event => events' \in 0..MaxEvents
  BY <1>2 DEF Event
<1>5. ASSUME NEW a \in Actors, Find(a) \/ Revoke(a) \/ Outage(a) \/ RevokeOnly PROVE Rest
  BY <1>2, <1>3, <1>4, <1>5 DEF Find, Revoke, Outage, RevokeOnly
<1>6. ASSUME NEW a \in Actors, Issue(a) PROVE Rest
  <2>1. trip[a].held = NoToken /\ trip[a].got = NoToken
    BY <1>6 DEF Issue, Tidy, SoundTrips, Sound
  <2>2. NewToken \in Tokens
    BY <2>1, NewTokenIsNew
  <2> QED
    BY <1>2, <1>6, <2>2 DEF Issue
<1>7. ASSUME NEW c \in Calls, Send(c) \/ Answer(c) \/ Unauthorized(c) \/ ReceiveCall(c)
      PROVE  Rest
  <2>1. Cookies(c) \in Tokens \cup {NoToken}
    BY <1>1, Distinct
  <2> QED
    BY <1>2, <1>3, <1>7, <2>1, SessionsAssumption
       DEF Send, Answer, Unauthorized, ReceiveCall, BeginRotation
<1>8. ASSUME NEW t \in Tabs, Release(t) PROVE Rest
  BY <1>2, <1>8 DEF Release
<1>9. ASSUME NEW l \in Loads,
             Open(l) \/ Unreachable(l) \/ Render(l) \/ ReceiveLoad(l) \/ Enter(l)
      PROVE  Rest
  <2>1. Cookies(l) \in Tokens \cup {NoToken}
    BY <1>1, Distinct
  <2> QED
    BY <1>2, <1>3, <1>4, <1>9, <2>1
       DEF Open, Unreachable, Render, ReceiveLoad, Enter, BeginRotation
<1>10. CASE BeginSignIn \/ ReceiveSignIn \/ BeginSignOut \/ ReceiveSignOut
  <2>1. Cookies(SignIn) \in Tokens \cup {NoToken} /\ Cookies(SignOut) \in Tokens \cup {NoToken}
    BY <1>1, Distinct
  <2> QED
    BY <1>2, <1>3, <1>4, <1>10, <2>1
       DEF BeginSignIn, ReceiveSignIn, BeginSignOut, ReceiveSignOut
<1>11. ASSUME NEW a \in Actors, Lose(a) PROVE Rest
  BY <1>2, <1>3, <1>4, <1>11 DEF Lose
<1>12. CASE RemoveMember \/ \E n \in Tokens : Expire(n)
  BY <1>2, <1>4, <1>12 DEF RemoveMember, Expire
<1>13. CASE UNCHANGED vars
  BY <1>2, <1>13 DEF vars
<1> QED
  BY <1>5, <1>6, <1>7, <1>8, <1>9, <1>10, <1>11, <1>12, <1>13, Distinct
     DEF Next, CallStep, LoadStep, RotationStep, SignInStep, SignOutStep

LEMMA StepTidy == Tidy /\ [Next]_vars => Tidy'
<1> SUFFICES ASSUME Tidy, [Next]_vars PROVE Tidy'
  OBVIOUS
<1>1. trip' \in [Actors -> SoundTrips]
  BY TripsStaySound
<1>2. trip' \in [Actors -> Trips] /\ \A a \in Actors : Sound(trip'[a])
  BY <1>1 DEF SoundTrips
<1> QED
  BY <1>1, <1>2, CallsStayTyped, RestStaysTyped DEF Tidy, TypeOK, Trips, Sound

(***************************************************************************)
(* Type correctness: among others, a rotation that was sent on holds a     *)
(* token, and what is granted is one.                                      *)
(***************************************************************************)
THEOREM TypeCorrect == Spec => []TypeOK
<1>1. Tidy => TypeOK
  BY DEF Tidy
<1> QED
  BY <1>1, InitTidy, StepTidy, PTL DEF Spec
-----------------------------------------------------------------------------
(***************************************************************************)
(* Why the cookies match the session.  While nothing disturbs it there is  *)
(* one rotation at a time, which was sent with the cookies that are still  *)
(* in the jar, unless a form was answered since (late), and hands over a   *)
(* pair that nobody else has seen, hence one that no other trip can        *)
(* revoke.  A sign-out that is under way may revoke what is in the jar,    *)
(* but then ends the session itself, or disturbs it.                       *)
(***************************************************************************)

(* The calls of a tab rotate one at a time.                                *)
Latched == \A c \in Calls : trip[c].pc # "idle" => latch[TabOf[c]] = c

SignOutIsGrantedNothing == trip[SignOut].pc # "granted"

Unshared(a) == trip[a].pc = "granted" =>
    /\ trip[a].got \in valid /\ trip[a].got # jar
    /\ \A b \in Actors :
          trip[b].held # trip[a].got /\ (b # a => trip[b].got # trip[a].got)

Alone == ~disturbed => \A a, b \in Rotators : UnderWay(a) /\ UnderWay(b) => a = b

(* A rotation that nothing has disturbed so far.                           *)
Rotating(a) == ~late =>
    /\ signedIn
    /\ trip[a].pc = "sent" => trip[a].held = jar /\ (member => jar \in valid)
    /\ trip[a].pc = "refused" => ~member

AtRest ==
    /\ jar \in valid \cup {NoToken}
    /\ ~late => (signedIn /\ member => jar \in valid) /\ (~signedIn => jar = NoToken)

Matched == (~disturbed /\ ~UnderWay(SignOut)) =>
    /\ \A a \in Rotators : UnderWay(a) => Rotating(a)
    /\ (\A a \in Rotators : ~UnderWay(a)) => AtRest

Whole ==
    /\ Latched /\ SignOutIsGrantedNothing /\ \A a \in Actors : Unshared(a)
    /\ Alone /\ Matched

LEMMA InitWhole == Init => Whole
<1> SUFFICES ASSUME Init PROVE Whole
  OBVIOUS
<1>1. \A a \in Actors : trip[a] = NoTrip /\ trip[a].pc = "idle" /\ ~UnderWay(a)
  BY DEF Init, NoTrip, UnderWay, AtTheApi, Answers
<1>2. ~disturbed => AtRest
  BY DEF Init, AtRest
<1> QED
  BY <1>1, <1>2, Distinct
     DEF Whole, Latched, SignOutIsGrantedNothing, Unshared, Alone, Matched

-----------------------------------------------------------------------------
(* What a step may do without touching a part of the invariant.            *)

LEMMA LatchedStays ==
    ASSUME Latched, latch' = latch, \A c \in Calls : trip'[c].pc # "idle" => trip[c].pc # "idle"
    PROVE  Latched'
BY DEF Latched

LEMMA AloneStays ==
    ASSUME Alone, disturbed => disturbed', \A a \in Rotators : UnderWay(a)' => UnderWay(a)
    PROVE  Alone'
BY DEF Alone

LEMMA DisturbanceStaysAlone == ASSUME disturbed' PROVE Alone' /\ Matched'
BY DEF Alone, Matched

(* Nobody is granted anything, and only those that a trip held may lapse.  *)
NothingGranted ==
    /\ \A b \in Actors :
          /\ trip'[b].held \in {trip[b].held, NoToken, jar}
          /\ trip'[b].got \in {trip[b].got, NoToken}
          /\ trip'[b].pc = "granted" => trip[b].pc = "granted" /\ trip'[b].got = trip[b].got
    /\ \/ jar' \in {jar, NoToken}
       \/ \E b \in Actors :
             trip[b].pc = "granted" /\ jar' = trip[b].got /\ trip'[b].pc # "granted"
    /\ \A n \in valid \ valid' : n \notin InUse' \/ \E b \in Actors : n = trip[b].held

LEMMA UnsharedStays ==
    ASSUME Tidy, \A a \in Actors : Unshared(a), NothingGranted
    PROVE  \A a \in Actors : Unshared(a)'
<1> SUFFICES ASSUME NEW a \in Actors, trip'[a].pc = "granted"
             PROVE  /\ trip'[a].got \in valid' /\ trip'[a].got # jar'
                    /\ \A b \in Actors :
                          trip'[b].held # trip'[a].got /\ (b # a => trip'[b].got # trip'[a].got)
  BY DEF Unshared
<1>1. trip[a].pc = "granted" /\ trip'[a].got = trip[a].got
  BY DEF NothingGranted
<1>2. trip[a].got \in Tokens /\ trip[a].got # NoToken
  BY <1>1, SessionsAssumption DEF Tidy, SoundTrips, Sound
<1>3. /\ trip[a].got \in valid /\ trip[a].got # jar
      /\ \A b \in Actors : trip[b].held # trip[a].got /\ (b # a => trip[b].got # trip[a].got)
  BY <1>1 DEF Unshared
<1>4. trip'[a].got \in InUse'
  BY DEF InUse
<1>5. trip'[a].got \in valid'
  BY <1>1, <1>3, <1>4 DEF NothingGranted
<1>6. trip'[a].got # jar'
  BY <1>1, <1>2, <1>3 DEF NothingGranted
<1> QED
  BY <1>1, <1>2, <1>3, <1>5, <1>6 DEF NothingGranted

(* A step that is not a rotation's and keeps the session.                  *)
LEMMA OthersKeepMatch ==
    ASSUME Matched, UNCHANGED <<jar, signedIn, late>>, member' => member, disturbed => disturbed',
           UnderWay(SignOut) => UnderWay(SignOut)' \/ disturbed',
           \A a \in Rotators : trip'[a] = trip[a] \/ ~(UnderWay(a) \/ UnderWay(a)'),
           ~UnderWay(SignOut) /\ jar \in valid => jar \in valid'
    PROVE  Matched'
<1> SUFFICES ASSUME ~disturbed', ~UnderWay(SignOut)'
             PROVE  /\ \A a \in Rotators : UnderWay(a)' => Rotating(a)'
                    /\ (\A a \in Rotators : ~UnderWay(a)') => AtRest'
  BY DEF Matched
<1>1. ~disturbed /\ ~UnderWay(SignOut)
  OBVIOUS
<1>2. \A a \in Rotators : UnderWay(a)' <=> UnderWay(a)
  BY DEF UnderWay
<1>3. ASSUME NEW a \in Rotators, UnderWay(a)' PROVE Rotating(a)'
  <2>1. trip'[a] = trip[a] /\ Rotating(a)
    BY <1>1, <1>2, <1>3 DEF Matched
  <2> QED
    BY <1>1, <2>1 DEF Rotating
<1>4. ASSUME \A a \in Rotators : ~UnderWay(a)' PROVE AtRest'
  <2>1. AtRest
    BY <1>1, <1>2, <1>4 DEF Matched
  <2> QED
    BY <1>1, <2>1 DEF AtRest
<1> QED
  BY <1>3, <1>4

LEMMA JarIsInUse == jar \in InUse
BY DEF InUse

(* A step of nobody under /api/auth.                                       *)
LEMMA CalmStaysWhole ==
    ASSUME Tidy, Whole, valid' = valid \/ Forget,
           UNCHANGED <<jar, latch, trip, signedIn, late, disturbed>>, member' => member
    PROVE  Whole'
<1>1. \A n \in valid \ valid' : n \notin InUse'
  BY DEF Forget
<1>2. \A a \in Actors : UnderWay(a)' = UnderWay(a)
  BY DEF UnderWay
<1>3. Latched' /\ Alone'
  BY <1>2, LatchedStays, AloneStays, Distinct DEF Whole
<1>4. \A a \in Actors : Unshared(a)'
  BY <1>1, UnsharedStays DEF Whole, NothingGranted
<1>5. jar \in valid => jar \in valid'
  BY <1>1, JarIsInUse DEF InUse
<1>6. Matched'
  BY <1>2, <1>5, OthersKeepMatch, Distinct DEF Whole
<1> QED
  BY <1>3, <1>4, <1>6 DEF Whole, SignOutIsGrantedNothing

(* A step of a form that leaves the cookies alone.                         *)
LEMMA FormStaysWhole ==
    ASSUME Tidy, Whole, NEW s \in {SignIn, SignOut}, NEW t, trip' = [trip EXCEPT ![s] = t],
           t.held \in {NoToken, jar}, t.got = NoToken, t.pc # "granted",
           UNCHANGED <<jar, latch, signedIn, late, member>>, disturbed => disturbed',
           \/ s = SignIn
           \/ UnderWay(SignOut)' \/ disturbed',
           \/ valid' = valid \/ Forget
           \/ UnderWay(SignOut) /\ valid' = (valid \ {trip[SignOut].held}) \cap InUse'
    PROVE  Whole'
<1>1. trip'[s] = t /\ \A b \in Actors : b # s => trip'[b] = trip[b]
  BY Distinct DEF Tidy
<1>2. \A n \in valid \ valid' : n \notin InUse' \/ \E b \in Actors : n = trip[b].held
  BY Distinct DEF Forget
<1>3. NothingGranted
  BY <1>1, <1>2 DEF NothingGranted
<1>4. \A a \in Rotators : trip'[a] = trip[a] /\ UnderWay(a)' = UnderWay(a)
  BY <1>1, Distinct DEF UnderWay
<1>5. Latched' /\ Alone'
  BY <1>4, LatchedStays, AloneStays, Distinct DEF Whole
<1>6. ~UnderWay(SignOut) /\ jar \in valid => jar \in valid'
  <2>1. jar \in InUse'
    BY JarIsInUse DEF InUse
  <2> QED
    BY <2>1 DEF Forget
<1>7. UnderWay(SignOut) => UnderWay(SignOut)' \/ disturbed'
  BY <1>1, Distinct DEF UnderWay
<1>8. Matched'
  BY <1>4, <1>6, <1>7, OthersKeepMatch DEF Whole
<1>9. SignOutIsGrantedNothing'
  BY <1>1, Distinct DEF Whole, SignOutIsGrantedNothing
<1> QED
  BY <1>3, <1>5, <1>8, <1>9, UnsharedStays DEF Whole
-----------------------------------------------------------------------------
(* The steps of a rotation.                                                *)

LEMMA OneAtATime ==
    ASSUME Whole, ~disturbed, NEW a \in Rotators, UnderWay(a), NEW b \in Rotators, UnderWay(b)
    PROVE  b = a
BY DEF Whole, Alone

(* At the API, up to the answer.                                           *)
LEMMA RotationStaysWhole ==
    ASSUME Tidy, Whole, NEW a \in Rotators, UnderWay(a), NEW t, trip' = [trip EXCEPT ![a] = t],
           t.pc \in {"found", "admitted", "granted", "refused"},
           UNCHANGED <<jar, latch, signedIn, late, disturbed, member>>,
           (t.pc = "refused" /\ ~disturbed /\ ~late /\ ~UnderWay(SignOut)) => ~member,
           \A b \in Actors : Unshared(b)'
    PROVE  Whole'
<1>1. trip'[a] = t /\ \A b \in Actors : b # a => trip'[b] = trip[b]
  BY Distinct DEF Tidy
<1>2. \A b \in Actors : UnderWay(b)' = UnderWay(b)
  BY <1>1 DEF UnderWay, AtTheApi, Answers
<1>3. trip[a].pc # "idle"
  BY DEF UnderWay, AtTheApi, Answers
<1>4. Latched' /\ Alone'
  BY <1>1, <1>2, <1>3, LatchedStays, AloneStays, Distinct DEF Whole
<1>5. Matched'
  <2> SUFFICES ASSUME ~disturbed, ~UnderWay(SignOut)
               PROVE  /\ \A b \in Rotators : UnderWay(b)' => Rotating(b)'
                      /\ (\A b \in Rotators : ~UnderWay(b)') => AtRest'
    BY <1>2, Distinct DEF Matched
  <2>1. Rotating(a)
    BY DEF Whole, Matched
  <2>2. Rotating(a)'
    BY <1>1, <2>1 DEF Rotating
  <2>3. \A b \in Rotators : UnderWay(b)' => b = a
    BY <1>2, OneAtATime, Distinct
  <2> QED
    BY <1>2, <2>2, <2>3, Distinct
<1>6. SignOutIsGrantedNothing'
  BY <1>1, Distinct DEF Whole, SignOutIsGrantedNothing
<1> QED
  BY <1>4, <1>5, <1>6 DEF Whole

LEMMA FindStaysWhole == ASSUME Tidy, Whole, NEW a \in Rotators, Find(a) PROVE Whole'
<1>1. a \in Actors /\ trip[a].pc = "sent" /\ UnderWay(a)
  BY Distinct DEF Find, UnderWay, AtTheApi
<1> DEFINE t == IF trip[a].held \in valid THEN [trip[a] EXCEPT !.pc = "found"] ELSE Refused
<1>2. trip' = [trip EXCEPT ![a] = t] /\ UNCHANGED <<jar, latch, signedIn, late, disturbed, member>>
  BY DEF Find
<1>3. /\ t.pc = (IF trip[a].held \in valid THEN "found" ELSE "refused")
      /\ t.held \in {trip[a].held, NoToken} /\ t.got \in {trip[a].got, NoToken}
  BY <1>1 DEF Tidy, SoundTrips, Trips, Refused, NoTrip
<1> HIDE DEF t
<1>4. trip'[a] = t /\ \A b \in Actors : b # a => trip'[b] = trip[b]
  BY <1>1, <1>2 DEF Tidy
<1>5. \A n \in valid \ valid' : n \notin InUse'
  BY DEF Find, Forget
<1>6. NothingGranted
  BY <1>2, <1>3, <1>4, <1>5 DEF NothingGranted
<1>7. (t.pc = "refused" /\ ~disturbed /\ ~late /\ ~UnderWay(SignOut)) => ~member
  BY <1>1, <1>3 DEF Whole, Matched, Rotating
<1> QED
  BY <1>1, <1>2, <1>3, <1>6, <1>7, UnsharedStays, RotationStaysWhole DEF Whole

LEMMA RevokeStaysWhole == ASSUME Tidy, Whole, NEW a \in Rotators, Revoke(a) PROVE Whole'
<1>1. a \in Actors /\ trip[a].pc = "found" /\ UnderWay(a)
  BY Distinct DEF Revoke, UnderWay, AtTheApi
<1> DEFINE t == IF member THEN Admitted ELSE Refused
<1>2. trip' = [trip EXCEPT ![a] = t] /\ UNCHANGED <<jar, latch, signedIn, late, disturbed, member>>
  BY DEF Revoke
<1>3. /\ t.pc = (IF member THEN "admitted" ELSE "refused")
      /\ t.held = NoToken /\ t.got = NoToken
  BY DEF Admitted, Refused, NoTrip
<1> HIDE DEF t
<1>4. trip'[a] = t /\ \A b \in Actors : b # a => trip'[b] = trip[b]
  BY <1>1, <1>2 DEF Tidy
<1>5. \A n \in valid \ valid' : n \notin InUse' \/ \E b \in Actors : n = trip[b].held
  BY <1>1 DEF Revoke
<1>6. NothingGranted
  BY <1>2, <1>3, <1>4, <1>5 DEF NothingGranted
<1> QED
  BY <1>1, <1>2, <1>3, <1>6, UnsharedStays, RotationStaysWhole DEF Whole

(* What is issued is new, so that nobody else refers to it.                *)
LEMMA IssueStaysUnshared ==
    ASSUME Tidy, \A b \in Actors : Unshared(b), NEW a \in Actors, Issue(a)
    PROVE  /\ \A b \in Actors : Unshared(b)'
           /\ \E t : t.pc = "granted" /\ trip' = [trip EXCEPT ![a] = t]
           /\ valid \subseteq valid'
<1> DEFINE t == [NoTrip EXCEPT !.pc = "granted", !.got = NewToken]
<1>1. trip[a].pc = "admitted" /\ trip' = [trip EXCEPT ![a] = t]
  BY DEF Issue
<1>2. NewToken \in Tokens /\ NewToken \notin InUse
  BY <1>1, NewTokenIsNew DEF Tidy, SoundTrips, Sound
<1>3. t.pc = "granted" /\ t.held = NoToken /\ t.got = NewToken
  BY DEF NoTrip
<1> HIDE DEF t
<1>4. trip'[a] = t /\ \A b \in Actors : b # a => trip'[b] = trip[b]
  BY <1>1 DEF Tidy
<1>5. /\ NewToken # jar /\ NewToken # NoToken
      /\ \A b \in Actors : NewToken # trip[b].held /\ NewToken # trip[b].got
  BY <1>2, SessionsAssumption DEF InUse
<1>6. jar' = jar /\ valid' = valid \cup {NewToken}
  BY DEF Issue
<1>7. Unshared(a)'
  BY <1>3, <1>4, <1>5, <1>6 DEF Unshared
<1>8. ASSUME NEW b \in Actors, b # a PROVE Unshared(b)'
  <2> SUFFICES ASSUME trip[b].pc = "granted"
               PROVE  /\ trip[b].got \in valid' /\ trip[b].got # jar
                      /\ \A c \in Actors : trip'[c].held # trip[b].got
                                            /\ (c # b => trip'[c].got # trip[b].got)
    BY <1>4, <1>6, <1>8 DEF Unshared
  <2>1. trip[b].got \in Tokens /\ trip[b].got # NoToken
    BY SessionsAssumption DEF Tidy, SoundTrips, Sound
  <2> QED
    BY <1>3, <1>4, <1>5, <1>6, <2>1 DEF Unshared
<1> QED
  BY <1>1, <1>3, <1>6, <1>7, <1>8

LEMMA IssueStaysWhole ==
    ASSUME Tidy, Whole, NEW a \in Rotators \cup {SignIn}, Issue(a)
    PROVE  Whole'
<1>1. /\ a \in Actors /\ trip[a].pc = "admitted" /\ UnderWay(a)
      /\ UNCHANGED <<jar, latch, signedIn, late, disturbed, member>>
  BY Distinct DEF Issue, UnderWay, AtTheApi
<1>2. PICK t : t.pc = "granted" /\ trip' = [trip EXCEPT ![a] = t]
  BY <1>1, IssueStaysUnshared DEF Whole
<1>3. (\A b \in Actors : Unshared(b)') /\ valid \subseteq valid'
  BY <1>1, IssueStaysUnshared DEF Whole
<1>4. CASE a \in Rotators
  BY <1>1, <1>2, <1>3, <1>4, RotationStaysWhole
<1>5. CASE a = SignIn
  <2>1. \A b \in Actors : b # SignIn => trip'[b] = trip[b] /\ UnderWay(b)' = UnderWay(b)
    BY <1>2, <1>5 DEF Tidy, UnderWay
  <2>2. Latched' /\ Alone' /\ Matched'
    BY <1>1, <1>3, <2>1, LatchedStays, AloneStays, OthersKeepMatch, Distinct DEF Whole
  <2> QED
    BY <1>3, <2>1, <2>2, Distinct DEF Whole, SignOutIsGrantedNothing
<1> QED
  BY <1>4, <1>5

LEMMA BeginStaysWhole ==
    ASSUME Tidy, Whole, NEW a \in Rotators, jar # NoToken, BeginRotation(a), Forget,
           UNCHANGED <<jar, signedIn, late, member>>,
           IF a \in Calls
           THEN /\ latch[TabOf[a]] \in {NoCall, a}
                /\ latch' = [latch EXCEPT ![TabOf[a]] = a]
           ELSE latch' = latch
    PROVE  Whole'
<1>1. a \in Actors /\ trip[a].pc = "idle" /\ ~UnderWay(a) /\ trip' = [trip EXCEPT ![a] = WithCookies]
  BY Distinct DEF BeginRotation, UnderWay, AtTheApi, Answers
<1>2. WithCookies.pc = "sent" /\ WithCookies.held = jar /\ WithCookies.got = NoToken
  BY DEF WithCookies, NoTrip
<1>3. trip'[a] = WithCookies /\ \A b \in Actors : b # a => trip'[b] = trip[b]
  BY <1>1 DEF Tidy
<1>4. \A b \in Actors : b # a => UnderWay(b)' = UnderWay(b)
  BY <1>3 DEF UnderWay
<1>5. ASSUME NEW b \in Rotators, b # a, UnderWay(b), ~disturbed' PROVE FALSE
  <2>1. a \in Calls /\ b \in Calls /\ TabOf[a] = TabOf[b]
    BY <1>5 DEF BeginRotation, SameDocument
  <2>2. trip[b].pc # "idle"
    BY <1>5 DEF UnderWay, AtTheApi, Answers
  <2>3. latch[TabOf[a]] = b
    BY <2>1, <2>2 DEF Whole, Latched
  <2> QED
    BY <1>5, <2>1, <2>3, SessionsAssumption
<1>6. Latched'
  <2> SUFFICES ASSUME NEW c \in Calls, trip'[c].pc # "idle" PROVE latch'[TabOf[c]] = c
    BY DEF Latched
  <2>1. TabOf[c] \in Tabs /\ latch \in [Tabs -> Calls \cup {NoCall}]
    BY SessionsAssumption DEF Tidy, TypeOK
  <2>2. CASE c = a
    BY <2>1, <2>2
  <2>3. CASE c # a
    <3>1. latch[TabOf[c]] = c
      BY <1>3, <2>3, Distinct DEF Whole, Latched
    <3> QED
      BY <2>1, <2>3, <3>1, SessionsAssumption
  <2> QED
    BY <2>2, <2>3
<1>7. \A b \in Actors : Unshared(b)'
  <2>1. \A n \in valid \ valid' : n \notin InUse'
    BY DEF Forget
  <2>2. NothingGranted
    BY <1>2, <1>3, <2>1 DEF NothingGranted
  <2> QED
    BY <2>2, UnsharedStays DEF Whole
<1>8. Alone'
  BY <1>4, <1>5, Distinct DEF Alone
<1>9. Matched'
  <2> SUFFICES ASSUME ~disturbed', ~UnderWay(SignOut)'
               PROVE  /\ \A b \in Rotators : UnderWay(b)' => Rotating(b)'
                      /\ (\A b \in Rotators : ~UnderWay(b)') => AtRest'
    BY DEF Matched
  <2>1. ~disturbed /\ ~UnderWay(SignOut)
    BY <1>4, Distinct DEF BeginRotation
  <2>2. \A b \in Rotators : ~UnderWay(b)
    BY <1>1, <1>5
  <2>3. AtRest
    BY <2>1, <2>2 DEF Whole, Matched
  <2>4. jar \in valid => jar \in valid'
    BY JarIsInUse DEF Forget, InUse
  <2>5. Rotating(a)'
    BY <1>2, <1>3, <2>3, <2>4 DEF AtRest, Rotating
  <2>6. UnderWay(a)' /\ \A b \in Rotators : UnderWay(b)' => b = a
    BY <1>2, <1>3, <1>4, <2>2, Distinct DEF UnderWay, AtTheApi
  <2> QED
    BY <2>5, <2>6
<1>10. SignOutIsGrantedNothing'
  BY <1>3, Distinct DEF Whole, SignOutIsGrantedNothing
<1> QED
  BY <1>6, <1>7, <1>8, <1>9, <1>10 DEF Whole

(* The answer arrives.                                                     *)
LEMMA ReceiveStaysWhole ==
    ASSUME Tidy, Whole, NEW a \in Rotators, trip[a].pc \in Answers, NEW t,
           trip' = [trip EXCEPT ![a] = t], t.pc \in {"idle", "kept", "lost"},
           t.held = NoToken, t.got = NoToken, jar' = Cookies(a), Forget,
           UNCHANGED <<latch, signedIn, late, disturbed, member>>
    PROVE  Whole'
<1>1. a \in Actors /\ UnderWay(a) /\ trip[a].pc # "idle"
  BY Distinct DEF UnderWay, Answers
<1>2. trip'[a] = t /\ \A b \in Actors : b # a => trip'[b] = trip[b]
  BY <1>1 DEF Tidy
<1>3. ~UnderWay(a)' /\ \A b \in Actors : b # a => UnderWay(b)' = UnderWay(b)
  BY <1>2 DEF UnderWay, AtTheApi, Answers
<1>4. Latched' /\ Alone'
  BY <1>1, <1>2, <1>3, LatchedStays, AloneStays, Distinct DEF Whole
<1>5. \A n \in valid \ valid' : n \notin InUse'
  BY DEF Forget
<1>6. NothingGranted
  BY <1>1, <1>2, <1>5 DEF NothingGranted, Cookies
<1>7. Matched'
  <2> SUFFICES ASSUME ~disturbed, ~UnderWay(SignOut)
               PROVE  (\A b \in Rotators : ~UnderWay(b)') /\ AtRest'
    BY <1>3, Distinct DEF Matched
  <2>1. \A b \in Rotators : ~UnderWay(b)'
    BY <1>1, <1>3, OneAtATime, Distinct
  <2>2. Rotating(a)
    BY <1>1 DEF Whole, Matched
  <2>3. trip[a].pc = "granted" => jar' \in valid'
    <3>1. jar' \in InUse'
      BY DEF InUse
    <3>2. trip[a].pc = "granted" => trip[a].got \in valid
      BY <1>1 DEF Whole, Unshared
    <3> QED
      BY <3>1, <3>2 DEF Cookies, Forget
  <2>4. trip[a].pc # "granted" => jar' = NoToken /\ (~late => ~member)
    BY <2>2 DEF Rotating, Answers, Cookies
  <2> QED
    BY <2>1, <2>2, <2>3, <2>4 DEF AtRest, Rotating
<1>8. SignOutIsGrantedNothing'
  BY <1>2, Distinct DEF Whole, SignOutIsGrantedNothing
<1> QED
  BY <1>4, <1>6, <1>7, <1>8, UnsharedStays DEF Whole

(* The answer of a form starts a session, or ends one, as far as the forms *)
(* go; if another request is still to change the cookies it comes late.    *)
LEMMA FormIsReceived ==
    ASSUME Tidy, Whole, ReceiveSignIn \/ ReceiveSignOut
    PROVE  Whole'
<1>1. PICK s \in {SignIn, SignOut} :
        /\ trip[s].pc \in Answers
        /\ trip' = [trip EXCEPT ![s] = NoTrip]
        /\ jar' = Cookies(s)
        /\ late' = \E b \in Actors \ {s} : UnderWay(b)
        /\ disturbed' = (disturbed /\ late')
        /\ IF s = SignIn THEN signedIn' = TRUE /\ trip[s].pc = "granted" ELSE signedIn' = FALSE
        /\ UNCHANGED <<latch, member>> /\ Forget
  BY Distinct DEF ReceiveSignIn, ReceiveSignOut, Answers
<1>2. /\ s \in Actors /\ s \notin Rotators
      /\ trip'[s] = NoTrip /\ \A b \in Actors : b # s => trip'[b] = trip[b]
  BY <1>1, Distinct DEF Tidy
<1>3. NoTrip.pc = "idle" /\ NoTrip.held = NoToken /\ NoTrip.got = NoToken
  BY DEF NoTrip
<1>4. \A b \in Rotators : trip'[b] = trip[b] /\ UnderWay(b)' = UnderWay(b)
  BY <1>2, Distinct DEF UnderWay
<1>5. Latched'
  BY <1>1, <1>4, LatchedStays, Distinct DEF Whole
<1>6. ~late' => \A b \in Rotators : ~UnderWay(b)'
  BY <1>1, <1>2, <1>4, Distinct
<1>7. \A n \in valid \ valid' : n \notin InUse'
  BY <1>1 DEF Forget
<1>8. NothingGranted
  BY <1>1, <1>2, <1>3, <1>7 DEF NothingGranted, Cookies
<1>9. AtRest'
  <2>1. CASE s = SignIn
    <3>1. jar' \in InUse' /\ trip[s].got \in valid
      BY <1>1, <1>2, <2>1 DEF InUse, Whole, Unshared
    <3>2. jar' \in valid' /\ signedIn' = TRUE
      BY <1>1, <2>1, <3>1 DEF Cookies, Forget
    <3> QED
      BY <3>2 DEF AtRest
  <2>2. CASE s = SignOut
    <3>1. jar' = NoToken /\ signedIn' = FALSE
      BY <1>1, <2>2, Distinct DEF Cookies, Whole, SignOutIsGrantedNothing
    <3> QED
      BY <3>1 DEF AtRest
  <2> QED
    BY <2>1, <2>2
<1>10. SignOutIsGrantedNothing'
  BY <1>2, <1>3, Distinct DEF Whole, SignOutIsGrantedNothing
<1>11. Alone'
  BY <1>1, <1>4, <1>6 DEF Whole, Alone
<1>12. Matched'
  BY <1>6, <1>9 DEF Matched, Rotating
<1> QED
  BY <1>5, <1>8, <1>10, <1>11, <1>12, UnsharedStays DEF Whole

(* A rotation that fails, or whose answer is lost, disturbs the session.   *)
LEMMA FailureStaysWhole ==
    ASSUME Tidy, Whole, NEW a \in Rotators, UnderWay(a), NEW t, trip' = [trip EXCEPT ![a] = t],
           t.held = NoToken, t.got = NoToken, t.pc # "granted", disturbed', Forget,
           UNCHANGED <<jar, latch>>
    PROVE  Whole'
<1>1. a \in Actors /\ trip[a].pc # "idle"
  BY Distinct DEF UnderWay, AtTheApi, Answers
<1>2. trip'[a] = t /\ \A b \in Actors : b # a => trip'[b] = trip[b]
  BY <1>1 DEF Tidy
<1>3. Latched'
  BY <1>1, <1>2, LatchedStays, Distinct DEF Whole
<1>4. \A n \in valid \ valid' : n \notin InUse'
  BY DEF Forget
<1>5. NothingGranted
  BY <1>2, <1>4 DEF NothingGranted
<1>6. SignOutIsGrantedNothing'
  BY <1>2, Distinct DEF Whole, SignOutIsGrantedNothing
<1> QED
  BY <1>3, <1>5, <1>6, DisturbanceStaysAlone, UnsharedStays DEF Whole

LEMMA ReleaseStaysWhole == ASSUME Tidy, Whole, NEW t \in Tabs, Release(t) PROVE Whole'
<1>1. /\ latch[t] \in Calls /\ latch[t] \in Rotators /\ latch[t] \in Actors
      /\ latch \in [Tabs -> Calls \cup {NoCall}]
  BY Distinct DEF Release, Tidy, TypeOK
<1>2. trip'[latch[t]] = NoTrip /\ \A b \in Actors : b # latch[t] => trip'[b] = trip[b]
  BY <1>1 DEF Release, Tidy
<1>3. NoTrip.pc = "idle" /\ NoTrip.held = NoToken /\ NoTrip.got = NoToken
  BY DEF NoTrip
<1>4. UNCHANGED <<jar, valid, signedIn, late, disturbed, member>>
  BY DEF Release
<1>5. ~UnderWay(latch[t]) /\ \A b \in Actors : UnderWay(b)' = UnderWay(b)
  BY <1>2, <1>3 DEF Release, Settled, UnderWay, AtTheApi, Answers
<1>6. Latched'
  <2> SUFFICES ASSUME NEW c \in Calls, trip'[c].pc # "idle" PROVE latch'[TabOf[c]] = c
    BY DEF Latched
  <2>1. c # latch[t] /\ trip[c].pc # "idle"
    BY <1>2, <1>3, Distinct
  <2>2. latch[TabOf[c]] = c /\ TabOf[c] \in Tabs
    BY <2>1, SessionsAssumption DEF Whole, Latched
  <2> QED
    BY <1>1, <2>1, <2>2 DEF Release
<1>7. NothingGranted
  BY <1>2, <1>3, <1>4 DEF NothingGranted
<1>8. Alone'
  BY <1>4, <1>5, AloneStays, Distinct DEF Whole
<1>9. Matched'
  <2>1. \A a \in Rotators : trip'[a] = trip[a] \/ ~(UnderWay(a) \/ UnderWay(a)')
    BY <1>2, <1>5, Distinct
  <2> QED
    BY <1>4, <1>5, <2>1, OthersKeepMatch, Distinct DEF Whole
<1>10. SignOutIsGrantedNothing'
  BY <1>1, <1>2, Distinct DEF Whole, SignOutIsGrantedNothing
<1> QED
  BY <1>6, <1>7, <1>8, <1>9, <1>10, UnsharedStays DEF Whole
-----------------------------------------------------------------------------
LEMMA UnauthorizedStaysWhole ==
    ASSUME Tidy, Whole, NEW c \in Calls, Unauthorized(c)
    PROVE  Whole'
<1>1. Forget /\ UNCHANGED <<member, jar, signedIn, late>>
  BY DEF Unauthorized
<1>2. CASE UNCHANGED <<trip, disturbed, latch>>
  BY <1>1, <1>2, CalmStaysWhole
<1>3. CASE /\ Leader(c) = c /\ CanRotate /\ BeginRotation(c)
           /\ latch' = [latch EXCEPT ![TabOf[c]] = c]
  <2>1. latch[TabOf[c]] \in {NoCall, c}
    BY <1>3 DEF Leader
  <2> QED
    BY <1>1, <1>3, <2>1, BeginStaysWhole, Distinct DEF CanRotate
<1> QED
  BY <1>2, <1>3 DEF Unauthorized

LEMMA RenderStaysWhole ==
    ASSUME Tidy, Whole, NEW l \in Loads, Render(l)
    PROVE  Whole'
<1>1. Forget /\ UNCHANGED <<member, jar, signedIn, late, latch>>
  BY DEF Render
<1>2. CASE UNCHANGED <<trip, disturbed>>
  BY <1>1, <1>2, CalmStaysWhole
<1>3. CASE CanRotate /\ BeginRotation(l)
  <2>1. l \notin Calls
    BY SessionsAssumption
  <2> QED
    BY <1>1, <1>3, <2>1, BeginStaysWhole, Distinct DEF CanRotate
<1> QED
  BY <1>2, <1>3 DEF Render

LEMMA FailuresStayWhole ==
    ASSUME Tidy, Whole, NEW a \in Actors, Outage(a) \/ Lose(a)
    PROVE  Whole'
<1>1. Forget /\ UNCHANGED <<jar, latch, signedIn, late>> /\ UnderWay(a) /\ (disturbed => disturbed')
  BY DEF Outage, Lose, UnderWay, Answers
<1>2. PICK t : /\ trip' = [trip EXCEPT ![a] = t]
               /\ t.held = NoToken /\ t.got = NoToken /\ t.pc # "granted"
               /\ a = SignOut => t.pc = "refused" \/ disturbed'
  <2>1. CASE Outage(a)
    <3>1. \/ a = SignIn /\ trip' = [trip EXCEPT ![a] = NoTrip]
          \/ trip' = [trip EXCEPT ![a] = Refused]
      BY <2>1 DEF Outage
    <3>2. /\ NoTrip.pc = "idle" /\ NoTrip.held = NoToken /\ NoTrip.got = NoToken
          /\ Refused.pc = "refused" /\ Refused.held = NoToken /\ Refused.got = NoToken
      BY DEF NoTrip, Refused
    <3> QED
      BY <3>1, <3>2, Distinct
  <2>2. CASE Lose(a)
    <3>1. \/ trip' = [trip EXCEPT ![a] = NoTrip]
          \/ trip' = [trip EXCEPT ![a] = [NoTrip EXCEPT !.pc = "lost"]]
      BY <2>2 DEF Lose, Settle
    <3>2. a = SignOut => disturbed'
      BY <2>2, Distinct DEF Lose
    <3> QED
      BY <3>1, <3>2 DEF NoTrip
  <2> QED
    BY <2>1, <2>2
<1>3. CASE a \in Rotators
  <2>1. disturbed'
    BY <1>3, Distinct DEF Outage, Lose
  <2> QED
    BY <1>1, <1>2, <1>3, <2>1, FailureStaysWhole
<1>4. CASE a \in {SignIn, SignOut}
  <2>1. member' = member
    BY DEF Outage, Lose
  <2>2. a = SignIn \/ UnderWay(SignOut)' \/ disturbed'
    BY <1>2, <1>4, Distinct DEF UnderWay, Answers, Tidy
  <2> QED
    BY <1>1, <1>2, <1>4, <2>1, <2>2, FormStaysWhole
<1> QED
  BY <1>3, <1>4 DEF Actors

LEMMA FormsStayWhole ==
    ASSUME Tidy, Whole, BeginSignIn \/ BeginSignOut \/ RevokeOnly
    PROVE  Whole'
<1>1. CASE BeginSignIn
  <2>1. Admitted.held = NoToken /\ Admitted.got = NoToken /\ Admitted.pc = "admitted"
    BY DEF Admitted, NoTrip
  <2> QED
    BY <1>1, <2>1, FormStaysWhole DEF BeginSignIn
<1>2. CASE BeginSignOut \/ RevokeOnly
  <2>1. PICK t \in {Refused, WithCookies} : trip' = [trip EXCEPT ![SignOut] = t]
    BY <1>2 DEF BeginSignOut, RevokeOnly
  <2>2. t.held \in {NoToken, jar} /\ t.got = NoToken /\ t.pc \in {"refused", "sent"}
    BY DEF Refused, WithCookies, NoTrip
  <2>3. UnderWay(SignOut)'
    BY <2>1, <2>2, Distinct DEF UnderWay, AtTheApi, Answers, Tidy
  <2>4. \/ valid' = valid
        \/ UnderWay(SignOut) /\ valid' = (valid \ {trip[SignOut].held}) \cap InUse'
    BY <1>2 DEF BeginSignOut, RevokeOnly, UnderWay, AtTheApi
  <2>5. UNCHANGED <<jar, latch, signedIn, late, member, disturbed>>
    BY <1>2 DEF BeginSignOut, RevokeOnly
  <2> QED
    BY <2>1, <2>2, <2>3, <2>4, <2>5, FormStaysWhole
<1> QED
  BY <1>1, <1>2

LEMMA StepWhole == Tidy /\ Whole /\ [Next]_vars => Whole'
<1> SUFFICES ASSUME Tidy, Whole, [Next]_vars PROVE Whole'
  OBVIOUS
<1>1. ASSUME NEW c \in Calls, Send(c) \/ Answer(c) PROVE Whole'
  BY <1>1, CalmStaysWhole DEF Send, Answer
<1>2. ASSUME NEW c \in Calls, ReceiveCall(c) PROVE Whole'
  <2>1. PICK pc \in {"kept", "lost"} : trip' = [trip EXCEPT ![c] = [NoTrip EXCEPT !.pc = pc]]
    BY <1>2 DEF ReceiveCall, Settle
  <2>2. /\ [NoTrip EXCEPT !.pc = pc].pc = pc
        /\ [NoTrip EXCEPT !.pc = pc].held = NoToken /\ [NoTrip EXCEPT !.pc = pc].got = NoToken
    BY DEF NoTrip
  <2> QED
    BY <1>2, <2>1, <2>2, ReceiveStaysWhole, Distinct DEF ReceiveCall
<1>3. ASSUME NEW l \in Loads, ReceiveLoad(l) PROVE Whole'
  <2>1. NoTrip.pc = "idle" /\ NoTrip.held = NoToken /\ NoTrip.got = NoToken
    BY DEF NoTrip
  <2> QED
    BY <1>3, <2>1, ReceiveStaysWhole, Distinct DEF ReceiveLoad
<1>4. ASSUME NEW l \in Loads, Open(l) \/ Unreachable(l) \/ Enter(l) PROVE Whole'
  BY <1>4, CalmStaysWhole DEF Open, Unreachable, Enter
<1>5. CASE RemoveMember \/ \E n \in Tokens : Expire(n)
  BY <1>5, CalmStaysWhole DEF RemoveMember, Expire
<1>6. CASE UNCHANGED vars
  BY <1>6, CalmStaysWhole DEF vars
<1>7. ASSUME NEW a \in Rotators, RotationStep(a) PROVE Whole'
  BY <1>7, FindStaysWhole, RevokeStaysWhole, IssueStaysWhole DEF RotationStep
<1>8. CASE Issue(SignIn)
  BY <1>8, IssueStaysWhole
<1> QED
  BY <1>1, <1>2, <1>3, <1>4, <1>5, <1>6, <1>7, <1>8, UnauthorizedStaysWhole, RenderStaysWhole,
     FailuresStayWhole, FormsStayWhole, FormIsReceived, ReleaseStaysWhole, Distinct
     DEF Next, CallStep, LoadStep, SignInStep, SignOutStep

(***************************************************************************)
(* While documents do not rotate at the same time and no rotation fails,   *)
(* the cookies hold, whenever no request is under way, a pair that can be  *)
(* rotated or none, whatever calls share a refresh, whatever expires, and  *)
(* whenever the forms are sent (rotateSession, getSession).  If the last   *)
(* form was answered when nothing else was under way they are those of the *)
(* session: a member who signed in holds a pair, who signed out holds      *)
(* none.  It is not claimed of a form that a rotation outlasts, whose late *)
(* answer replaces the cookies.                                            *)
(***************************************************************************)
THEOREM CookiesAreTheSessions == Spec => []CookiesMatchSession
<1>1. Whole => CookiesMatchSession
  BY Distinct DEF Whole, Matched, AtRest, CookiesMatchSession
<1> QED
  BY <1>1, InitTidy, StepTidy, InitWhole, StepWhole, PTL DEF Spec
=============================================================================
