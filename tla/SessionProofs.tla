----------------------------- MODULE SessionProofs -----------------------------
(***************************************************************************)
(* Proofs about Session, for any tokens: the controller works for one      *)
(* sign-in, a sign-out removes everything, and the gate stays latched.     *)
(***************************************************************************)
EXTENDS Session, TLAPS

USE PlatformsAssumption, NoTokenAssumption, TokensAssumption DEF AllPlatforms

SessionTypes ==
    /\ platform \in AllPlatforms
    /\ {disk, auth, engine, starting} \subseteq Tokens \cup {NoToken}
    /\ live \cup pulls \cup calls \subseteq Tokens
    /\ waking \in {"no", "feed", "auth", "load", "start"}
    /\ wiping \in {"no", "feed", "keys", "done"}
    /\ waking = "start" => starting # NoToken

\* The controller's engine is for the sign-in it shows; away from the mobile app
\* the wake-up that starts it is the one that made it.
OneEngine ==
    /\ engine # NoToken => engine = auth
    /\ platform = "mobile" => asks = {}
    /\ platform # "mobile" =>
          /\ live \subseteq {engine}
          /\ waking = "auth" => engine = NoToken
          /\ waking \in {"load", "start"} => engine # NoToken
          /\ waking = "start" => starting = engine
          /\ step # "leaving"

\* A wipe finds nobody signed in, and what it has removed stays away but for what
\* was in flight when it came.
Wiped ==
    platform # "mobile" /\ wiping # "no" =>
        /\ disk = NoToken /\ engine = NoToken
        /\ live = {} /\ pulls \cup calls \subseteq flew
        /\ wiping \in {"keys", "done"} => feed \subseteq flew
        /\ wiping = "done" => keys \subseteq flew

\* Whoever shows the controller's state has it from the disk, but for a sign-in that
\* the popup has yet to tell the worker of, or never told.
Known ==
    /\ platform # "mobile" /\ waking \notin {"feed", "auth"} /\ auth = NoToken
       => disk = NoToken \/ saving = TRUE \/ untold = TRUE
    /\ ready => gate # "unset"
    /\ platform = "extension" /\ window => gate # "unset"
    /\ saving = TRUE => platform = "extension" /\ window

SessionInv == SessionTypes /\ OneEngine /\ Wiped /\ Known

\* Every client starts with an empty controller.
LEMMA SessionStart == SessionInit => SessionInv
<1> SUFFICES ASSUME SessionInit PROVE SessionInv
  OBVIOUS
<1>1. SessionTypes
  <2>1. (CHOOSE t \in Tokens : TRUE) \in Tokens
    BY Zenon
  <2>2. disk \in Tokens \cup {NoToken}
    BY DEF SessionInit
  <2> QED
    BY DEF SessionInit, SessionTypes
<1>2. OneEngine
  BY DEF SessionInit, OneEngine
<1>3. Wiped
  BY DEF SessionInit, Wiped
<1>4. Known
  BY DEF SessionInit, Known
<1> QED
  BY <1>1, <1>2, <1>3, <1>4 DEF SessionInv

\* Each action of the controller, of a page and of the server keeps the four parts.
LEMMA SessionStep == SessionInv /\ [SessionNext]_sessionVars => SessionInv'
<1> SUFFICES ASSUME SessionInv, [SessionNext]_sessionVars PROVE SessionInv'
  OBVIOUS
<1> USE DEF SessionInv, diskVars, ctrlVars, netVars, uiVars, histVars
<1>1. CASE WakeFeed
  <2>1. SessionTypes'
    BY <1>1 DEF WakeFeed, SessionTypes
  <2>2. OneEngine'
    BY <1>1 DEF WakeFeed, OneEngine
  <2>3. Wiped'
    BY <1>1 DEF WakeFeed, Wiped
  <2>4. Known'
    BY <1>1 DEF WakeFeed, OneEngine, Known
  <2> QED
    BY <2>1, <2>2, <2>3, <2>4
<1>2. CASE WakeAuth
  <2>1. SessionTypes'
    BY <1>2 DEF WakeAuth, SessionTypes
  <2>2. OneEngine'
    BY <1>2 DEF WakeAuth, SessionTypes, OneEngine
  <2>3. Wiped'
    BY <1>2 DEF WakeAuth, Wiped
  <2>4. Known'
    BY <1>2 DEF WakeAuth, Render, Latch, Known
  <2> QED
    BY <2>1, <2>2, <2>3, <2>4
<1>3. CASE WakeLoad
  <2>1. SessionTypes'
    BY <1>3 DEF WakeLoad, SessionTypes
  <2>2. OneEngine'
    BY <1>3 DEF WakeLoad, OneEngine
  <2>3. Wiped'
    BY <1>3 DEF WakeLoad, Wiped
  <2>4. Known'
    BY <1>3 DEF WakeLoad, Known
  <2> QED
    BY <2>1, <2>2, <2>3, <2>4
<1>4. CASE WakeStart
  <2>1. SessionTypes'
    BY <1>4 DEF WakeStart, SessionTypes
  <2>2. OneEngine'
    BY <1>4 DEF WakeStart, OneEngine
  <2>3. Wiped'
    BY <1>4 DEF WakeStart, OneEngine, Wiped
  <2>4. Known'
    BY <1>4 DEF WakeStart, Known
  <2> QED
    BY <2>1, <2>2, <2>3, <2>4
<1>5. CASE Background
  <2>1. SessionTypes'
    BY <1>5 DEF Background, Drop, SessionTypes
  <2>2. OneEngine'
    BY <1>5 DEF Background, Drop, OneEngine
  <2>3. Wiped'
    BY <1>5 DEF Background, Wiped
  <2>4. Known'
    BY <1>5 DEF Background, Known
  <2> QED
    BY <2>1, <2>2, <2>3, <2>4
<1>6. CASE Foreground
  <2>1. SessionTypes'
    BY <1>6 DEF Foreground, StartWake, SessionTypes
  <2>2. OneEngine'
    BY <1>6 DEF Foreground, OneEngine
  <2>3. Wiped'
    BY <1>6 DEF Foreground, Wiped
  <2>4. Known'
    BY <1>6 DEF Foreground, Known
  <2> QED
    BY <2>1, <2>2, <2>3, <2>4
<1>7. CASE Tick
  <2>1. SessionTypes'
    BY <1>7 DEF Tick, StartWake, SessionTypes
  <2>2. OneEngine'
    BY <1>7 DEF Tick, StartWake, OneEngine
  <2>3. Wiped'
    BY <1>7 DEF Tick, Wiped
  <2>4. Known'
    BY <1>7 DEF Tick, Known
  <2> QED
    BY <2>1, <2>2, <2>3, <2>4
<1>8. CASE Kill
  <2>1. SessionTypes'
    BY <1>8 DEF Kill, SessionTypes
  <2>2. OneEngine'
    BY <1>8 DEF Kill, OneEngine
  <2>3. Wiped'
    BY <1>8 DEF Kill, Wiped
  <2>4. Known'
    BY <1>8 DEF Kill, Known
  <2> QED
    BY <2>1, <2>2, <2>3, <2>4
<1>9. ASSUME NEW r \in {"refresh", "sign_out"}, Ask(r) PROVE SessionInv'
  <2>1. SessionTypes'
    BY <1>9 DEF Ask, StartWake, SessionTypes
  <2>2. OneEngine'
    BY <1>9 DEF Ask, StartWake, OneEngine
  <2>3. Wiped'
    BY <1>9 DEF Ask, Wiped
  <2>4. Known'
    BY <1>9 DEF Ask, StartWake, Known
  <2> QED
    BY <2>1, <2>2, <2>3, <2>4
<1>10. CASE Refresh
  <2>1. SessionTypes'
    BY <1>10 DEF Refresh, SessionTypes
  <2>2. OneEngine'
    BY <1>10 DEF Refresh, Snapshot, Render, OneEngine
  <2>3. Wiped'
    BY <1>10 DEF Refresh, Wiped
  <2>4. Known'
    BY <1>10 DEF Refresh, Snapshot, Render, Latch, Known
  <2> QED
    BY <2>1, <2>2, <2>3, <2>4
<1>11. CASE SignOut
  <2>1. SessionTypes'
    BY <1>11 DEF SignOut, Drop, SessionTypes
  <2>2. OneEngine'
    BY <1>11 DEF SignOut, Drop, OneEngine
  <2>3. Wiped'
    BY <1>11 DEF SignOut, Drop, OneEngine, Wiped
  <2>4. Known'
    BY <1>11 DEF SignOut, Known
  <2> QED
    BY <2>1, <2>2, <2>3, <2>4
<1>12. CASE WipeFeed
  <2>1. SessionTypes'
    BY <1>12 DEF WipeFeed, SessionTypes
  <2>2. OneEngine'
    BY <1>12 DEF WipeFeed, OneEngine
  <2>3. Wiped'
    BY <1>12 DEF WipeFeed, Wiped
  <2>4. Known'
    BY <1>12 DEF WipeFeed, Known
  <2> QED
    BY <2>1, <2>2, <2>3, <2>4
<1>13. CASE WipeKeys
  <2>1. SessionTypes'
    BY <1>13 DEF WipeKeys, SessionTypes
  <2>2. OneEngine'
    BY <1>13 DEF WipeKeys, Snapshot, Render, OneEngine
  <2>3. Wiped'
    BY <1>13 DEF WipeKeys, Wiped
  <2>4. Known'
    BY <1>13 DEF WipeKeys, Snapshot, Render, Latch, Known
  <2> QED
    BY <2>1, <2>2, <2>3, <2>4
<1>14. CASE RemoveKeys
  <2>1. SessionTypes'
    BY <1>14 DEF RemoveKeys, SessionTypes
  <2>2. OneEngine'
    BY <1>14 DEF RemoveKeys, OneEngine
  <2>3. Wiped'
    BY <1>14 DEF RemoveKeys, Wiped
  <2>4. Known'
    BY <1>14 DEF RemoveKeys, Known
  <2> QED
    BY <2>1, <2>2, <2>3, <2>4
<1>15. CASE OpenPopup
  <2>1. SessionTypes'
    BY <1>15 DEF OpenPopup, StartWake, SessionTypes
  <2>2. OneEngine'
    BY <1>15 DEF OpenPopup, StartWake, Snapshot, Render, OneEngine
  <2>3. Wiped'
    BY <1>15 DEF OpenPopup, Wiped
  <2>4. Known'
    BY <1>15 DEF OpenPopup, Snapshot, Render, Latch, Known
  <2> QED
    BY <2>1, <2>2, <2>3, <2>4
<1>16. CASE ClosePopup
  <2>1. SessionTypes'
    BY <1>16 DEF ClosePopup, SessionTypes
  <2>2. OneEngine'
    BY <1>16 DEF ClosePopup, OneEngine
  <2>3. Wiped'
    BY <1>16 DEF ClosePopup, Wiped
  <2>4. Known'
    BY <1>16 DEF ClosePopup, Known
  <2> QED
    BY <2>1, <2>2, <2>3, <2>4
<1>17. CASE ServerFound
  <2>1. SessionTypes'
    BY <1>17 DEF ServerFound, SessionTypes
  <2>2. OneEngine'
    BY <1>17 DEF ServerFound, OneEngine
  <2>3. Wiped'
    BY <1>17 DEF ServerFound, Wiped
  <2>4. Known'
    BY <1>17 DEF ServerFound, Known
  <2> QED
    BY <2>1, <2>2, <2>3, <2>4
<1>18. ASSUME NEW t \in Tokens, SignIn(t) PROVE SessionInv'
  <2>1. SessionTypes'
    BY <1>18 DEF SignIn, SessionTypes
  <2>2. OneEngine'
    BY <1>18 DEF SignIn, OneEngine
  <2>3. Wiped'
    BY <1>18 DEF SignIn, Wiped
  <2>4. Known'
    BY <1>18 DEF SignIn, Onboarding, SessionTypes, OneEngine, Known
  <2> QED
    BY <2>1, <2>2, <2>3, <2>4
<1>19. CASE Answered
  <2>1. SessionTypes'
    BY <1>19 DEF Answered, SessionTypes
  <2>2. OneEngine'
    BY <1>19 DEF Answered, OneEngine
  <2>3. Wiped'
    BY <1>19 DEF Answered, Wiped
  <2>4. Known'
    BY <1>19 DEF Answered, Known
  <2> QED
    BY <2>1, <2>2, <2>3, <2>4
<1>20. CASE Complete
  <2>1. SessionTypes'
    BY <1>20 DEF Complete, StartWake, SessionTypes
  <2>2. OneEngine'
    BY <1>20 DEF Complete, StartWake, OneEngine
  <2>3. Wiped'
    BY <1>20 DEF Complete, Wiped
  <2>4. Known'
    BY <1>20 DEF Complete, StartWake, Known
  <2> QED
    BY <2>1, <2>2, <2>3, <2>4
<1>21. CASE OnSignedIn
  <2>1. SessionTypes'
    BY <1>21 DEF OnSignedIn, Drop, StartWake, SessionTypes
  <2>2. OneEngine'
    BY <1>21 DEF OnSignedIn, Drop, OneEngine
  <2>3. Wiped'
    BY <1>21 DEF OnSignedIn, OneEngine, Wiped
  <2>4. Known'
    BY <1>21 DEF OnSignedIn, Known
  <2> QED
    BY <2>1, <2>2, <2>3, <2>4
<1>22. ASSUME NEW t \in Tokens, RevokeSession(t) PROVE SessionInv'
  <2>1. SessionTypes'
    BY <1>22 DEF RevokeSession, SessionTypes
  <2>2. OneEngine'
    BY <1>22 DEF RevokeSession, OneEngine
  <2>3. Wiped'
    BY <1>22 DEF RevokeSession, Wiped
  <2>4. Known'
    BY <1>22 DEF RevokeSession, Known
  <2> QED
    BY <2>1, <2>2, <2>3, <2>4
<1>23. ASSUME NEW t \in Tokens, Pull(t) PROVE SessionInv'
  <2>1. SessionTypes'
    BY <1>23 DEF Pull, SessionTypes
  <2>2. OneEngine'
    BY <1>23 DEF Pull, OneEngine
  <2>3. Wiped'
    BY <1>23 DEF Pull, Wiped
  <2>4. Known'
    BY <1>23 DEF Pull, Known
  <2> QED
    BY <2>1, <2>2, <2>3, <2>4
<1>24. ASSUME NEW t \in Tokens, PullEnds(t) PROVE SessionInv'
  <2>1. SessionTypes'
    BY <1>24 DEF PullEnds, SessionTypes
  <2>2. OneEngine'
    BY <1>24 DEF PullEnds, AskAgain, Render, OneEngine
  <2>3. Wiped'
    BY <1>24 DEF PullEnds, Wiped
  <2>4. Known'
    BY <1>24 DEF PullEnds, AskAgain, Render, Latch, Known
  <2> QED
    BY <2>1, <2>2, <2>3, <2>4
<1>25. ASSUME NEW t \in Tokens, CallEnds(t) PROVE SessionInv'
  <2>1. SessionTypes'
    BY <1>25 DEF CallEnds, SessionTypes
  <2>2. OneEngine'
    BY <1>25 DEF CallEnds, AskAgain, Render, OneEngine
  <2>3. Wiped'
    BY <1>25 DEF CallEnds, Wiped
  <2>4. Known'
    BY <1>25 DEF CallEnds, AskAgain, Render, Latch, Known
  <2> QED
    BY <2>1, <2>2, <2>3, <2>4
<1>27. CASE TellWorker
  <2>1. SessionTypes'
    BY <1>27 DEF TellWorker, StartWake, SessionTypes
  <2>2. OneEngine'
    BY <1>27 DEF TellWorker, StartWake, OneEngine, Known
  <2>3. Wiped'
    BY <1>27 DEF TellWorker, Wiped
  <2>4. Known'
    BY <1>27 DEF TellWorker, StartWake, SessionTypes, OneEngine, Known
  <2> QED
    BY <2>1, <2>2, <2>3, <2>4
<1>28. CASE Call
  <2>1. SessionTypes'
    BY <1>28 DEF Call, SessionTypes
  <2>2. OneEngine'
    BY <1>28 DEF Call, OneEngine
  <2>3. Wiped'
    BY <1>28 DEF Call, Wiped
  <2>4. Known'
    BY <1>28 DEF Call, Known
  <2> QED
    BY <2>1, <2>2, <2>3, <2>4
<1>26. CASE UNCHANGED sessionVars
  BY <1>26 DEF sessionVars, SessionTypes, OneEngine, Wiped, Known
<1> QED
  BY <1>1, <1>2, <1>3, <1>4, <1>5, <1>6, <1>7, <1>8, <1>9, <1>10, <1>11, <1>12, <1>13, <1>14,
     <1>15, <1>16, <1>17, <1>18, <1>19, <1>20, <1>21, <1>22, <1>23, <1>24, <1>25, <1>26,
     <1>27, <1>28
     DEF SessionNext, Waking

\* OneSession of Session: for any number of sign-ins, the engine at work is the
\* one of the auth the controller holds.
THEOREM OneSessionHolds == SessionSpec => []OneSession
<1>1. SessionInv => OneSession
  BY DEF SessionInv, OneEngine, OneSession
<1> QED
  BY <1>1, SessionStart, SessionStep, PTL DEF SessionSpec

\* WipedClean of Session: after a sign-out nothing runs and nothing is left of any
\* account, but what pulls and calls that were in flight write.
THEOREM WipeHolds == SessionSpec => []WipedClean
<1>1. SessionInv => WipedClean
  BY DEF SessionInv, Wiped, WipedClean
<1> QED
  BY <1>1, SessionStart, SessionStep, PTL DEF SessionSpec

\* A page leaves onboarding by its last step only, and does not show it first to a
\* user who is signed in, unless the worker was not told.
LEMMA GateStep ==
    SessionInv /\ [SessionNext]_sessionVars
    => /\ [gate = "onboarding" /\ gate' = "app" => step = "appearance"]_sessionVars
       /\ [gate = "unset" /\ gate' = "onboarding" => disk = NoToken \/ untold]_sessionVars
<1> SUFFICES ASSUME SessionInv, SessionNext
             PROVE  /\ gate = "onboarding" /\ gate' = "app" => step = "appearance"
                    /\ gate = "unset" /\ gate' = "onboarding" => disk = NoToken \/ untold
  OBVIOUS
<1> DEFINE Gate == /\ gate = "onboarding" /\ gate' = "app" => step = "appearance"
                   /\ gate = "unset" /\ gate' = "onboarding" => disk = NoToken \/ untold
<1> SUFFICES Gate
  OBVIOUS
<1>1. CASE WakeAuth
  BY <1>1 DEF WakeAuth, Render, Latch
<1>2. CASE Refresh
  BY <1>2 DEF Refresh, Snapshot, Render, Latch, SessionInv, OneEngine, Known
<1>3. CASE WipeKeys
  BY <1>3 DEF WipeKeys, Snapshot, Render, Latch, SessionInv, Wiped
<1>4. CASE OpenPopup
  BY <1>4 DEF OpenPopup, Snapshot, Render, Latch, SessionInv, Known
<1>5. ASSUME NEW t \in Tokens, PullEnds(t) PROVE Gate
  BY <1>5 DEF PullEnds, AskAgain, Render, Latch, SessionInv, Known
<1>6. ASSUME NEW t \in Tokens, CallEnds(t) PROVE Gate
  BY <1>6 DEF CallEnds, AskAgain, Render, Latch, SessionInv, Known
<1>7. CASE Complete \/ ClosePopup
  BY <1>7 DEF Complete, ClosePopup
<1>8. CASE WakeFeed \/ WakeLoad \/ WakeStart \/ Background \/ Foreground \/ Tick \/ Kill
  BY <1>8 DEF WakeFeed, WakeLoad, WakeStart, Background, Foreground, Tick, Kill, uiVars
<1>9. CASE (\E r \in {"refresh", "sign_out"} : Ask(r)) \/ SignOut \/ WipeFeed \/ RemoveKeys
  BY <1>9 DEF Ask, SignOut, WipeFeed, RemoveKeys, uiVars
<1>10. CASE ServerFound \/ TellWorker \/ Answered \/ OnSignedIn \/ Call
  BY <1>10 DEF ServerFound, TellWorker, Answered, OnSignedIn, Call, uiVars
<1>11. CASE \E t \in Tokens : SignIn(t) \/ RevokeSession(t) \/ Pull(t)
  BY <1>11 DEF SignIn, RevokeSession, Pull, uiVars
<1> HIDE DEF Gate
<1> QED
  BY <1>1, <1>2, <1>3, <1>4, <1>5, <1>6, <1>7, <1>8, <1>9, <1>10, <1>11
     DEF SessionNext, Waking

\* LatchedGate of Session.
THEOREM GateHolds == SessionSpec => LatchedGate
<1> QED
  BY GateStep, SessionStart, SessionStep, PTL DEF SessionSpec, LatchedGate

\* NoOnboardingFlash of Session.
THEOREM NoFlashHolds == SessionSpec => NoOnboardingFlash
<1> QED
  BY GateStep, SessionStart, SessionStep, PTL DEF SessionSpec, NoOnboardingFlash
================================================================================
