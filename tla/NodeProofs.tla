----------------------------- MODULE NodeProofs -----------------------------
(***************************************************************************)
(* Proofs about Node, for every length of the two trials, of the delay and *)
(* of the spacing of announces, and with every interleaving of requests,   *)
(* restarts, links that flap and signatures that fail: an image whose chip *)
(* signs over a link that holds is confirmed in time.                      *)
(***************************************************************************)
EXTENDS Node, TLAPS

TrialFlags ==
    /\ prev \in BOOLEAN /\ otaThisBoot \in BOOLEAN
    /\ ipStatic \in BOOLEAN /\ address \in BOOLEAN /\ ipThisBoot \in BOOLEAN
    /\ otaRebootAt \in BOOLEAN /\ rebootAt \in BOOLEAN

LinkFlags ==
    /\ se050 \in BOOLEAN /\ connected \in BOOLEAN
    /\ announcePending \in BOOLEAN /\ announcedOnce \in BOOLEAN
    /\ right \in BOOLEAN /\ signing \in BOOLEAN /\ outlasted \in BOOLEAN

Flags == TrialFlags /\ LinkFlags

Setup == {"off", "settings.begin", "eth.begin"}
Pass == {"eth.loop", "ota.loop", "http.loop", "settings.loop", "confirm", "announce"}

Names ==
    /\ at \in Setup \cup Pass
    /\ ota \in {"none", "pending", "confirmed", "rolledback", "failed"}
    /\ ipTrial \in {"none", "pending", "reverted"}
    /\ source \in {"none", "dhcp", "static", "fallback"}

Trials ==
    /\ otaBoots \in 0..(OtaBoots + 1) /\ ipBoots \in 0..IpBoots /\ requests \in 0..MaxRequests
    /\ ota = "pending" => otaBoots <= OtaBoots

Times ==
    /\ uptime \in 0..MaxUptime /\ onlineSince \in 0..MaxUptime /\ lastAnnounce \in 0..MaxUptime
    /\ healthy \in 0..Enough

\* Healthy passes that have come to their announce, and the time of the last pass that has.
Done == IF at = "eth.loop" \/ healthy = 0 THEN healthy ELSE healthy - 1
Now == IF at = "eth.loop" \/ uptime = 0 THEN uptime ELSE uptime - 1

\* Nothing of a boot before its first pass; a link and announces no later than the last pass.
Clock ==
    /\ at \in Setup => uptime = 0 /\ onlineSince = 0 /\ lastAnnounce = 0 /\ healthy = 0
    /\ at \in Pass \ {"eth.loop"} => uptime > 0
    /\ onlineSince <= Now /\ lastAnnounce <= Now

\* The link was seen in the first of the healthy passes, or before it.
Online == Done > 0 => onlineSince > 0 /\ onlineSince + Done <= Now + 1

\* What holds back an announce that was not made in any of them.
Held ==
    Done > 0 /\ ~announcedOnce =>
        /\ lastAnnounce > 0 => lastAnnounce + Done <= Now
        /\ Now < onlineSince + LinkDelay \/ (lastAnnounce > 0 /\ Now < lastAnnounce + Retry)

Steady ==
    /\ healthy > 0 => connected /\ signing
    /\ at \in Pass => announcePending \/ announcedOnce
    /\ at = "announce" /\ se050 /\ ota = "pending" /\ otaThisBoot => ~announcedOnce

IInv == Flags /\ Names /\ Trials /\ Times /\ Clock /\ Online /\ Held /\ Steady /\ GoodImageConfirmed

LEMMA TypeParts == Flags /\ Names /\ Trials /\ Times => TypeOK
<1> SUFFICES ASSUME Flags, Names, Trials, Times PROVE TypeOK OBVIOUS
<1>1. at \in {"off", "settings.begin", "eth.begin", "eth.loop", "ota.loop", "http.loop", "settings.loop",
              "confirm", "announce"}
  BY SMT DEF Names, Setup, Pass
<1> QED BY <1>1, Zenon DEF Flags, TrialFlags, LinkFlags, Names, Trials, Times, TypeOK

LEMMA EnoughType == Enough \in Nat /\ Enough >= LinkDelay + 2 /\ Enough >= Retry + 1
  BY NodeAssumption, SMT DEF NodeAssumption, Enough

\* An announce held back through the healthy passes was not held back in enough of them.
LEMMA HeldIsShort ==
  ASSUME Times, Clock, Online, Held, ~announcedOnce
  PROVE  Done + 2 <= Enough
<1> USE NodeAssumption, EnoughType DEF NodeAssumption
<1>1. Done \in Nat /\ Now \in Nat
  BY SMT DEF Times, Done, Now
<1>2. CASE Done = 0
  BY <1>2, SMT
<1>3. CASE Done > 0
  <2>1. onlineSince + Done <= Now + 1
    BY <1>3 DEF Online
  <2>2. lastAnnounce > 0 => lastAnnounce + Done <= Now
    BY <1>3 DEF Held
  <2>3. Now < onlineSince + LinkDelay \/ (lastAnnounce > 0 /\ Now < lastAnnounce + Retry)
    BY <1>3 DEF Held
  <2> QED BY <1>1, <2>1, <2>2, <2>3, SMT DEF Times
<1> QED BY <1>1, <1>2, <1>3, SMT

LEMMA FlagsKept ==
  ASSUME Flags, UNCHANGED <<prev, otaThisBoot, ipStatic, address, ipThisBoot, otaRebootAt, rebootAt, se050,
                            connected, announcePending, announcedOnce, right, signing, outlasted>>
  PROVE  Flags'
<1>1. TrialFlags'
  BY Zenon DEF Flags, TrialFlags
<1>2. LinkFlags'
  BY Zenon DEF Flags, LinkFlags
<1> QED BY <1>1, <1>2 DEF Flags

-----------------------------------------------------------------------------
(* What a reset leaves *)

LEMMA InitStep == Init => IInv
<1> SUFFICES ASSUME Init PROVE IInv OBVIOUS
<1> USE NodeAssumption, EnoughType DEF NodeAssumption
<1>1. Flags
  <2>1. TrialFlags
    BY Zenon DEF Init, TrialFlags
  <2>2. LinkFlags
    BY Zenon DEF Init, LinkFlags
  <2> QED BY <2>1, <2>2 DEF Flags
<1>2. Names
  BY SMT DEF Init, Names, Setup, Pass
<1>3. Trials /\ Times
  BY SMT DEF Init, Trials, Times
<1>4. Clock /\ Online /\ Held
  BY SMT DEF Init, Clock, Online, Held, Done, Now, Setup, Pass
<1>5. Steady /\ GoodImageConfirmed
  BY SMT DEF Init, Steady, GoodImageConfirmed, Pass
<1> QED BY <1>1, <1>2, <1>3, <1>4, <1>5 DEF IInv

\* After a reset only what was saved is left to be shown.
LEMMA VolatileStep ==
  ASSUME IInv, Volatile, outlasted' \in BOOLEAN, UNCHANGED rest,
         prev' \in BOOLEAN, ipStatic' \in BOOLEAN, address' \in BOOLEAN,
         ota' \in {"none", "pending", "confirmed", "rolledback", "failed"},
         ipTrial' \in {"none", "pending", "reverted"},
         Trials'
  PROVE  IInv'
<1> USE NodeAssumption, EnoughType DEF NodeAssumption
<1>1. Flags'
  <2>1. TrialFlags'
    BY Zenon DEF IInv, Flags, Volatile, rest, TrialFlags
  <2>2. LinkFlags'
    BY Zenon DEF IInv, Flags, Volatile, rest, LinkFlags
  <2> QED BY <2>1, <2>2 DEF Flags
<1>2. Names'
  BY SMT DEF Names, Setup, Pass, Volatile
<1>3. Times'
  BY SMT DEF Times, Volatile, Enough
<1>4. Clock' /\ Online' /\ Held'
  BY SMT DEF Volatile, Clock, Online, Held, Done, Now, Setup, Pass
<1>5. Steady' /\ GoodImageConfirmed'
  BY SMT DEF Volatile, Steady, GoodImageConfirmed, Pass
<1> QED BY <1>1, <1>2, <1>3, <1>4, <1>5 DEF IInv

LEMMA RestartStep == IInv /\ Restart => IInv'
<1> SUFFICES ASSUME IInv, Restart PROVE IInv' OBVIOUS
<1>1. Trials'
  BY Zenon DEF IInv, Trials, Restart, saved, rest
<1> QED BY <1>1, VolatileStep, Zenon DEF IInv, Flags, TrialFlags, LinkFlags, Names, Restart, saved

-----------------------------------------------------------------------------
(* setup() *)

\* Setup goes on, or comes to the first pass.
LEMMA SetupStep ==
  ASSUME IInv, at \in Setup, at' \in Setup \cup {"eth.loop"},
         UNCHANGED <<uptime, onlineSince, lastAnnounce, healthy>>,
         at' = "eth.loop" => announcePending' = TRUE
  PROVE  Times' /\ Clock' /\ Online' /\ Held' /\ Steady' /\ GoodImageConfirmed'
<1> USE NodeAssumption, EnoughType DEF NodeAssumption
<1>1. uptime' = 0 /\ onlineSince' = 0 /\ lastAnnounce' = 0 /\ healthy' = 0
  BY Zenon DEF IInv, Clock
<1>2. Times'
  BY <1>1, SMT DEF Times, Enough
<1>3. Clock' /\ Online' /\ Held'
  BY <1>1, SMT DEF Clock, Online, Held, Done, Now, Setup, Pass
<1>4. healthy' > 0 => connected' /\ signing'
  BY <1>1, SMT
<1>5. at' \in Pass => at' = "eth.loop"
  BY SMT DEF Setup, Pass
<1>6. at' # "announce"
  BY SMT DEF Setup
<1>7. Steady'
  BY <1>4, <1>5, <1>6, Zenon DEF Steady
<1>8. GoodImageConfirmed'
  BY <1>1, SMT DEF GoodImageConfirmed
<1> QED BY <1>2, <1>3, <1>7, <1>8

LEMMA OtaBeginStep == IInv /\ OtaBegin => IInv'
<1> SUFFICES ASSUME IInv, OtaBegin PROVE IInv' OBVIOUS
<1> USE NodeAssumption DEF NodeAssumption
<1>1. at = "off" /\ at' \in {"off", "settings.begin"}
  BY SMT DEF OtaBegin
<1>2. UNCHANGED <<uptime, onlineSince, lastAnnounce, healthy>>
  BY Zenon DEF OtaBegin, announce, link
<1>3. Times' /\ Clock' /\ Online' /\ Held' /\ Steady' /\ GoodImageConfirmed'
  <2>1. at \in Setup /\ at' \in Setup \cup {"eth.loop"} /\ at' # "eth.loop"
    BY <1>1, SMT DEF Setup
  <2> QED BY <1>2, <2>1, SetupStep, Zenon
<1>4. Flags'
  <2>1. prev' \in BOOLEAN /\ otaThisBoot' \in BOOLEAN
    BY Zenon DEF IInv, Flags, TrialFlags, OtaBegin, otaVars
  <2>2. UNCHANGED <<ipStatic, address, ipThisBoot, otaRebootAt, rebootAt, se050, connected,
                    announcePending, announcedOnce, right, signing>> /\ outlasted' = FALSE
    BY Zenon DEF OtaBegin, ipVars, announce, link, rest
  <2>3. TrialFlags'
    BY <2>1, <2>2, Zenon DEF IInv, Flags, TrialFlags
  <2>4. LinkFlags'
    BY <2>1, <2>2, Zenon DEF IInv, Flags, LinkFlags
  <2> QED BY <2>3, <2>4 DEF Flags
<1>5. Names'
  <2>1. ota' \in {"none", "pending", "confirmed", "rolledback", "failed"}
    BY SMT DEF IInv, Names, OtaBegin, otaVars
  <2>2. UNCHANGED <<ipTrial, source>>
    BY Zenon DEF OtaBegin, ipVars, link
  <2> QED BY <1>1, <2>1, <2>2, SMT DEF IInv, Names, Setup
<1>6. Trials'
  BY SMT DEF IInv, Trials, OtaBegin, OtaCount, otaVars, ipVars, rest
<1> QED BY <1>3, <1>4, <1>5, <1>6 DEF IInv

\* revertIpToDhcp() and the reset that follows it.
LEMMA RevertStep ==
  ASSUME IInv, RevertIpToDhcp, Volatile, UNCHANGED <<ota, otaBoots, prev, address, outlasted, rest>>
  PROVE  IInv'
<1> USE NodeAssumption DEF NodeAssumption
<1>1. Trials'
  BY SMT DEF IInv, Trials, RevertIpToDhcp, rest
<1>2. outlasted' \in BOOLEAN /\ prev' \in BOOLEAN /\ ipStatic' \in BOOLEAN /\ address' \in BOOLEAN
  BY Zenon DEF IInv, Flags, TrialFlags, LinkFlags, RevertIpToDhcp
<1>3. ota' \in {"none", "pending", "confirmed", "rolledback", "failed"} /\ ipTrial' = "reverted"
  BY Zenon DEF IInv, Names, RevertIpToDhcp
<1> QED BY <1>1, <1>2, <1>3, VolatileStep, Zenon

LEMMA SettingsBeginStep == IInv /\ SettingsBegin => IInv'
<1> SUFFICES ASSUME IInv, SettingsBegin PROVE IInv' OBVIOUS
<1> USE NodeAssumption DEF NodeAssumption
<1>1. CASE ipTrial = "pending" /\ ~IpBootsLeft
  BY <1>1, RevertStep, Zenon DEF SettingsBegin
<1>2. CASE ~(ipTrial = "pending" /\ ~IpBootsLeft)
  <2>1. at = "settings.begin" /\ at' = "eth.begin"
    BY <1>2, Zenon DEF SettingsBegin
  <2>2. UNCHANGED <<uptime, onlineSince, lastAnnounce, healthy>>
    BY <1>2, Zenon DEF SettingsBegin, announce, link
  <2>3. Times' /\ Clock' /\ Online' /\ Held' /\ Steady' /\ GoodImageConfirmed'
    <3>1. at \in Setup /\ at' \in Setup \cup {"eth.loop"} /\ at' # "eth.loop"
      BY <2>1, SMT DEF Setup
    <3> QED BY <2>2, <3>1, SetupStep, Zenon
  <2>4. Flags'
    <3>1. ipThisBoot' \in BOOLEAN
      BY <1>2, Zenon DEF IInv, Flags, TrialFlags, SettingsBegin, ipVars
    <3>2. UNCHANGED <<prev, otaThisBoot, ipStatic, address, otaRebootAt, rebootAt, se050, connected,
                      announcePending, announcedOnce, right, signing, outlasted>>
      BY <1>2, Zenon DEF SettingsBegin, otaVars, ipVars, announce, link, rest
    <3>3. TrialFlags'
      BY <3>1, <3>2, Zenon DEF IInv, Flags, TrialFlags
    <3>4. LinkFlags'
      BY <3>1, <3>2, Zenon DEF IInv, Flags, LinkFlags
    <3> QED BY <3>3, <3>4 DEF Flags
  <2>5. Names'
    <3>1. UNCHANGED <<ota, ipTrial, source>>
      BY <1>2, Zenon DEF SettingsBegin, otaVars, ipVars, link
    <3> QED BY <2>1, <3>1, SMT DEF IInv, Names, Setup
  <2>6. Trials'
    <3>1. UNCHANGED <<ota, otaBoots, requests>>
      BY <1>2, Zenon DEF SettingsBegin, otaVars, rest
    <3>2. ipBoots' = ipBoots \/ (ipBoots' = ipBoots + 1 /\ IpBootsLeft)
      BY <1>2, Zenon DEF SettingsBegin, ipVars
    <3> QED BY <3>1, <3>2, SMT DEF IInv, Trials, IpBootsLeft
  <2> QED BY <2>3, <2>4, <2>5, <2>6 DEF IInv
<1> QED BY <1>1, <1>2

LEMMA BringUpStep == IInv /\ BringUp => IInv'
<1> SUFFICES ASSUME IInv, BringUp PROVE IInv' OBVIOUS
<1>1. at = "eth.begin" /\ at' = "eth.loop" /\ announcePending' = TRUE
  BY Zenon DEF BringUp
<1>2. Times' /\ Clock' /\ Online' /\ Held' /\ Steady' /\ GoodImageConfirmed'
  <2>1. at \in Setup /\ at' \in Setup \cup {"eth.loop"}
    BY <1>1, SMT DEF Setup
  <2>2. UNCHANGED <<uptime, onlineSince, lastAnnounce, healthy>>
    BY Zenon DEF BringUp
  <2> QED BY <1>1, <2>1, <2>2, SetupStep, Zenon
<1>3. Flags'
  <2>1. TrialFlags'
    BY <1>1, Zenon DEF IInv, Flags, BringUp, otaVars, ipVars, rest, TrialFlags
  <2>2. LinkFlags'
    BY <1>1, Zenon DEF IInv, Flags, BringUp, otaVars, ipVars, rest, LinkFlags
  <2> QED BY <2>1, <2>2 DEF Flags
<1>4. Names'
  <2>1. source' \in {"none", "dhcp", "static", "fallback"}
    BY SMT DEF BringUp, Sources
  <2>2. UNCHANGED <<ota, ipTrial>>
    BY Zenon DEF BringUp, otaVars, ipVars
  <2> QED BY <1>1, <2>1, <2>2, SMT DEF IInv, Names, Pass
<1>5. Trials'
  BY Zenon DEF IInv, Trials, BringUp, otaVars, ipVars, rest
<1> QED BY <1>2, <1>3, <1>4, <1>5 DEF IInv

-----------------------------------------------------------------------------
(* loop() *)

\* A call of the pass that neither looks at the link nor announces.
LEMMA PassStep ==
  ASSUME IInv, at \in Pass \ {"eth.loop"}, at' \in Pass \ {"eth.loop"},
         UNCHANGED <<uptime, announce, link>>,
         at' = "announce" /\ se050' /\ ota' = "pending" /\ otaThisBoot' => ~announcedOnce'
  PROVE  Times' /\ Clock' /\ Online' /\ Held' /\ Steady' /\ GoodImageConfirmed'
<1>1. at # "eth.loop" /\ at' # "eth.loop"
  BY Zenon
<1>2. UNCHANGED <<uptime, onlineSince, lastAnnounce, healthy, announcePending, announcedOnce, connected, signing>>
  BY Zenon DEF announce, link
<1>3. Done' = Done /\ Now' = Now
  BY <1>1, <1>2, SMT DEF Done, Now
<1>4. Times'
  BY <1>2, Zenon DEF IInv, Times, Enough
<1>5. Clock'
  <2>1. uptime > 0
    BY Zenon DEF IInv, Clock
  <2>2. at' \notin Setup
    BY SMT DEF Setup, Pass
  <2> QED BY <1>2, <1>3, <2>1, <2>2, Zenon DEF IInv, Clock
<1>6. Online' /\ Held'
  BY <1>2, <1>3, Zenon DEF IInv, Online, Held
<1>7. Steady'
  BY <1>2, Zenon DEF IInv, Steady
<1>8. GoodImageConfirmed'
  BY <1>1, Zenon DEF GoodImageConfirmed
<1> QED BY <1>4, <1>5, <1>6, <1>7, <1>8

\* What was said of more healthy passes holds of fewer.
LEMMA OnlineStays ==
  ASSUME NEW d \in Nat, NEW less \in Nat, less <= d, NEW since \in Nat, NEW now \in Nat,
         d > 0 => since > 0 /\ since + d <= now + 1
  PROVE  less > 0 => since > 0 /\ since + less <= now + 1
  BY SMT

LEMMA HeldStays ==
  ASSUME NEW d \in Nat, NEW less \in Nat, less <= d, NEW since \in Nat, NEW tried \in Nat, NEW now \in Nat,
         /\ tried > 0 => tried + d <= now
         /\ now < since + LinkDelay \/ (tried > 0 /\ now < tried + Retry)
  PROVE  /\ tried > 0 => tried + less <= now
         /\ now < since + LinkDelay \/ (tried > 0 /\ now < tried + Retry)
  BY SMT

LEMMA EthLoopStep == IInv /\ EthLoop => IInv'
<1> SUFFICES ASSUME IInv, EthLoop PROVE IInv' OBVIOUS
<1> USE NodeAssumption, EnoughType DEF NodeAssumption
<1>1. at = "eth.loop" /\ at' = "ota.loop" /\ uptime < MaxUptime /\ uptime' = uptime + 1
  BY Zenon DEF EthLoop
<1>2. UNCHANGED <<onlineSince, lastAnnounce, announcePending, announcedOnce>>
  BY Zenon DEF EthLoop, announce
<1>3. connected' \in BOOLEAN /\ signing' \in BOOLEAN
  BY Zenon DEF EthLoop
<1>4. healthy' = 0 \/ (healthy < Enough /\ healthy' = healthy + 1) \/ (healthy = Enough /\ healthy' = healthy)
  BY SMT DEF EthLoop, IInv, Times
<1>5. healthy' > 0 => connected' /\ signing'
  <2>1. ~(0 > 0)
    BY SMT
  <2> QED BY <2>1, Zenon DEF EthLoop
<1>6. Times'
  BY <1>1, <1>2, <1>4, SMT DEF IInv, Times, Enough
<1>7. Now' = Now /\ Done' \in Nat /\ Done' <= Done /\ Done \in Nat /\ Now \in Nat
  BY <1>1, <1>4, SMT DEF IInv, Times, Done, Now
<1>8. Clock'
  <2>1. at' \notin Setup /\ uptime' > 0
    BY <1>1, SMT DEF IInv, Times, Setup
  <2> QED BY <1>2, <1>7, <2>1, Zenon DEF IInv, Clock
<1>9. Online'
  <2>1. onlineSince' = onlineSince /\ onlineSince \in Nat
    BY <1>2, SMT DEF IInv, Times
  <2>2. Done > 0 => onlineSince > 0 /\ onlineSince + Done <= Now + 1
    BY Zenon DEF IInv, Online
  <2>3. Done' > 0 => onlineSince' > 0 /\ onlineSince' + Done' <= Now' + 1
    BY <1>7, <2>1, <2>2, OnlineStays, Zenon
  <2> QED BY <2>3, Zenon DEF Online
<1>10. Held'
  <2>1. SUFFICES ASSUME Done' > 0, ~announcedOnce'
                 PROVE /\ lastAnnounce' > 0 => lastAnnounce' + Done' <= Now'
                       /\ \/ Now' < onlineSince' + LinkDelay
                          \/ lastAnnounce' > 0 /\ Now' < lastAnnounce' + Retry
    BY <2>1 DEF Held
  <2>2. Done > 0
    BY <1>7, <2>1, SMT
  <2>3. ~announcedOnce
    BY <1>2, <2>1, Zenon
  <2>4. /\ lastAnnounce > 0 => lastAnnounce + Done <= Now
        /\ Now < onlineSince + LinkDelay \/ (lastAnnounce > 0 /\ Now < lastAnnounce + Retry)
    BY <2>2, <2>3, Zenon DEF IInv, Held
  <2>5. onlineSince' = onlineSince /\ lastAnnounce' = lastAnnounce /\ onlineSince \in Nat /\ lastAnnounce \in Nat
    BY <1>2, SMT DEF IInv, Times
  <2> QED BY <1>7, <2>4, <2>5, HeldStays, Zenon
<1>11. Steady'
  <2>1. announcePending \/ announcedOnce
    BY <1>1, Zenon DEF IInv, Steady, Pass
  <2> QED BY <1>1, <1>2, <1>5, <2>1, Zenon DEF Steady
<1>12. GoodImageConfirmed'
  BY <1>1, Zenon DEF GoodImageConfirmed
<1>13. Flags'
  <2>1. TrialFlags'
    BY <1>2, <1>3, Zenon DEF IInv, Flags, EthLoop, otaVars, ipVars, rest, TrialFlags
  <2>2. LinkFlags'
    BY <1>2, <1>3, Zenon DEF IInv, Flags, EthLoop, otaVars, ipVars, rest, LinkFlags
  <2> QED BY <2>1, <2>2 DEF Flags
<1>14. Names'
  <2>1. source' \in {"none", "dhcp", "static", "fallback"}
    BY Zenon DEF IInv, Names, EthLoop
  <2>2. at' \in Setup \cup Pass
    BY <1>1, SMT DEF Pass
  <2> QED BY <2>1, <2>2, Zenon DEF IInv, Names, EthLoop, otaVars, ipVars
<1>15. Trials'
  BY Zenon DEF IInv, Trials, EthLoop, otaVars, ipVars, rest
<1> QED BY <1>6, <1>8, <1>9, <1>10, <1>11, <1>12, <1>13, <1>14, <1>15, Zenon DEF IInv

LEMMA OtaLoopStep == IInv /\ OtaLoop => IInv'
<1> SUFFICES ASSUME IInv, OtaLoop PROVE IInv' OBVIOUS
<1>1. CASE otaRebootAt \/ OtaTimedOut
  <2>1. outlasted' \in BOOLEAN
    BY <1>1, Zenon DEF OtaLoop
  <2>2. Trials'
    BY <1>1, Zenon DEF IInv, Trials, OtaLoop, saved, rest
  <2> QED BY <1>1, <2>1, <2>2, VolatileStep, Zenon DEF IInv, Flags, TrialFlags, LinkFlags, Names, OtaLoop, saved
<1>2. CASE ~(otaRebootAt \/ OtaTimedOut)
  <2>1. at = "ota.loop" /\ at' = "http.loop"
    BY <1>2, Zenon DEF OtaLoop
  <2>2. UNCHANGED <<uptime, otaVars, ipVars, otaRebootAt, rebootAt, announce, link, outlasted, rest>>
    BY <1>2, Zenon DEF OtaLoop
  <2>3. Times' /\ Clock' /\ Online' /\ Held' /\ Steady' /\ GoodImageConfirmed'
    <3>1. at \in Pass \ {"eth.loop"} /\ at' \in Pass \ {"eth.loop"} /\ at' # "announce"
      BY <2>1, SMT DEF Pass
    <3> QED BY <2>2, <3>1, PassStep, Zenon
  <2>4. UNCHANGED <<prev, otaThisBoot, ipStatic, address, ipThisBoot, otaRebootAt, rebootAt, se050, connected,
                    announcePending, announcedOnce, right, signing, outlasted>>
    BY <2>2, Zenon DEF otaVars, ipVars, announce, link, rest
  <2>5. Flags'
    BY <2>4, FlagsKept, Zenon DEF IInv
  <2>6. Names'
    BY <2>1, <2>2, SMT DEF IInv, Names, Pass, otaVars, ipVars, link
  <2>7. Trials'
    BY <2>2, Zenon DEF IInv, Trials, otaVars, ipVars, rest
  <2> QED BY <2>3, <2>5, <2>6, <2>7 DEF IInv
<1> QED BY <1>1, <1>2

LEMMA HttpLoopStep == IInv /\ HttpLoop => IInv'
<1> SUFFICES ASSUME IInv, HttpLoop PROVE IInv' OBVIOUS
<1> USE NodeAssumption DEF NodeAssumption
<1>1. at = "http.loop" /\ at' = "settings.loop"
  BY Zenon DEF HttpLoop
<1>2. UNCHANGED <<uptime, announce, link, outlasted, right>>
  BY Zenon DEF HttpLoop
<1>3. NoRequest \/ Get \/ PutOta \/ PutStatic
  BY Zenon DEF HttpLoop
<1>4. Times' /\ Clock' /\ Online' /\ Held' /\ Steady' /\ GoodImageConfirmed'
  <2>1. at \in Pass \ {"eth.loop"} /\ at' \in Pass \ {"eth.loop"} /\ at' # "announce"
    BY <1>1, SMT DEF Pass
  <2> QED BY <1>2, <2>1, PassStep, Zenon
<1>5. Flags'
  <2>1. prev' \in BOOLEAN /\ otaThisBoot' \in BOOLEAN /\ otaRebootAt' \in BOOLEAN /\ rebootAt' \in BOOLEAN
    <3>1. CASE NoRequest \/ PutStatic
      <4>1. UNCHANGED <<prev, otaThisBoot, otaRebootAt, rebootAt>>
        BY <3>1, Zenon DEF NoRequest, PutStatic, otaVars
      <4> QED BY <4>1, Zenon DEF IInv, Flags, TrialFlags
    <3>2. CASE Get
      <4>1. UNCHANGED <<prev, otaThisBoot, otaRebootAt>> /\ (rebootAt' = rebootAt \/ rebootAt' = TRUE)
        BY <3>2, Zenon DEF Get, otaVars
      <4> QED BY <4>1, Zenon DEF IInv, Flags, TrialFlags
    <3>3. CASE PutOta
      BY <3>3, Zenon DEF PutOta, IInv, Flags, TrialFlags
    <3> QED BY <1>3, <3>1, <3>2, <3>3
  <2>2. ipStatic' \in BOOLEAN /\ address' \in BOOLEAN /\ ipThisBoot' \in BOOLEAN
    BY <1>3, Zenon DEF NoRequest, Get, PutOta, PutStatic, ConfirmIp, ipVars, IInv, Flags, TrialFlags
  <2>3. UNCHANGED <<se050, connected, announcePending, announcedOnce, right, signing, outlasted>>
    BY <1>2, Zenon DEF announce, link
  <2>4. TrialFlags'
    BY <2>1, <2>2, <2>3, Zenon DEF IInv, Flags, TrialFlags
  <2>5. LinkFlags'
    BY <2>1, <2>2, <2>3, Zenon DEF IInv, Flags, LinkFlags
  <2> QED BY <2>4, <2>5 DEF Flags
<1>6. Names'
  <2>1. ota' = ota \/ ota' = "pending"
    BY <1>3, Zenon DEF NoRequest, Get, PutOta, PutStatic, otaVars
  <2>2. ipTrial' = ipTrial \/ ipTrial' = "none" \/ ipTrial' = "pending"
    BY <1>3, Zenon DEF NoRequest, Get, PutOta, PutStatic, ConfirmIp, ipVars
  <2>3. source' = source
    BY <1>2, Zenon DEF link
  <2> QED BY <1>1, <2>1, <2>2, <2>3, SMT DEF IInv, Names, Pass
<1>7. Trials'
  <2>1. UNCHANGED <<ota, otaBoots>> \/ otaBoots' = 0
    BY <1>3, Zenon DEF NoRequest, Get, PutOta, PutStatic, otaVars
  <2>2. ipBoots' = ipBoots \/ ipBoots' = 0
    BY <1>3, Zenon DEF NoRequest, Get, PutOta, PutStatic, ConfirmIp, ipVars
  <2>3. requests' = requests \/ (requests < MaxRequests /\ requests' = requests + 1)
    BY <1>3, Zenon DEF NoRequest, Get, PutOta, PutStatic
  <2> QED BY <2>1, <2>2, <2>3, SMT DEF IInv, Trials
<1> QED BY <1>4, <1>5, <1>6, <1>7 DEF IInv

LEMMA SettingsLoopStep == IInv /\ SettingsLoop => IInv'
<1> SUFFICES ASSUME IInv, SettingsLoop PROVE IInv' OBVIOUS
<1>1. CASE rebootAt
  <2>1. Volatile /\ UNCHANGED <<saved, outlasted, rest>>
    BY <1>1, Zenon DEF SettingsLoop
  <2>2. Trials'
    BY <2>1, Zenon DEF IInv, Trials, saved, rest
  <2>3. outlasted' \in BOOLEAN
    BY <2>1, Zenon DEF IInv, Flags, TrialFlags, LinkFlags
  <2> QED BY <2>1, <2>2, <2>3, VolatileStep, Zenon DEF IInv, Flags, TrialFlags, LinkFlags, Names, saved
<1>2. CASE ~rebootAt /\ ipTrial = "pending" /\ ipThisBoot /\ uptime >= IpTimeout
  BY <1>2, RevertStep, Zenon DEF SettingsLoop
<1>3. CASE ~rebootAt /\ ~(ipTrial = "pending" /\ ipThisBoot /\ uptime >= IpTimeout)
  <2>1. at = "settings.loop" /\ at' = "confirm"
    BY <1>3, Zenon DEF SettingsLoop
  <2>2. UNCHANGED <<uptime, otaVars, ipVars, otaRebootAt, rebootAt, announce, link, outlasted, rest>>
    BY <1>3, Zenon DEF SettingsLoop
  <2>3. Times' /\ Clock' /\ Online' /\ Held' /\ Steady' /\ GoodImageConfirmed'
    <3>1. at \in Pass \ {"eth.loop"} /\ at' \in Pass \ {"eth.loop"} /\ at' # "announce"
      BY <2>1, SMT DEF Pass
    <3> QED BY <2>2, <3>1, PassStep, Zenon
  <2>4. UNCHANGED <<prev, otaThisBoot, ipStatic, address, ipThisBoot, otaRebootAt, rebootAt, se050, connected,
                    announcePending, announcedOnce, right, signing, outlasted>>
    BY <2>2, Zenon DEF otaVars, ipVars, announce, link, rest
  <2>5. Flags'
    BY <2>4, FlagsKept, Zenon DEF IInv
  <2>6. Names'
    BY <2>1, <2>2, SMT DEF IInv, Names, Pass, otaVars, ipVars, link
  <2>7. Trials'
    BY <2>2, Zenon DEF IInv, Trials, otaVars, ipVars, rest
  <2> QED BY <2>3, <2>5, <2>6, <2>7 DEF IInv
<1> QED BY <1>1, <1>2, <1>3, Zenon DEF SettingsLoop

LEMMA ConfirmStep == IInv /\ Confirm => IInv'
<1> SUFFICES ASSUME IInv, Confirm PROVE IInv' OBVIOUS
<1> USE NodeAssumption DEF NodeAssumption
<1>1. at = "confirm" /\ at' = "announce"
  BY Zenon DEF Confirm
<1>2. UNCHANGED <<uptime, ipVars, otaRebootAt, rebootAt, announce, link, outlasted, rest>>
  BY Zenon DEF Confirm
<1>3. \/ ota' = "confirmed" /\ otaBoots' = 0 /\ prev' = FALSE /\ otaThisBoot' = FALSE
      \/ UNCHANGED otaVars /\ ~(ota = "pending" /\ otaThisBoot /\ se050 /\ announcedOnce)
  BY Zenon DEF Confirm
<1>4. Times' /\ Clock' /\ Online' /\ Held' /\ Steady' /\ GoodImageConfirmed'
  <2>1. at \in Pass \ {"eth.loop"} /\ at' \in Pass \ {"eth.loop"}
    BY <1>1, SMT DEF Pass
  <2>2. se050' /\ ota' = "pending" /\ otaThisBoot' => ~announcedOnce'
    BY <1>2, <1>3, Zenon DEF otaVars, announce, link
  <2> QED BY <1>2, <2>1, <2>2, PassStep, Zenon
<1>5. Flags'
  <2>1. prev' \in BOOLEAN /\ otaThisBoot' \in BOOLEAN
    BY <1>3, Zenon DEF otaVars, IInv, Flags, TrialFlags
  <2>2. UNCHANGED <<ipStatic, address, ipThisBoot, otaRebootAt, rebootAt, se050, connected,
                    announcePending, announcedOnce, right, signing, outlasted>>
    BY <1>2, Zenon DEF ipVars, announce, link, rest
  <2>3. TrialFlags'
    BY <2>1, <2>2, Zenon DEF IInv, Flags, TrialFlags
  <2>4. LinkFlags'
    BY <2>1, <2>2, Zenon DEF IInv, Flags, LinkFlags
  <2> QED BY <2>3, <2>4 DEF Flags
<1>6. Names'
  BY <1>1, <1>2, <1>3, SMT DEF IInv, Names, Pass, otaVars, ipVars, link
<1>7. Trials'
  BY <1>2, <1>3, SMT DEF IInv, Trials, otaVars, ipVars, rest
<1> QED BY <1>4, <1>5, <1>6, <1>7 DEF IInv

\* A link that was up, and an announce that was pending, are announced or held
\* back: by the link delay, or by the retry spacing after this pass's attempt.
LEMMA AnnounceCases ==
  ASSUME IInv, Announce, healthy > 0, onlineSince # 0
  PROVE  /\ onlineSince' = onlineSince
         /\ \/ announcedOnce' = TRUE
            \/ /\ announcePending' = announcePending /\ announcedOnce' = announcedOnce
               /\ lastAnnounce' = lastAnnounce
               /\ \/ announcePending => uptime - onlineSince < LinkDelay
                  \/ lastAnnounce # 0 /\ uptime - lastAnnounce < Retry
<1> USE NodeAssumption DEF NodeAssumption
<1>1. connected /\ signing
  BY Zenon DEF IInv, Steady
<1>2. /\ onlineSince' = onlineSince
      /\ \/ AnnounceNow
         \/ /\ UNCHANGED <<announcePending, announcedOnce, lastAnnounce>>
            /\ ~(announcePending /\ uptime - onlineSince >= LinkDelay)
  BY <1>1, Zenon DEF Announce
<1>3. CASE AnnounceNow
  BY <1>1, <1>2, <1>3, Zenon DEF AnnounceNow
<1>4. CASE /\ UNCHANGED <<announcePending, announcedOnce, lastAnnounce>>
           /\ ~(announcePending /\ uptime - onlineSince >= LinkDelay)
  <2>1. uptime \in Nat /\ onlineSince \in Nat
    BY SMT DEF IInv, Times
  <2>2. uptime - onlineSince < LinkDelay \/ uptime - onlineSince >= LinkDelay
    BY <2>1, SMT
  <2> QED BY <1>2, <1>4, <2>2, Zenon
<1> QED BY <1>2, <1>3, <1>4, Zenon

LEMMA AnnounceTypes ==
  ASSUME IInv, Announce
  PROVE  /\ onlineSince' \in {0, uptime, onlineSince} /\ lastAnnounce' \in {lastAnnounce, uptime}
         /\ announcePending' \in BOOLEAN /\ announcedOnce' \in BOOLEAN
         /\ announcePending' \/ announcedOnce'
<1>1. announcePending \in BOOLEAN /\ announcedOnce \in BOOLEAN
  BY Zenon DEF IInv, Flags, LinkFlags
<1>2. announcePending \/ announcedOnce
  <2>1. at \in Pass
    BY SMT DEF Announce, Pass
  <2> QED BY <2>1, Zenon DEF IInv, Steady
<1>3. CASE ~connected
  BY <1>1, <1>2, <1>3, Zenon DEF Announce
<1>4. CASE connected /\ onlineSince = 0
  BY <1>1, <1>2, <1>4, Zenon DEF Announce
<1>5. CASE connected /\ onlineSince # 0
  <2>1. UNCHANGED onlineSince
    BY <1>5, Zenon DEF Announce
  <2>2. AnnounceNow \/ UNCHANGED <<announcePending, announcedOnce, lastAnnounce>>
    BY <1>5, Zenon DEF Announce
  <2>3. CASE AnnounceNow
    BY <1>1, <1>2, <2>1, <2>3, Zenon DEF AnnounceNow, LeftPending
  <2>4. CASE UNCHANGED <<announcePending, announcedOnce, lastAnnounce>>
    BY <1>1, <1>2, <2>1, <2>4, Zenon
  <2> QED BY <2>2, <2>3, <2>4
<1> QED BY <1>3, <1>4, <1>5

LEMMA AnnounceStep == IInv /\ Announce => IInv'
<1> SUFFICES ASSUME IInv, Announce PROVE IInv' OBVIOUS
<1> USE NodeAssumption DEF NodeAssumption
<1>1. at = "announce" /\ at' = "eth.loop"
  BY Zenon DEF Announce
<1>2. UNCHANGED <<uptime, otaVars, ipVars, otaRebootAt, rebootAt, link, outlasted, rest>>
  BY Zenon DEF Announce
<1>3. uptime' = uptime /\ healthy' = healthy
  BY <1>2, Zenon DEF link
<1>4. /\ uptime \in Nat /\ uptime > 0 /\ healthy \in Nat /\ onlineSince \in Nat /\ lastAnnounce \in Nat
      /\ uptime <= MaxUptime
  <2>1. at \in Pass \ {"eth.loop"}
    BY <1>1, SMT DEF Pass
  <2>2. uptime > 0
    BY <2>1, Zenon DEF IInv, Clock
  <2> QED BY <2>2, SMT DEF IInv, Times
<1>5. Done = (IF healthy = 0 THEN 0 ELSE healthy - 1) /\ Now = uptime - 1
  BY <1>1, <1>4, SMT DEF Done, Now
<1>6. Done' = healthy /\ Now' = uptime
  BY <1>1, <1>3, SMT DEF Done, Now
<1>7. onlineSince <= uptime - 1 /\ lastAnnounce <= uptime - 1
  BY <1>5, Zenon DEF IInv, Clock
<1>8. Done > 0 => onlineSince > 0 /\ onlineSince + Done <= Now + 1
  BY Zenon DEF IInv, Online
<1>9. /\ onlineSince' \in {0, uptime, onlineSince} /\ lastAnnounce' \in {lastAnnounce, uptime}
      /\ announcePending' \in BOOLEAN /\ announcedOnce' \in BOOLEAN
      /\ announcePending' \/ announcedOnce'
  BY AnnounceTypes, Zenon
<1>10. healthy > 0 => connected /\ signing
  BY Zenon DEF IInv, Steady
<1>11. Times'
  <2>1. onlineSince' \in 0..MaxUptime /\ lastAnnounce' \in 0..MaxUptime
    BY <1>4, <1>9, SMT DEF IInv, Times
  <2> QED BY <1>3, <2>1, Zenon DEF IInv, Times, Enough
<1>12. Clock'
  <2>1. at' \notin Setup /\ at' \notin Pass \ {"eth.loop"}
    BY <1>1, SMT DEF Setup, Pass
  <2>2. onlineSince' <= uptime /\ lastAnnounce' <= uptime
    BY <1>4, <1>7, <1>9, SMT
  <2> QED BY <1>6, <2>1, <2>2, Zenon DEF Clock
\* The link was just seen, in the first of the healthy passes.
<1>13. ASSUME healthy > 0, onlineSince = 0
       PROVE  healthy = 1 /\ onlineSince' = uptime /\ lastAnnounce' = lastAnnounce
  <2>1. healthy = 1
    BY <1>4, <1>5, <1>8, <1>13, SMT
  <2>2. onlineSince' = uptime /\ lastAnnounce' = lastAnnounce
    BY <1>10, <1>13, Zenon DEF Announce
  <2> QED BY <2>1, <2>2
\* The link was seen before.
<1>14. ASSUME healthy > 0, onlineSince # 0
       PROVE  onlineSince' = onlineSince /\ onlineSince > 0 /\ onlineSince + healthy <= uptime + 1
  <2>1. onlineSince' = onlineSince
    BY <1>14, AnnounceCases, Zenon
  <2>2. onlineSince > 0 /\ onlineSince + healthy <= uptime + 1
    BY <1>4, <1>5, <1>7, <1>8, <1>14, SMT
  <2> QED BY <2>1, <2>2
<1>15. Online'
  <2>1. healthy > 0 => onlineSince' > 0 /\ onlineSince' + healthy <= uptime + 1
    BY <1>4, <1>13, <1>14, SMT
  <2> QED BY <1>6, <2>1, Zenon DEF Online
<1>16. Held'
  <2>1. SUFFICES ASSUME healthy > 0, ~announcedOnce'
                 PROVE /\ lastAnnounce' > 0 => lastAnnounce' + healthy <= uptime
                       /\ \/ uptime < onlineSince' + LinkDelay
                          \/ lastAnnounce' > 0 /\ uptime < lastAnnounce' + Retry
    BY <1>6, <2>1, Zenon DEF Held
  <2>2. CASE onlineSince = 0
    BY <1>4, <1>7, <1>13, <2>1, <2>2, SMT
  <2>3. CASE onlineSince # 0
    <3>1. /\ announcedOnce' = announcedOnce /\ lastAnnounce' = lastAnnounce
          /\ \/ announcePending => uptime - onlineSince < LinkDelay
             \/ lastAnnounce # 0 /\ uptime - lastAnnounce < Retry
      BY <2>1, <2>3, AnnounceCases, Zenon
    <3>2. announcePending
      <4>1. at \in Pass
        BY <1>1, SMT DEF Pass
      <4> QED BY <2>1, <3>1, <4>1, Zenon DEF IInv, Steady
    <3>3. uptime - onlineSince < LinkDelay \/ (lastAnnounce # 0 /\ uptime - lastAnnounce < Retry)
      BY <3>1, <3>2, Zenon
    <3>4. Done > 0 => (lastAnnounce > 0 => lastAnnounce + Done <= Now)
      BY <2>1, <3>1, Zenon DEF IInv, Held
    <3>5. lastAnnounce' = lastAnnounce /\ onlineSince' = onlineSince
      BY <1>14, <2>1, <2>3, <3>1, Zenon
    <3>6. lastAnnounce > 0 => lastAnnounce + healthy <= uptime
      BY <1>4, <1>5, <1>7, <2>1, <3>4, SMT
    <3>7. uptime < onlineSince + LinkDelay \/ (lastAnnounce > 0 /\ uptime < lastAnnounce + Retry)
      BY <1>4, <3>3, SMT
    <3> QED BY <3>5, <3>6, <3>7, Zenon
  <2> QED BY <2>2, <2>3
<1>17. Steady'
  <2>1. at' # "announce"
    BY <1>1, SMT
  <2>2. connected' = connected /\ signing' = signing
    BY <1>2, Zenon DEF link
  <2> QED BY <1>3, <1>9, <1>10, <2>1, <2>2, Zenon DEF Steady
\* An image still on trial was not announced under, and that is for too few passes.
<1>18. GoodImageConfirmed'
  <2>1. SUFFICES ASSUME se050', healthy' >= Enough', ota' = "pending" /\ otaThisBoot' PROVE FALSE
    BY <2>1, Zenon DEF GoodImageConfirmed
  <2>2. se050 /\ ota = "pending" /\ otaThisBoot
    BY <1>2, <2>1, Zenon DEF link, otaVars
  <2>3. ~announcedOnce
    BY <1>1, <2>2, Zenon DEF IInv, Steady
  <2>4. Done + 2 <= Enough
    BY <2>3, HeldIsShort, Zenon DEF IInv
  <2>5. healthy >= Enough
    BY <1>3, <2>1, Zenon DEF Enough
  <2> QED BY <1>4, <1>5, <2>4, <2>5, EnoughType, SMT
<1>19. Flags'
  <2>1. UNCHANGED <<prev, otaThisBoot, ipStatic, address, ipThisBoot, otaRebootAt, rebootAt, se050, connected,
                    right, signing, outlasted>>
    BY <1>2, Zenon DEF otaVars, ipVars, link, rest
  <2>2. TrialFlags'
    BY <1>9, <2>1, Zenon DEF IInv, Flags, TrialFlags
  <2>3. LinkFlags'
    BY <1>9, <2>1, Zenon DEF IInv, Flags, LinkFlags
  <2> QED BY <2>2, <2>3 DEF Flags
<1>20. Names'
  <2>1. at' \in Setup \cup Pass
    BY <1>1, SMT DEF Pass
  <2> QED BY <1>2, <2>1, Zenon DEF IInv, Names, otaVars, ipVars, link
<1>21. Trials'
  BY <1>2, Zenon DEF IInv, Trials, otaVars, ipVars, rest
<1> QED BY <1>11, <1>12, <1>15, <1>16, <1>17, <1>18, <1>19, <1>20, <1>21, Zenon DEF IInv

-----------------------------------------------------------------------------
(* Theorems *)

LEMMA StutterStep == IInv /\ UNCHANGED vars => IInv'
<1> SUFFICES ASSUME IInv, UNCHANGED vars PROVE IInv' OBVIOUS
<1>1. UNCHANGED <<prev, otaThisBoot, ipStatic, address, ipThisBoot, otaRebootAt, rebootAt, se050, connected,
                  announcePending, announcedOnce, right, signing, outlasted>>
  BY Zenon DEF vars, otaVars, ipVars, announce, link, rest
<1>2. UNCHANGED <<at, ota, ipTrial, source, otaBoots, ipBoots, requests, uptime, onlineSince, lastAnnounce,
                  healthy>>
  BY Zenon DEF vars, otaVars, ipVars, announce, link, rest
<1>3. Flags'
  BY <1>1, FlagsKept, Zenon DEF IInv
<1>4. Names' /\ Trials' /\ Times'
  BY <1>2, Zenon DEF IInv, Names, Trials, Times, Enough
<1>5. Done' = Done /\ Now' = Now
  BY <1>2, SMT DEF Done, Now
<1>6. Clock' /\ Online' /\ Held'
  BY <1>1, <1>2, <1>5, Zenon DEF IInv, Clock, Online, Held
<1>7. Steady'
  BY <1>1, <1>2, Zenon DEF IInv, Steady
<1>8. GoodImageConfirmed'
  BY <1>1, <1>2, Zenon DEF IInv, GoodImageConfirmed, Enough
<1> QED BY <1>3, <1>4, <1>6, <1>7, <1>8, Zenon DEF IInv

LEMMA NextStep == IInv /\ [Next]_vars => IInv'
<1> SUFFICES ASSUME IInv, [Next]_vars PROVE IInv' OBVIOUS
<1>1. CASE OtaBegin BY <1>1, OtaBeginStep
<1>2. CASE SettingsBegin BY <1>2, SettingsBeginStep
<1>3. CASE BringUp BY <1>3, BringUpStep
<1>4. CASE EthLoop BY <1>4, EthLoopStep
<1>5. CASE OtaLoop BY <1>5, OtaLoopStep
<1>6. CASE HttpLoop BY <1>6, HttpLoopStep
<1>7. CASE SettingsLoop BY <1>7, SettingsLoopStep
<1>8. CASE Confirm BY <1>8, ConfirmStep
<1>9. CASE Announce BY <1>9, AnnounceStep
<1>10. CASE Idle \/ UNCHANGED vars BY <1>10, StutterStep DEF Idle
<1>11. CASE Restart BY <1>11, RestartStep
<1> QED BY <1>1, <1>2, <1>3, <1>4, <1>5, <1>6, <1>7, <1>8, <1>9, <1>10, <1>11, Zenon DEF Next, Step

\* The strengthened invariant holds in every reachable state.
THEOREM Invariance == Spec => []IInv
<1>1. Init => IInv BY InitStep
<1>2. IInv /\ [Next]_vars => IInv' BY NextStep
<1> QED BY <1>1, <1>2, PTL DEF Spec

\* setup() and loop() keep every variable within its type: the boots of a trial
\* are counted no further than the one that gives it up.
THEOREM TypeCorrect == Spec => []TypeOK
<1>1. IInv => TypeOK BY TypeParts DEF IInv
<1> QED BY <1>1, Invariance, PTL

\* An image on trial is confirmed by the time its chip could sign and its link
\* was up for the delay, or the spacing of announces, and the passes around it.
THEOREM GoodImagesConfirmed == Spec => []GoodImageConfirmed
<1>1. IInv => GoodImageConfirmed BY DEF IInv
<1> QED BY <1>1, Invariance, PTL

=============================================================================
