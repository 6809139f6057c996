-------------------------------- MODULE Node --------------------------------
(***************************************************************************)
(* The node as src/src/main.cpp puts it together: setup() and one pass of  *)
(* loop() in the order of their calls, with what each part contributes to  *)
(* two trials that may run in the same boots: that of an OTA image         *)
(* (src/src/Ota.cpp) and that of a static address (src/src/NodeSettings    *)
(* .cpp), over the Ethernet link and the announces that decide them.       *)
(*                                                                         *)
(* Ota.tla and NodeSettings.tla have the files, failures and requests that *)
(* are left out here: writes succeed, clients wait for a verdict before    *)
(* they upload again, and bring-up succeeds. A tick is a pass of loop().   *)
(***************************************************************************)
EXTENDS Naturals

CONSTANTS OtaTimeout, OtaBoots,  \* NODE_OTA_TRIAL_TIMEOUT_S, NODE_OTA_TRIAL_BOOTS
          IpTimeout, IpBoots,    \* NODE_IP_TRIAL_TIMEOUT_S, NODE_IP_TRIAL_BOOTS
          LinkDelay,             \* the 5 s between link up and announce
          Retry, Interval,       \* NODE_ANNOUNCE_RETRY_S, settings.announceIntervalS()
          MaxUptime,             \* bounds uptime, and with it a boot's passes
          MaxRequests            \* bounds the uploads and address changes

ASSUME NodeAssumption ==
    /\ OtaTimeout \in Nat /\ IpTimeout \in Nat /\ MaxUptime \in Nat
    /\ OtaBoots \in Nat \ {0} /\ IpBoots \in Nat \ {0}
    /\ LinkDelay \in Nat \ {0} /\ Retry \in Nat /\ Interval \in Nat \ {0}
    /\ MaxRequests \in Nat

VARIABLES
    at,                     \* the call setup() or loop() makes next; "off" before setup()
    uptime,                 \* millis()
    ota, otaBoots, prev,    \* Ota's _state and _boots, as saved; PREV_FILE exists
    otaThisBoot,            \* _trialThisBoot
    ipStatic, address,      \* _ipStatic; _ip is set
    ipTrial, ipBoots,       \* _ipTrial, _ipTrialBoots, as saved
    ipThisBoot,             \* _ipTrialThisBoot
    otaRebootAt, rebootAt,  \* Ota's _rebootAt, s_rebootAt
    source,                 \* EthernetLink's _source
    se050,                  \* the chip answered its probe in setup()
    connected,              \* tcp->connected()
    onlineSince, announcePending, announcedOnce, lastAnnounce,
    right,                  \* environment: the static address is a right one
    signing,                \* environment: the identity can sign in this pass
    healthy,                \* history: passes in a row connected and able to sign
    outlasted,              \* history: the last boot outlasted the address's trial
    requests                \* bounds the run

otaVars == <<ota, otaBoots, prev, otaThisBoot>>
ipVars == <<ipStatic, address, ipTrial, ipBoots, ipThisBoot>>
saved == <<ota, otaBoots, prev, ipStatic, address, ipTrial, ipBoots>>
announce == <<onlineSince, announcePending, announcedOnce, lastAnnounce>>
link == <<source, se050, connected, signing, healthy>>
rest == <<right, requests>>
vars == <<at, uptime, otaVars, ipVars, otaRebootAt, rebootAt, announce, link, outlasted, rest>>

\* What a reset leaves of RAM.
Volatile ==
    /\ at' = "off" /\ uptime' = 0
    /\ otaThisBoot' = FALSE /\ ipThisBoot' = FALSE
    /\ otaRebootAt' = FALSE /\ rebootAt' = FALSE
    /\ source' = "none" /\ se050' = FALSE /\ connected' = FALSE
    /\ onlineSince' = 0 /\ announcePending' = FALSE /\ announcedOnce' = FALSE /\ lastAnnounce' = 0
    /\ signing' = FALSE /\ healthy' = 0

Init ==
    /\ at = "off" /\ uptime = 0
    /\ ota = "none" /\ otaBoots = 0 /\ prev = FALSE /\ otaThisBoot = FALSE
    /\ ipStatic = FALSE /\ address = FALSE
    /\ ipTrial = "none" /\ ipBoots = 0 /\ ipThisBoot = FALSE
    /\ otaRebootAt = FALSE /\ rebootAt = FALSE
    /\ source = "none" /\ se050 = FALSE /\ connected = FALSE
    /\ onlineSince = 0 /\ announcePending = FALSE /\ announcedOnce = FALSE /\ lastAnnounce = 0
    /\ right \in BOOLEAN /\ signing = FALSE /\ healthy = 0 /\ outlasted = FALSE
    /\ requests = 0

\* Power goes, the watchdog trips, the heap stays low, the console asks.
Restart ==
    /\ at # "off"
    /\ Volatile
    /\ outlasted' = FALSE
    /\ UNCHANGED <<saved, rest>>

-----------------------------------------------------------------------------
(* setup() *)

\* Mutant: the boot is counted in RAM and not saved.
OtaCountLost == UNCHANGED otaBoots

OtaCount == otaBoots' = otaBoots + 1

OtaBegin ==
    /\ at = "off"
    /\ outlasted' = FALSE
    /\ \/ /\ ota # "pending"
          /\ at' = "settings.begin"
          /\ UNCHANGED otaVars
       \/ /\ ota = "pending" /\ otaBoots + 1 <= OtaBoots
          /\ OtaCount /\ otaThisBoot' = TRUE
          /\ at' = "settings.begin"
          /\ UNCHANGED <<ota, prev>>
       \/ \* rollback() reboots into the previous image, or gives up without one
          /\ ota = "pending" /\ otaBoots + 1 > OtaBoots
          /\ IF prev THEN ota' = "rolledback" /\ at' = "off"
                     ELSE ota' = "failed" /\ at' = "settings.begin"
          /\ otaBoots' = otaBoots + 1
          /\ UNCHANGED <<prev, otaThisBoot>>
    /\ UNCHANGED <<uptime, ipVars, otaRebootAt, rebootAt, announce, link, rest>>

\* revertIpToDhcp(), saved.
RevertIpToDhcp == ipStatic' = FALSE /\ ipTrial' = "reverted" /\ ipBoots' = 0

\* Mutant: the boots are compared before this one is counted.
IpBootsLeftBefore == ipBoots <= IpBoots

IpBootsLeft == ipBoots + 1 <= IpBoots

SettingsBegin ==
    /\ at = "settings.begin"
    /\ \/ /\ ipTrial # "pending"
          /\ at' = "eth.begin"
          /\ UNCHANGED <<uptime, otaVars, ipVars, otaRebootAt, rebootAt, announce, link, outlasted>>
       \/ /\ ipTrial = "pending" /\ IpBootsLeft
          /\ ipBoots' = ipBoots + 1 /\ ipThisBoot' = TRUE
          /\ at' = "eth.begin"
          /\ UNCHANGED <<uptime, otaVars, ipStatic, address, ipTrial, otaRebootAt, rebootAt, announce, link, outlasted>>
       \/ /\ ipTrial = "pending" /\ ~IpBootsLeft
          /\ RevertIpToDhcp
          /\ Volatile
          /\ UNCHANGED <<ota, otaBoots, prev, address, outlasted>>
    /\ UNCHANGED rest

\* eth.begin(): static, or a lease, or the fallback, or no address yet.
Sources ==
    IF ipStatic THEN {"static"} ELSE {"dhcp", IF address THEN "fallback" ELSE "none"}

\* The rest of setup(), which ends with an announce pending.
BringUp ==
    /\ at = "eth.begin"
    /\ source' \in Sources
    /\ se050' \in BOOLEAN
    /\ announcePending' = TRUE
    /\ at' = "eth.loop"
    /\ UNCHANGED <<uptime, otaVars, ipVars, otaRebootAt, rebootAt, onlineSince, announcedOnce, lastAnnounce,
                   connected, signing, healthy, outlasted, rest>>

-----------------------------------------------------------------------------
(* loop() *)

\* The node can be reached, and reach its server.
Routable(s) == s = "dhcp" \/ (s \in {"static", "fallback"} /\ right)

\* Passes in a row that are enough: one to notice the link or have failed to
\* sign, then the wait, then one to confirm.
Enough == IF LinkDelay >= Retry THEN LinkDelay + 2 ELSE Retry + 1

\* A pass begins: time has passed, a lease may come if there is no address, the
\* connection comes and goes while the node can be reached.
EthLoop ==
    /\ at = "eth.loop" /\ uptime < MaxUptime
    /\ uptime' = uptime + 1
    /\ source' \in IF source = "none" THEN {"none", "dhcp"} ELSE {source}
    /\ connected' \in IF Routable(source') THEN BOOLEAN ELSE {FALSE}
    /\ signing' \in BOOLEAN
    /\ healthy' = IF connected' /\ signing'
                  THEN IF healthy < Enough THEN healthy + 1 ELSE healthy
                  ELSE 0
    /\ at' = "ota.loop"
    /\ UNCHANGED <<otaVars, ipVars, otaRebootAt, rebootAt, announce, se050, outlasted, rest>>

OtaTimedOut == otaThisBoot /\ ota = "pending" /\ uptime >= OtaTimeout

OtaLoop ==
    /\ at = "ota.loop"
    /\ IF otaRebootAt \/ OtaTimedOut
       THEN /\ Volatile
            /\ outlasted' = (~otaRebootAt /\ ipTrial = "pending" /\ ipThisBoot /\ uptime >= IpTimeout)
            /\ UNCHANGED saved
       ELSE /\ at' = "http.loop"
            /\ UNCHANGED <<uptime, otaVars, ipVars, otaRebootAt, rebootAt, announce, link, outlasted>>
    /\ UNCHANGED rest

\* confirmIp(), on any well-formed request.
ConfirmIp ==
    IF ipTrial = "pending" /\ ipThisBoot
    THEN ipTrial' = "none" /\ ipBoots' = 0 /\ ipThisBoot' = FALSE
    ELSE UNCHANGED <<ipTrial, ipBoots, ipThisBoot>>

NoRequest ==
    UNCHANGED <<otaVars, ipVars, otaRebootAt, rebootAt, requests>>

\* A request that reads, or asks for a reboot.
Get ==
    /\ Routable(source)
    /\ ConfirmIp
    /\ rebootAt' \in {rebootAt, TRUE}
    /\ UNCHANGED <<otaVars, ipStatic, address, otaRebootAt, requests>>

\* PUT /ota: the running image becomes the fallback, the new one runs next.
PutOta ==
    /\ Routable(source) /\ requests < MaxRequests
    /\ ota # "pending"
    /\ ConfirmIp
    /\ ota' = "pending" /\ otaBoots' = 0 /\ prev' = TRUE
    /\ otaRebootAt' = TRUE
    /\ requests' = requests + 1
    /\ UNCHANGED <<otaThisBoot, ipStatic, address, rebootAt>>

\* PUT /config with a static address it did not have: on trial at the next boot.
PutStatic ==
    /\ Routable(source) /\ requests < MaxRequests
    /\ ipStatic' = TRUE /\ address' = TRUE
    /\ ipTrial' = "pending" /\ ipBoots' = 0 /\ ipThisBoot' = FALSE
    /\ requests' = requests + 1
    /\ UNCHANGED <<otaVars, otaRebootAt, rebootAt>>

\* httpApi.loop().
HttpLoop ==
    /\ at = "http.loop"
    /\ NoRequest \/ Get \/ PutOta \/ PutStatic
    /\ at' = "settings.loop"
    /\ UNCHANGED <<uptime, announce, link, outlasted, right>>

\* nodeSettingsLoop().
SettingsLoop ==
    /\ at = "settings.loop"
    /\ \/ /\ rebootAt
          /\ Volatile
          /\ UNCHANGED <<saved, outlasted>>
       \/ /\ ~rebootAt /\ ipTrial = "pending" /\ ipThisBoot /\ uptime >= IpTimeout
          /\ RevertIpToDhcp
          /\ Volatile
          /\ UNCHANGED <<ota, otaBoots, prev, address, outlasted>>
       \/ /\ ~rebootAt /\ ~(ipTrial = "pending" /\ ipThisBoot /\ uptime >= IpTimeout)
          /\ at' = "confirm"
          /\ UNCHANGED <<uptime, otaVars, ipVars, otaRebootAt, rebootAt, announce, link, outlasted>>
    /\ UNCHANGED rest

\* if (ota.pending() && se050 && announcedOnce) ota.confirm(...)
Confirm ==
    /\ at = "confirm"
    /\ at' = "announce"
    /\ IF ota = "pending" /\ otaThisBoot /\ se050 /\ announcedOnce
       THEN ota' = "confirmed" /\ otaBoots' = 0 /\ prev' = FALSE /\ otaThisBoot' = FALSE
       ELSE UNCHANGED otaVars
    /\ UNCHANGED <<uptime, ipVars, otaRebootAt, rebootAt, announce, link, outlasted, rest>>

\* Mutant: the announce is no longer pending once it was tried.
TriedPending == FALSE

LeftPending == announcePending

AnnounceNow ==
    IF lastAnnounce # 0 /\ uptime - lastAnnounce < Retry
    THEN UNCHANGED <<announcePending, announcedOnce, lastAnnounce>>
    ELSE /\ lastAnnounce' = uptime
         /\ IF signing
            THEN announcePending' = FALSE /\ announcedOnce' = TRUE
            ELSE announcePending' = LeftPending /\ UNCHANGED announcedOnce

\* The rest of loop().
Announce ==
    /\ at = "announce"
    /\ at' = "eth.loop"
    /\ IF ~connected
       THEN onlineSince' = 0 /\ UNCHANGED <<announcePending, announcedOnce, lastAnnounce>>
       ELSE IF onlineSince = 0
       THEN onlineSince' = uptime /\ announcePending' = TRUE /\ UNCHANGED <<announcedOnce, lastAnnounce>>
       ELSE /\ UNCHANGED onlineSince
            /\ IF \/ announcePending /\ uptime - onlineSince >= LinkDelay
                  \/ uptime - lastAnnounce >= Interval
               THEN AnnounceNow
               ELSE UNCHANGED <<announcePending, announcedOnce, lastAnnounce>>
    /\ UNCHANGED <<uptime, otaVars, ipVars, otaRebootAt, rebootAt, link, outlasted, rest>>

\* A boot goes on past MaxUptime as it is.
Idle ==
    /\ at = "eth.loop" /\ uptime = MaxUptime
    /\ UNCHANGED vars

Step == OtaBegin \/ SettingsBegin \/ BringUp \/ EthLoop \/ OtaLoop \/ HttpLoop \/ SettingsLoop \/ Confirm \/ Announce

Next == Step \/ Idle \/ Restart

Spec == Init /\ [][Next]_vars

\* setup() and loop() go on.
FairSpec == Spec /\ WF_vars(Step)

-----------------------------------------------------------------------------
(* Properties *)

TypeOK ==
    /\ at \in {"off", "settings.begin", "eth.begin", "eth.loop", "ota.loop", "http.loop", "settings.loop",
               "confirm", "announce"}
    /\ uptime \in 0..MaxUptime
    /\ ota \in {"none", "pending", "confirmed", "rolledback", "failed"} /\ otaBoots \in 0..(OtaBoots + 1)
    /\ prev \in BOOLEAN /\ otaThisBoot \in BOOLEAN
    /\ ipStatic \in BOOLEAN /\ address \in BOOLEAN
    /\ ipTrial \in {"none", "pending", "reverted"} /\ ipBoots \in 0..IpBoots /\ ipThisBoot \in BOOLEAN
    /\ otaRebootAt \in BOOLEAN /\ rebootAt \in BOOLEAN
    /\ source \in {"none", "dhcp", "static", "fallback"}
    /\ se050 \in BOOLEAN /\ connected \in BOOLEAN
    /\ onlineSince \in 0..MaxUptime /\ lastAnnounce \in 0..MaxUptime
    /\ announcePending \in BOOLEAN /\ announcedOnce \in BOOLEAN
    /\ right \in BOOLEAN /\ signing \in BOOLEAN /\ healthy \in 0..Enough
    /\ outlasted \in BOOLEAN /\ requests \in 0..MaxRequests

\* An image on trial in a node whose chip answered is confirmed once the server
\* was connected and the identity could sign for the link delay or the retry
\* spacing and the passes around it, whatever failed before: neither a failed
\* signature nor a link that flapped leaves the announce unsent.
GoodImageConfirmed ==
    se050 /\ healthy >= Enough /\ at = "eth.loop" => ~(ota = "pending" /\ otaThisBoot)

\* Whatever the network does, and however the two trials and the reboots they
\* cause run into each other, a node ends on an image and an address that are
\* on trial no more, unless it is left up without having been rebooted.
Settles == <>[](~otaThisBoot /\ ~ipThisBoot)

\* docs/config.md: an address at which no request arrived within the timeout is
\* given up, it is not tried in a further boot.
AddressTimesOut == ~outlasted
=============================================================================
