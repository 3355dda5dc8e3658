--------------------------- MODULE ServicesProofs ---------------------------
(***************************************************************************)
(* What TLAPS proves of the parts around the ports (Services), for every   *)
(* value of their constants (the network's part is in NetworkProofs): what *)
(* the application tells of its clock is true; the web gateway's sessions  *)
(* stand on the password that is stored, its answers go to who asked, and  *)
(* its broker that failed is not started again; no byte that waited on a   *)
(* line at a recovery is in a later answer, a port that serves has its     *)
(* line set as it is configured, and a stop sets it back; no seed is       *)
(* served twice, and an uncertain one is left alone; and a token of the    *)
(* panel stands for the configuration that is selected.  A part at rest    *)
(* keeps its state, so each invariant is one of Spec whichever part is     *)
(* looked at.                                                              *)
(***************************************************************************)
EXTENDS Services, SequenceTheorems, TLAPS

-----------------------------------------------------------------------------
(* The clock (TimeSync).                                                     *)

Timer == {"off", "runs", "due"}
Told == {"unsynced", "synced", "manual", "error", "holdover"}

NtpType ==
    [trust : Told \cup {"syncing"}, before : Told \cup {"unknown"}, on : BOOLEAN,
     server : NtpServers \cup {"none"}, interval : Intervals \cup {1}, applied : BOOLEAN,
     testing : BOOLEAN, testAttempts : Nat, terminating : BOOLEAN, timeout : Timer,
     retry : Timer, normal : Timer,
     helper : {"none", "running", "killed", "succeeded", "failed"},
     helperServer : NtpServers \cup {"none"}, set : BOOLEAN]

\* What is told of a clock c is true, now and when the attempt under way ends.
Truthful(n, c) ==
    /\ n.trust = "synced" => c = Time!ByNtp(n.server)
    /\ n.trust = "holdover" => c.by = "ntp"
    /\ n.trust = "syncing" /\ n.before = "synced" => c = Time!ByNtp(n.server)
    /\ n.trust = "syncing" /\ n.before = "holdover" => c.by = "ntp"

\* The helper is that of the attempt under way, or one that is being reaped; what it
\* has set is on the clock, and it works for the server that is told of.
Minded(n, c) ==
    /\ n.trust = "syncing" => ~n.terminating /\ n.before # "unknown"
    /\ n.helper # "none" =>
          /\ n.trust = "syncing" \/ n.terminating
          /\ n.set => c = Time!ByNtp(n.helperServer)
          /\ n.trust \in {"syncing", "synced"} => n.helperServer = n.server
    /\ n.helper = "succeeded" => n.set

\* A test has attempts left, or makes its last one.
Bounded(n) ==
    /\ n.testAttempts <= TestAttempts
    /\ n.testing => n.testAttempts < TestAttempts \/ n.trust = "syncing"

Sound(n, c) == n \in NtpType /\ Truthful(n, c) /\ Minded(n, c) /\ Bounded(n)

ClockInv ==
    /\ coordinator \in {"starting", "ready", "shutting", "stopped"}
    /\ process \in {"starting", "running", "stopping", "stopped"}
    /\ Sound(ntp, clock)
    /\ process = "stopped" => ntp.helper = "none" /\ ntp.trust # "syncing"

\* Cancelling the attempt under way tells again what was told before it.
LEMMA CancelledSound ==
    ASSUME NEW n, NEW c, Sound(n, c), n.trust = "syncing"
    PROVE  Sound([[Time!Cancelled(n) EXCEPT !.trust = n.before] EXCEPT !.testing = FALSE], c)
<1> DEFINE m == [[Time!Cancelled(n) EXCEPT !.trust = n.before] EXCEPT !.testing = FALSE]
<1>1. n \in NtpType /\ n.before \in Told
  BY DEF Sound, Minded, NtpType
<1>2. m \in NtpType
  BY ZenonT(60), <1>1 DEF NtpType, Time!Cancelled
<1>3. /\ m.trust = n.before /\ m.before = n.before /\ m.server = n.server /\ m.terminating = TRUE
      /\ m.testing = FALSE /\ m.testAttempts = n.testAttempts /\ m.set = n.set
      /\ m.helperServer = n.helperServer
      /\ m.helper = IF n.helper = "running" THEN "killed" ELSE n.helper
  BY <1>1 DEF NtpType, Time!Cancelled
<1> HIDE DEF m
<1>4. Truthful(m, c)
  BY <1>1, <1>3 DEF Sound, Truthful, Told
<1>5. Minded(m, c)
  BY <1>1, <1>3 DEF Sound, Minded, Told
<1>6. Bounded(m)
  BY <1>1, <1>3 DEF Sound, Bounded
<1>7. Sound(m, c)
  BY <1>2, <1>4, <1>5, <1>6 DEF Sound
<1> QED
  BY <1>7 DEF m

\* A stop leaves no attempt under way.
LEMMA HaltedSound ==
    ASSUME NEW n, NEW c, Sound(n, c)
    PROVE  Sound(Time!Halted(n), c) /\ Time!Halted(n).trust # "syncing"
<1>1. n \in NtpType
  BY DEF Sound
<1>2. CASE n.trust = "syncing"
  <2>1. ~n.terminating /\ n.before \in Told
    BY <1>1, <1>2 DEF Sound, Minded, NtpType
  <2>2. Time!Halted(n) = [Time!Cancelled([n EXCEPT !.testing = FALSE]) EXCEPT !.trust = n.before]
    BY <1>2, <2>1 DEF Time!Halted
  <2>3. Time!Halted(n) = [[Time!Cancelled(n) EXCEPT !.trust = n.before] EXCEPT !.testing = FALSE]
    BY <1>1, <2>2 DEF NtpType, Time!Cancelled
  <2>4. Time!Halted(n).trust = n.before
    BY <1>1, <2>3 DEF NtpType, Time!Cancelled
  <2> QED
    BY <1>2, <2>1, <2>3, <2>4, CancelledSound DEF Told
<1>3. CASE n.trust # "syncing"
  <2> DEFINE m == [n EXCEPT !.testing = FALSE]
  <2>1. Time!Halted(n) = m
    BY <1>3 DEF Time!Halted
  <2>2. /\ m \in NtpType
        /\ m.trust = n.trust /\ m.before = n.before /\ m.server = n.server
        /\ m.terminating = n.terminating /\ m.testing = FALSE /\ m.testAttempts = n.testAttempts
        /\ m.set = n.set /\ m.helperServer = n.helperServer /\ m.helper = n.helper
    BY <1>1 DEF NtpType
  <2> HIDE DEF m
  <2>3. Sound(m, c)
    BY <1>3, <2>2 DEF Sound, Truthful, Minded, Bounded
  <2> QED
    BY <1>3, <2>1, <2>2, <2>3
<1> QED
  BY <1>2, <1>3

\* New settings are told of as such: what was synchronised before is a holdover.
LEMMA AppliedSound ==
    ASSUME NEW n, NEW c, Sound(n, c), NEW settings \in Time!Settings
    PROVE  Sound(Time!Applied(n, settings), c)
<1> DEFINE b == IF n.trust = "syncing"
                THEN [[Time!Cancelled(n) EXCEPT !.trust = n.before] EXCEPT !.testing = FALSE]
                ELSE [n EXCEPT !.testing = FALSE]
           m == Time!Applied(n, settings)
<1>1. Sound(b, c) /\ b.trust # "syncing" /\ b.testing = FALSE
  <2>1. CASE n.trust = "syncing"
    <3>1. n \in NtpType /\ n.before \in Told
      BY <2>1 DEF Sound, Minded, NtpType
    <3>2. b.trust = n.before /\ b.testing = FALSE
      BY <2>1, <3>1 DEF NtpType, Time!Cancelled
    <3> QED
      BY <2>1, <3>1, <3>2, CancelledSound DEF Told
  <2>2. CASE n.trust # "syncing"
    <3>1. /\ n \in NtpType /\ b \in NtpType
          /\ b.trust = n.trust /\ b.before = n.before /\ b.server = n.server
          /\ b.terminating = n.terminating /\ b.testing = FALSE /\ b.testAttempts = n.testAttempts
          /\ b.set = n.set /\ b.helperServer = n.helperServer /\ b.helper = n.helper
      BY <2>2 DEF NtpType, Sound
    <3> HIDE DEF b
    <3> QED
      BY <2>2, <3>1 DEF Sound, Truthful, Minded, Bounded
  <2> QED
    BY <2>1, <2>2
<1>2. settings.on \in BOOLEAN /\ settings.server \in NtpServers /\ settings.interval \in Intervals
  BY DEF Time!Settings
<1>3. n \in NtpType /\ b \in NtpType
  BY <1>1 DEF Sound
<1>4. /\ m \in NtpType
      /\ m.trust = (IF b.trust = "synced" THEN "holdover" ELSE b.trust)
      /\ m.terminating = b.terminating /\ m.testing = FALSE /\ m.testAttempts = b.testAttempts
      /\ m.set = b.set /\ m.helperServer = b.helperServer /\ m.helper = b.helper
  <2>1. PICK k : k = IF n.trust = "syncing"
                     THEN [Time!Cancelled(n) EXCEPT !.trust = n.before] ELSE n
    OBVIOUS
  <2>2. n.trust = "syncing" => n.before \in Told
    BY <1>3 DEF Sound, Minded, NtpType
  <2>3. /\ k \in NtpType
        /\ k.trust = b.trust /\ k.terminating = b.terminating /\ k.testAttempts = b.testAttempts
        /\ k.set = b.set /\ k.helperServer = b.helperServer /\ k.helper = b.helper
    <3>1. CASE n.trust = "syncing"
      <4>1. k = [Time!Cancelled(n) EXCEPT !.trust = n.before] /\ k \in NtpType
        <5> HIDE DEF b, m
        <5>1. k = [Time!Cancelled(n) EXCEPT !.trust = n.before]
          BY <2>1, <3>1
        <5>2. PICK helper : helper = IF n.helper = "running" THEN "killed" ELSE n.helper
          OBVIOUS
        <5>3. Time!Cancelled(n) = [n EXCEPT !.terminating = TRUE, !.helper = helper]
          BY <5>2 DEF Time!Cancelled
        <5> QED
          BY ZenonT(60), <1>3, <2>2, <3>1, <5>1, <5>2, <5>3 DEF NtpType
      <4>2. b = [k EXCEPT !.testing = FALSE]
        BY <3>1, <4>1
      <4> HIDE DEF b
      <4> QED
        BY <4>1, <4>2 DEF NtpType
    <3>2. CASE n.trust # "syncing"
      BY <1>3, <2>1, <3>2 DEF NtpType
    <3> QED
      BY <3>1, <3>2
  <2>4. m = [k EXCEPT !.trust = IF @ = "synced" THEN "holdover" ELSE @,
                      !.testing = FALSE, !.on = settings.on, !.server = settings.server,
                      !.interval = settings.interval, !.retry = "off", !.normal = "off",
                      !.applied = TRUE]
    BY <2>1 DEF Time!Applied
  <2> HIDE DEF b, m
  <2>5. k.trust \in Told
    BY <1>1, <2>3 DEF NtpType, Told
  <2>6. /\ m.trust = (IF k.trust = "synced" THEN "holdover" ELSE k.trust)
        /\ m.terminating = k.terminating /\ m.testing = FALSE /\ m.testAttempts = k.testAttempts
        /\ m.set = k.set /\ m.helperServer = k.helperServer /\ m.helper = k.helper
    BY <2>3, <2>4 DEF NtpType
  <2>7. m \in NtpType
    <3>1. PICK told \in Told : told = IF k.trust = "synced" THEN "holdover" ELSE k.trust
      BY <2>5 DEF Told
    <3>2. m = [k EXCEPT !.trust = told,
                        !.testing = FALSE, !.on = settings.on, !.server = settings.server,
                        !.interval = settings.interval, !.retry = "off", !.normal = "off",
                        !.applied = TRUE]
      BY <2>4, <3>1
    <3> QED
      BY ZenonT(60), <1>2, <2>3, <3>2 DEF NtpType, Timer
  <2> QED
    BY <2>3, <2>6, <2>7
<1> HIDE DEF b, m
<1>5. Truthful(m, c)
  BY <1>1, <1>4 DEF Sound, Truthful, Time!ByNtp
<1>6. Minded(m, c) /\ Bounded(m)
  BY <1>1, <1>4 DEF Sound, Minded, Bounded
<1>7. Sound(m, c)
  BY <1>4, <1>5, <1>6 DEF Sound
<1> QED
  BY <1>7 DEF m

\* The settings that a ready application takes over.
LEMMA SettledSound ==
    ASSUME NEW n, NEW c, Sound(n, c), NEW settings \in Time!Settings,
           NEW m \in Time!Settled(n, settings)
    PROVE  Sound(m, c)
<1>1. n \in NtpType /\ settings.interval \in Intervals
  BY DEF Sound, Time!Settings
<1>2. \/ m = n \/ m = Time!Applied(n, settings)
      \/ \E due \in {"due", "runs"} :
            m = [n EXCEPT !.interval = settings.interval, !.normal = due,
                          !.retry = IF n.testing THEN @ ELSE due]
      \/ m = [n EXCEPT !.interval = settings.interval]
  BY DEF Time!Settled
<1>3. CASE m = Time!Applied(n, settings)
  BY <1>3, AppliedSound
<1>4. CASE m # Time!Applied(n, settings)
  <2>1. /\ m \in NtpType /\ m.trust = n.trust /\ m.before = n.before /\ m.server = n.server
        /\ m.terminating = n.terminating /\ m.testing = n.testing
        /\ m.testAttempts = n.testAttempts
        /\ m.set = n.set /\ m.helperServer = n.helperServer /\ m.helper = n.helper
    <3>1. CASE m = n
      BY <1>1, <3>1
    <3>2. ASSUME NEW due \in {"due", "runs"},
                 m = [n EXCEPT !.interval = settings.interval, !.normal = due,
                               !.retry = IF n.testing THEN @ ELSE due]
          PROVE  <2>1
      <4>1. PICK retry \in Timer : retry = IF n.testing THEN n.retry ELSE due
        BY <1>1 DEF NtpType, Timer
      <4>2. m = [n EXCEPT !.interval = settings.interval, !.normal = due, !.retry = retry]
        BY <3>2, <4>1
      <4> QED
        BY <1>1, <4>2 DEF NtpType, Timer
    <3>3. CASE m = [n EXCEPT !.interval = settings.interval]
      BY <1>1, <3>3 DEF NtpType
    <3> QED
      BY <1>2, <1>4, <3>1, <3>2, <3>3
  <2> QED
    BY <2>1 DEF Sound, Truthful, Minded, Bounded
<1> QED
  BY <1>3, <1>4

\* A helper that was reaped or found ended is known no more.
LEMMA PolledIs ==
    ASSUME NEW n \in NtpType
    PROVE  /\ Time!Polled(n) \in NtpType
           /\ Time!Polled(n) = [n EXCEPT !.helper = "none"]
           /\ Time!Polled(n).helper = "none"
           /\ \A field \in DOMAIN n \ {"helper"} : Time!Polled(n)[field] = n[field]
  BY DEF NtpType, Time!Polled

\* A failure is told as what was before it allows; the test ends with its last attempt.
LEMMA FailedSound ==
    ASSUME NEW n \in NtpType, NEW c, n.testAttempts <= TestAttempts,
           n.helper = "succeeded" => n.set,
           n.before \in {"synced", "holdover"} => c.by = "ntp",
           n.helper # "none" => n.terminating /\ (n.set => c = Time!ByNtp(n.helperServer))
    PROVE  Sound(Time!Failed(n), c)
<1> DEFINE m == Time!Failed(n)
<1>1. m = [Time!Rescheduled(n) EXCEPT !.trust =
               CASE n.before = "manual" -> "manual"
                 [] n.before \in {"synced", "holdover"} -> "holdover"
                 [] OTHER -> "error"]
  BY DEF Time!Failed
<1>2. PICK r : r = Time!Rescheduled(n)
  OBVIOUS
<1>3. /\ r \in NtpType /\ r.testing = (n.testing /\ n.testAttempts < TestAttempts)
      /\ r.testAttempts = n.testAttempts /\ r.before = n.before /\ r.server = n.server
      /\ r.terminating = n.terminating /\ r.set = n.set /\ r.helperServer = n.helperServer
      /\ r.helper = n.helper
  <2>1. PICK again \in BOOLEAN : again = (n.testing /\ n.testAttempts < TestAttempts)
    BY DEF NtpType
  <2>2. r = [n EXCEPT !.retry = "runs", !.normal = "runs", !.testing = again]
    BY <1>2, <2>1 DEF Time!Rescheduled
  <2>3. r \in NtpType
    BY <2>2 DEF NtpType, Timer
  <2>4. r.testing = again /\ r.testAttempts = n.testAttempts /\ r.before = n.before
    BY <2>2 DEF NtpType
  <2>5. /\ r.server = n.server /\ r.terminating = n.terminating /\ r.set = n.set
        /\ r.helperServer = n.helperServer /\ r.helper = n.helper
    BY <2>2 DEF NtpType
  <2> QED
    BY <2>1, <2>3, <2>4, <2>5
<1>4. PICK told \in {"manual", "holdover", "error"} :
          /\ m = [r EXCEPT !.trust = told]
          /\ told = "holdover" => n.before \in {"synced", "holdover"}
  BY <1>1, <1>2
<1> HIDE DEF m
<1>5. /\ m \in NtpType /\ m.trust = told /\ m.testing = r.testing
      /\ m.testAttempts = r.testAttempts /\ m.before = r.before /\ m.server = r.server
      /\ m.terminating = r.terminating /\ m.set = r.set /\ m.helperServer = r.helperServer
      /\ m.helper = r.helper
  BY <1>3, <1>4 DEF NtpType, Told
<1>6. Truthful(m, c)
  BY <1>4, <1>5 DEF Truthful
<1>7. Minded(m, c)
  BY <1>3, <1>4, <1>5 DEF Minded
<1>8. Bounded(m)
  BY <1>3, <1>5 DEF Bounded
<1>9. Sound(m, c)
  BY <1>5, <1>6, <1>7, <1>8 DEF Sound
<1> QED
  BY <1>9 DEF m

\* A cancelled helper that is gone is known no more.
LEMMA ReapedSound ==
    ASSUME NEW n, NEW c, Sound(n, c), n.terminating
    PROVE  Sound(Time!Reaped(n), c) /\ Time!Reaped(n).trust # "syncing"
<1>1. n \in NtpType /\ n.trust # "syncing"
  BY DEF Sound, Minded
<1>2. CASE Time!Lives(n)
  BY <1>1, <1>2 DEF Time!Reaped
<1>3. CASE ~Time!Lives(n)
  <2> DEFINE m == Time!Reaped(n)
  <2>1. m = [Time!Polled(n) EXCEPT !.terminating = FALSE]
    BY <1>3 DEF Time!Reaped
  <2>2. /\ m \in NtpType /\ m.trust = n.trust /\ m.before = n.before /\ m.server = n.server
        /\ m.terminating = FALSE /\ m.testing = n.testing /\ m.testAttempts = n.testAttempts
        /\ m.helper = "none"
    BY ZenonT(60), <1>1, <2>1 DEF NtpType, Time!Polled
  <2> HIDE DEF m
  <2>3. Sound(m, c)
    BY <1>1, <2>2 DEF Sound, Truthful, Minded, Bounded
  <2> QED
    BY <1>1, <2>2, <2>3 DEF m
<1> QED
  BY <1>2, <1>3

\* What the attempt under way comes to.
LEMMA AwaitedSound ==
    ASSUME NEW n, NEW c, Sound(n, c), n.trust = "syncing", NEW m \in Time!Awaited(n)
    PROVE  Sound(m, c)
<1>1. /\ n \in NtpType /\ n.before \in Told /\ ~n.terminating /\ n.testAttempts <= TestAttempts
      /\ n.helper # "none" => /\ n.set => c = Time!ByNtp(n.helperServer)
                              /\ n.helperServer = n.server
      /\ n.helper = "succeeded" => n.set
      /\ n.before \in {"synced", "holdover"} => c.by = "ntp"
  BY DEF Sound, Minded, Truthful, Bounded, NtpType, Time!ByNtp
<1> DEFINE p == Time!Polled(n)
<1>2. /\ p \in NtpType /\ p.trust = n.trust /\ p.before = n.before /\ p.server = n.server
      /\ p.terminating = FALSE /\ p.testing = n.testing /\ p.testAttempts = n.testAttempts
      /\ p.helper = "none"
  BY <1>1 DEF NtpType, Time!Polled
<1> HIDE DEF p
<1>3. Sound(Time!Failed(p), c)
  BY <1>1, <1>2, FailedSound
<1>4. CASE n.helper = "succeeded"
  <2>1. \/ m = [Time!Rescheduled(p) EXCEPT !.trust = "synced"]
        \/ m = Time!Failed([p EXCEPT !.before = "unsynced"])
    BY <1>4 DEF Time!Awaited, p
  <2>2. CASE m = [Time!Rescheduled(p) EXCEPT !.trust = "synced"]
    <3>1. PICK testing \in BOOLEAN : testing = (p.testing /\ p.testAttempts < TestAttempts)
      BY <1>2 DEF NtpType
    <3>2. m = [[p EXCEPT !.retry = "runs", !.normal = "runs", !.testing = testing]
                  EXCEPT !.trust = "synced"]
      BY <2>2, <3>1 DEF Time!Rescheduled
    <3>3. /\ m \in NtpType /\ m.trust = "synced" /\ m.server = p.server /\ m.helper = "none"
          /\ m.testing = testing /\ m.testAttempts = p.testAttempts
      BY ZenonT(60), <1>2, <3>2 DEF NtpType, Told, Timer
    <3>4. c = Time!ByNtp(n.server)
      BY <1>1, <1>4
    <3> QED
      BY <1>1, <1>2, <3>1, <3>3, <3>4 DEF Sound, Truthful, Minded, Bounded
  <2>3. CASE m = Time!Failed([p EXCEPT !.before = "unsynced"])
    <3> DEFINE q == [p EXCEPT !.before = "unsynced"]
    <3>1. /\ q \in NtpType /\ q.before = "unsynced" /\ q.testAttempts = p.testAttempts
          /\ q.helper = "none"
      BY <1>2 DEF NtpType, Told
    <3> HIDE DEF q
    <3>2. Sound(Time!Failed(q), c)
      BY <1>1, <1>2, <3>1, FailedSound
    <3> QED
      BY <2>3, <3>2 DEF q
  <2> QED
    BY <2>1, <2>2, <2>3
<1>5. CASE n.helper \in {"failed", "none"}
  <2>1. m = Time!Failed(p)
    BY <1>5 DEF Time!Awaited, p
  <2> QED
    BY <1>3, <2>1
<1>6. CASE n.helper \notin {"succeeded", "failed", "none"}
  <2>1. m = IF n.timeout = "due" THEN Time!Failed(Time!Cancelled(n)) ELSE n
    BY <1>6 DEF Time!Awaited
  <2> DEFINE q == Time!Cancelled(n)
  <2>2. /\ q \in NtpType /\ q.before = n.before /\ q.server = n.server /\ q.terminating = TRUE
        /\ q.testing = n.testing /\ q.testAttempts = n.testAttempts /\ q.set = n.set
        /\ q.helperServer = n.helperServer
        /\ q.helper = IF n.helper = "running" THEN "killed" ELSE n.helper
    BY ZenonT(60), <1>1 DEF NtpType, Time!Cancelled
  <2> HIDE DEF q
  <2>3. Sound(Time!Failed(q), c)
    BY <1>1, <1>6, <2>2, FailedSound
  <2> QED
    BY <2>1, <2>3 DEF q
<1> QED
  BY <1>4, <1>5, <1>6

\* An attempt is made when no helper is known, and for the server of now.
LEMMA StartedSound ==
    ASSUME NEW n, NEW c, Sound(n, c), n.trust # "syncing", ~n.terminating,
           NEW m \in Time!Started(n)
    PROVE  Sound(m, c)
<1>1. n \in NtpType /\ n.trust \in Told /\ n.helper = "none"
  BY DEF Sound, Minded, NtpType
<1>2. PICK attempts : attempts = IF n.testing THEN n.testAttempts + 1 ELSE n.testAttempts
  OBVIOUS
<1>3. attempts \in Nat /\ attempts <= TestAttempts
  BY <1>1, <1>2, ServicesAssumption DEF Sound, Bounded, NtpType
<1> DEFINE k == [n EXCEPT !.before = n.trust, !.testAttempts = attempts]
<1>4. /\ k \in NtpType /\ k.trust = n.trust /\ k.before = n.trust /\ k.server = n.server
      /\ k.terminating = FALSE /\ k.testing = n.testing /\ k.testAttempts = attempts
      /\ k.helper = "none"
  BY <1>1, <1>3 DEF NtpType
<1>5. \/ m = Time!Failed(k)
      \/ m = [k EXCEPT !.trust = "syncing", !.helper = "running", !.helperServer = n.server,
                       !.set = FALSE, !.timeout = "runs"]
  BY <1>2 DEF Time!Started
<1> HIDE DEF k
<1>6. n.trust \in {"synced", "holdover"} => c.by = "ntp"
  BY DEF Sound, Truthful, Time!ByNtp
<1>7. Sound(Time!Failed(k), c)
  BY <1>3, <1>4, <1>6, FailedSound
<1>8. CASE m = [k EXCEPT !.trust = "syncing", !.helper = "running", !.helperServer = n.server,
                         !.set = FALSE, !.timeout = "runs"]
  <2>1. /\ m \in NtpType /\ m.trust = "syncing" /\ m.before = n.trust /\ m.server = n.server
        /\ m.terminating = FALSE /\ m.testing = n.testing /\ m.testAttempts = attempts
        /\ m.set = FALSE /\ m.helperServer = n.server /\ m.helper = "running"
    BY ZenonT(60), <1>1, <1>4, <1>8 DEF NtpType, Timer
  <2>2. Truthful(m, c)
    BY <1>1, <2>1 DEF Sound, Truthful
  <2> QED
    BY <1>1, <1>3, <2>1, <2>2 DEF Sound, Minded, Bounded, Told
<1> QED
  BY <1>5, <1>7, <1>8

\* The rest of a step of the synchronisation.
LEMMA SyncedSound ==
    ASSUME NEW n, NEW c, Sound(n, c), NEW stopping \in BOOLEAN,
           NEW m \in Time!Synced(n, stopping)
    PROVE  /\ Sound(m, c)
           /\ stopping /\ n.trust # "syncing" => m.trust # "syncing"
<1> DEFINE r == IF n.terminating THEN Time!Reaped(n) ELSE n
<1>1. Sound(r, c) /\ (n.trust # "syncing" => r.trust # "syncing")
  BY ReapedSound
<1>2. IF r.terminating \/ stopping \/ ~r.applied \/ ~r.on THEN m = r
      ELSE IF r.trust = "syncing" THEN m \in Time!Awaited(r)
      ELSE m = Time!Deferred(r) \/ m = r \/ m \in Time!Started(r)
  BY DEF Time!Synced
<1> HIDE DEF r
<1>3. CASE m = r
  BY <1>1, <1>3
<1>4. CASE m \in Time!Awaited(r) /\ r.trust = "syncing" /\ ~stopping
  BY <1>1, <1>4, AwaitedSound
<1>5. CASE m \in Time!Started(r) /\ r.trust # "syncing" /\ ~r.terminating /\ ~stopping
  BY <1>1, <1>5, StartedSound
<1>6. CASE m = Time!Deferred(r) /\ r.trust # "syncing" /\ ~stopping
  <2>1. PICK told : told = IF r.trust = "synced" /\ r.normal = "due" THEN "holdover" ELSE r.trust
    OBVIOUS
  <2>2. m = [r EXCEPT !.trust = told] /\ r \in NtpType
    BY <1>1, <1>6, <2>1 DEF Time!Deferred, Sound
  <2>3. told \in Told /\ (told # r.trust => r.trust = "synced" /\ told = "holdover")
    BY <1>6, <2>1, <2>2 DEF NtpType, Told
  <2>4. /\ m \in NtpType /\ m.trust = told /\ m.before = r.before /\ m.server = r.server
        /\ m.terminating = r.terminating /\ m.testing = r.testing
        /\ m.testAttempts = r.testAttempts
        /\ m.set = r.set /\ m.helperServer = r.helperServer /\ m.helper = r.helper
    BY <2>2, <2>3 DEF NtpType
  <2>5. Truthful(m, c)
    BY <1>1, <1>6, <2>3, <2>4 DEF Sound, Truthful, Time!ByNtp
  <2> QED
    BY <1>1, <1>6, <2>3, <2>4, <2>5 DEF Sound, Minded, Bounded
<1> QED
  BY <1>2, <1>3, <1>4, <1>5, <1>6

\* A step of the application.
LEMMA StepClock ==
    ASSUME ClockInv, NEW settings \in Time!Settings, Time!Step(settings)
    PROVE  ClockInv'
<1>1. PICK stopping \in BOOLEAN :
          /\ stopping = (stopRequested \/ coordinator' \in {"shutting", "stopped"})
          /\ \E n \in IF stopping THEN {Time!Halted(ntp)} ELSE Time!Settled(ntp, settings) :
                ntp' \in Time!Synced(n, stopping)
  BY DEF Time!Step
<1>2. PICK n : /\ n \in IF stopping THEN {Time!Halted(ntp)} ELSE Time!Settled(ntp, settings)
               /\ ntp' \in Time!Synced(n, stopping)
  BY <1>1
<1>3. Sound(ntp, clock) /\ clock' = clock
  BY DEF ClockInv, Time!Step
<1>4. Sound(n, clock) /\ (stopping => n.trust # "syncing")
  <2>1. CASE stopping
    BY <1>2, <1>3, <2>1, HaltedSound
  <2>2. CASE ~stopping
    BY <1>2, <1>3, <2>2, SettledSound
  <2> QED
    BY <2>1, <2>2
<1>5. Sound(ntp', clock) /\ (stopping => ntp'.trust # "syncing")
  BY <1>2, <1>4, SyncedSound
<1>6. coordinator' \in {"starting", "ready", "shutting", "stopped"}
  BY DEF Time!Step, Time!CoordinatorStep, ClockInv
<1>7. /\ process # "stopped"
      /\ process' = CASE coordinator' = "ready" -> "running"
                      [] coordinator' = "shutting" -> "stopping"
                      [] coordinator' = "stopped" ->
                             IF ntp'.terminating THEN "stopping" ELSE "stopped"
                      [] OTHER -> process
  BY DEF Time!Step
<1>8. process' \in {"starting", "running", "stopping", "stopped"}
  BY <1>6, <1>7 DEF ClockInv
<1>9. process' = "stopped" => ~ntp'.terminating /\ stopping
  BY <1>1, <1>6, <1>7
<1>10. process' = "stopped" => ntp'.helper = "none" /\ ntp'.trust # "syncing"
  BY <1>5, <1>9 DEF Sound, Minded
<1> QED
  BY <1>3, <1>5, <1>6, <1>8, <1>10 DEF ClockInv

\* The clock is set by hand only when no helper is known.
LEMMA SetByHandClock == ASSUME ClockInv, Time!SetByHand PROVE ClockInv'
<1>1. /\ ntp \in NtpType /\ ntp.helper = "none" /\ ntp' = [ntp EXCEPT !.trust = "manual"]
      /\ process # "stopped"
  BY DEF ClockInv, Sound, Minded, Time!SetByHand
<1>2. /\ ntp' \in NtpType /\ ntp'.trust = "manual" /\ ntp'.helper = "none"
      /\ ntp'.testing = ntp.testing /\ ntp'.testAttempts = ntp.testAttempts
  BY <1>1 DEF NtpType, Told
<1>3. Bounded(ntp')
  BY <1>2 DEF ClockInv, Sound, Bounded, Time!SetByHand
<1>4. Sound(ntp', clock')
  BY <1>2, <1>3 DEF Sound, Truthful, Minded
<1> QED
  BY <1>1, <1>4 DEF ClockInv, Time!SetByHand

\* A test that is started counts from nothing.
LEMMA TestClock ==
    ASSUME ClockInv, NEW enabled \in BOOLEAN, Time!Test(enabled)
    PROVE  ClockInv'
<1>1. PICK attempts : attempts = IF enabled THEN 0 ELSE ntp.testAttempts
  OBVIOUS
<1>2. PICK normal : normal = IF enabled THEN ntp.retry ELSE ntp.normal
  OBVIOUS
<1>3. PICK retry : retry = CASE ntp.trust = "syncing" -> ntp.retry
                             [] enabled -> "runs"
                             [] OTHER -> normal
  OBVIOUS
<1>4. ntp \in NtpType /\ process = "running" /\ clock' = clock
  BY DEF ClockInv, Sound, Time!Test
<1>5. ntp' = [ntp EXCEPT !.testing = enabled, !.normal = normal, !.testAttempts = attempts,
                         !.retry = retry]
  BY <1>1, <1>2, <1>3 DEF Time!Test
<1>6. normal \in Timer /\ retry \in Timer /\ attempts \in Nat
  BY <1>1, <1>2, <1>3, <1>4 DEF NtpType, Timer
<1>7. /\ ntp' \in NtpType /\ ntp'.trust = ntp.trust /\ ntp'.before = ntp.before
      /\ ntp'.server = ntp.server /\ ntp'.terminating = ntp.terminating
      /\ ntp'.testing = enabled /\ ntp'.testAttempts = attempts
      /\ ntp'.set = ntp.set /\ ntp'.helperServer = ntp.helperServer /\ ntp'.helper = ntp.helper
  BY <1>4, <1>5, <1>6 DEF NtpType
<1>8. Truthful(ntp', clock') /\ Minded(ntp', clock')
  BY <1>4, <1>7 DEF ClockInv, Sound, Truthful, Minded
<1>9. Bounded(ntp')
  <2>1. TestAttempts \in Nat \ {0}
    BY ServicesAssumption
  <2>2. CASE enabled
    BY <1>1, <1>7, <2>1, <2>2 DEF Bounded
  <2>3. CASE ~enabled
    BY <1>1, <1>7, <2>3 DEF Bounded, ClockInv, Sound
  <2> QED
    BY <2>2, <2>3
<1> QED
  BY <1>4, <1>7, <1>8, <1>9 DEF ClockInv, Sound, Time!Test

\* A timer that falls due is nothing else.
LEMMA FallsDueClock ==
    ASSUME ClockInv, NEW timer \in {"timeout", "retry", "normal"}, Time!FallsDue(timer)
    PROVE  ClockInv'
<1>1. /\ ntp \in NtpType /\ ntp' = [ntp EXCEPT ![timer] = "due"]
      /\ UNCHANGED <<coordinator, process, clock>>
  BY DEF ClockInv, Sound, Time!FallsDue
<1>2. /\ ntp' \in NtpType /\ ntp'.trust = ntp.trust /\ ntp'.before = ntp.before
      /\ ntp'.server = ntp.server /\ ntp'.terminating = ntp.terminating
      /\ ntp'.testing = ntp.testing /\ ntp'.testAttempts = ntp.testAttempts
      /\ ntp'.set = ntp.set /\ ntp'.helperServer = ntp.helperServer /\ ntp'.helper = ntp.helper
  <2>1. CASE timer = "timeout"
    BY <1>1, <2>1 DEF NtpType, Timer
  <2>2. CASE timer = "retry"
    BY <1>1, <2>2 DEF NtpType, Timer
  <2>3. CASE timer = "normal"
    BY <1>1, <2>3 DEF NtpType, Timer
  <2> QED
    BY <2>1, <2>2, <2>3
<1> QED
  BY <1>1, <1>2 DEF ClockInv, Sound, Truthful, Minded, Bounded

\* What a helper sets is the time of its own server.
LEMMA HelperSetsClockClock == ASSUME ClockInv, Time!HelperSetsClock PROVE ClockInv'
<1>1. /\ ntp \in NtpType /\ ntp.helper \in {"running", "killed"}
      /\ clock' = Time!ByNtp(ntp.helperServer) /\ ntp' = [ntp EXCEPT !.set = TRUE]
      /\ UNCHANGED <<coordinator, process>>
  BY DEF ClockInv, Sound, Time!HelperSetsClock, Time!Lives
<1>2. /\ ntp' \in NtpType /\ ntp'.trust = ntp.trust /\ ntp'.before = ntp.before
      /\ ntp'.server = ntp.server /\ ntp'.terminating = ntp.terminating
      /\ ntp'.testing = ntp.testing /\ ntp'.testAttempts = ntp.testAttempts
      /\ ntp'.set = TRUE /\ ntp'.helperServer = ntp.helperServer /\ ntp'.helper = ntp.helper
  BY <1>1 DEF NtpType
<1>3. ntp.trust \in {"syncing", "synced"} => ntp.helperServer = ntp.server
  BY <1>1 DEF ClockInv, Sound, Minded
<1>4. clock'.by = "ntp"
  BY <1>1 DEF Time!ByNtp
<1>5. Truthful(ntp', clock')
  BY <1>1, <1>2, <1>3, <1>4 DEF Truthful
<1>6. Minded(ntp', clock')
  BY <1>1, <1>2 DEF ClockInv, Sound, Minded
<1>7. Bounded(ntp')
  BY <1>2 DEF ClockInv, Sound, Bounded
<1> QED
  BY <1>1, <1>2, <1>5, <1>6, <1>7 DEF ClockInv, Sound

\* A helper succeeds only when it has set the clock.
LEMMA HelperEndsClock == ASSUME ClockInv, Time!HelperEnds PROVE ClockInv'
<1>1. PICK end \in {"succeeded", "failed"} :
          /\ ntp' = [ntp EXCEPT !.helper = end]
          /\ end = "succeeded" => ntp.set
  BY DEF Time!HelperEnds
<1>2. /\ ntp \in NtpType /\ ntp.helper \in {"running", "killed"}
      /\ UNCHANGED <<coordinator, process, clock>>
  BY DEF ClockInv, Sound, Time!HelperEnds, Time!Lives
<1>3. /\ ntp' \in NtpType /\ ntp'.trust = ntp.trust /\ ntp'.before = ntp.before
      /\ ntp'.server = ntp.server /\ ntp'.terminating = ntp.terminating
      /\ ntp'.testing = ntp.testing /\ ntp'.testAttempts = ntp.testAttempts
      /\ ntp'.set = ntp.set /\ ntp'.helperServer = ntp.helperServer /\ ntp'.helper = end
  BY <1>1, <1>2 DEF NtpType
<1>4. Truthful(ntp', clock') /\ Bounded(ntp')
  BY <1>2, <1>3 DEF ClockInv, Sound, Truthful, Bounded
<1>5. Minded(ntp', clock')
  BY <1>1, <1>2, <1>3 DEF ClockInv, Sound, Minded
<1> QED
  BY <1>2, <1>3, <1>4, <1>5 DEF ClockInv, Sound

\* The invariant of the clock holds at first.
LEMMA ClockInit == Time!Init => ClockInv
<1> SUFFICES ASSUME Time!Init PROVE ClockInv
  OBVIOUS
<1>1. ntp \in NtpType
  BY DEF Time!Init, NtpType, Told, Timer
<1>2. Truthful(ntp, clock) /\ Minded(ntp, clock) /\ Bounded(ntp)
  BY ServicesAssumption DEF Time!Init, Truthful, Minded, Bounded
<1> QED
  BY <1>1, <1>2 DEF Time!Init, ClockInv, Sound

\* Every step of the clock keeps it.
LEMMA ClockStep == ASSUME ClockInv, Time!Next \/ UNCHANGED timeVars PROVE ClockInv'
<1>1. CASE UNCHANGED timeVars
  BY <1>1 DEF timeVars, ClockInv, Sound, Truthful, Minded, Bounded
<1>2. CASE Time!RequestStop
  BY <1>2 DEF Time!RequestStop, ClockInv, Sound, Truthful, Minded, Bounded
<1> QED
  BY <1>1, <1>2, StepClock, SetByHandClock, TestClock, FallsDueClock, HelperSetsClockClock,
     HelperEndsClock DEF Time!Next

-----------------------------------------------------------------------------
(* The web service (WebGateway).                                             *)

AccountType ==
    [administrator : BOOLEAN, code : BOOLEAN, recovery : BOOLEAN,
     token : Web!Protocols \cup {Web!None},
     worker : {Web!None, "login", "enroll", "change", "commit", "committed"},
     ended : {"no", "done", "denied", "kept", "failed"}, saveFailed : BOOLEAN]

GateType ==
    [at : {"switch", "reap", "serve"}, seen : Web!Protocols, switching : BOOLEAN,
     from : Web!Protocols \cup {Web!None}, failed : {"no", "new", "old"},
     launched : Web!Protocols, service : {Web!None, "running", "ended"}, stopping : BOOLEAN,
     attaching : BOOLEAN, peer : BOOLEAN, reply : BOOLEAN, auth : BOOLEAN, asker : BOOLEAN]

BrokerType ==
    [process : {Web!None, "running", "ok", "bad"}, stopping : BOOLEAN, fault : BOOLEAN,
     ready : BOOLEAN, failed : BOOLEAN]

ConfigType ==
    [enabled : BOOLEAN, protocol : Web!Protocols,
     next : {Web!NoChange} \cup [enabled : BOOLEAN, protocol : Web!Protocols]]

\* An account with a session, or a login under way, stands on a password that is known
\* to be stored; only a commit that has renamed the file makes another of it.
Trusted(a, protocol, file) ==
    /\ a.token # Web!None => a.token = protocol /\ a.administrator /\ ~a.saveFailed
    /\ a.worker = "login" => a.administrator /\ ~a.saveFailed
    /\ a.administrator /\ ~a.saveFailed /\ a.worker # "committed" => file = "same"
    /\ a.worker = Web!None => a.ended = "no"
    /\ a.ended = "kept" => a.worker = "commit"

\* What is answered was asked, and a switch knows what it goes back to.
Asked(g) ==
    /\ g.auth \/ g.reply => g.asker
    /\ g.switching => g.from # Web!None

\* A broker that failed is remembered, at the latest when it is reaped.
Remembered(b) == b.failed => b.fault \/ b.process = "bad"

StateType == [gate : GateType, broker : BrokerType, account : AccountType]

WebSound(s, file) ==
    /\ s \in StateType
    /\ Trusted(s.account, s.gate.seen, file)
    /\ Asked(s.gate)

WebInv ==
    /\ config \in ConfigType
    /\ WebSound(Web!All, stored)
    /\ Remembered(broker)
    /\ stored \in {Web!None, "same", "other"}

\* A worker that is not waited for leaves no doubt in what is trusted.
LEMMA StopWorkerTrusted ==
    ASSUME NEW a \in AccountType, NEW protocol, NEW file, Trusted(a, protocol, file)
    PROVE  /\ Web!StopWorker(a) \in AccountType
           /\ Trusted(Web!StopWorker(a), protocol, file)
           /\ Web!StopWorker(a).worker = Web!None
           /\ Web!StopWorker(a).token \in {a.token, Web!None}
<1> DEFINE m == Web!StopWorker(a)
<1>1. PICK token : token = IF a.worker \in Web!Commits THEN Web!None ELSE a.token
  OBVIOUS
<1>2. PICK failed \in BOOLEAN : failed = (a.saveFailed \/ a.worker \in Web!Commits)
  OBVIOUS
<1>3. m = [a EXCEPT !.worker = Web!None, !.ended = "no", !.saveFailed = failed, !.token = token]
  BY <1>1, <1>2 DEF Web!StopWorker
<1>4. token \in Web!Protocols \cup {Web!None}
  BY <1>1 DEF AccountType
<1>5. /\ m \in AccountType /\ m.worker = Web!None /\ m.ended = "no" /\ m.saveFailed = failed
      /\ m.token = token /\ m.administrator = a.administrator
  BY <1>3, <1>4 DEF AccountType
<1> HIDE DEF m
<1>6. Trusted(m, protocol, file)
  <2>1. token # Web!None => a.token # Web!None /\ ~failed /\ token = a.token
    BY <1>1, <1>2 DEF Trusted
  <2>2. ~failed => ~a.saveFailed /\ a.worker # "committed"
    BY <1>2 DEF Web!Commits
  <2> QED
    BY <1>5, <2>1, <2>2 DEF Trusted, Web!None
<1> QED
  BY <1>1, <1>5, <1>6 DEF m

\* Nor does a code that is withdrawn.
LEMMA CancelPendingTrusted ==
    ASSUME NEW a \in AccountType, NEW protocol, NEW file, Trusted(a, protocol, file)
    PROVE  /\ Web!CancelPending(a) \in AccountType
           /\ Trusted(Web!CancelPending(a), protocol, file)
           /\ Web!CancelPending(a).worker = Web!None
<1>1. PICK w : w = Web!StopWorker(a)
  OBVIOUS
<1>2. w \in AccountType /\ Trusted(w, protocol, file) /\ w.worker = Web!None
  BY <1>1, StopWorkerTrusted
<1> DEFINE m == Web!CancelPending(a)
<1>3. m = [w EXCEPT !.code = FALSE, !.recovery = FALSE]
  BY <1>1 DEF Web!CancelPending
<1>4. /\ m \in AccountType /\ m.worker = w.worker /\ m.ended = w.ended /\ m.token = w.token
      /\ m.saveFailed = w.saveFailed /\ m.administrator = w.administrator
  BY <1>2, <1>3 DEF AccountType
<1> HIDE DEF m
<1>5. Trusted(m, protocol, file)
  BY <1>2, <1>4 DEF Trusted
<1> QED
  BY <1>2, <1>4, <1>5 DEF m

\* A session that is ended is trusted under any protocol.
LEMMA EndedSessionTrusted ==
    ASSUME NEW a \in AccountType, NEW protocol, NEW file, Trusted(a, protocol, file), NEW other
    PROVE  /\ [a EXCEPT !.token = Web!None] \in AccountType
           /\ Trusted([a EXCEPT !.token = Web!None], other, file)
           /\ [a EXCEPT !.token = Web!None].worker = a.worker
<1> DEFINE m == [a EXCEPT !.token = Web!None]
<1>1. /\ m \in AccountType /\ m.worker = a.worker /\ m.ended = a.ended /\ m.token = Web!None
      /\ m.saveFailed = a.saveFailed /\ m.administrator = a.administrator
  BY DEF AccountType
<1> HIDE DEF m
<1>2. Trusted(m, other, file)
  BY <1>1 DEF Trusted
<1> QED
  BY <1>1, <1>2 DEF m

\* A session that is cancelled leaves its account trusted, under any protocol.
LEMMA CancelTrusted ==
    ASSUME NEW a \in AccountType, NEW protocol, NEW file, Trusted(a, protocol, file), NEW other
    PROVE  /\ Web!Cancel(a) \in AccountType
           /\ Trusted(Web!Cancel(a), other, file)
           /\ Web!Cancel(a).worker = Web!None
<1>1. PICK w : w = Web!CancelPending(a)
  OBVIOUS
<1>2. w \in AccountType /\ Trusted(w, protocol, file) /\ w.worker = Web!None
  BY <1>1, CancelPendingTrusted
<1>3. Web!Cancel(a) = [w EXCEPT !.token = Web!None]
  BY <1>1 DEF Web!Cancel
<1> QED
  BY <1>2, <1>3, EndedSessionTrusted

\* A new code (local_code) ends what is under way and changes nothing that is trusted.
LEMMA NewCodeTrusted ==
    ASSUME NEW a \in AccountType, NEW protocol, NEW file, Trusted(a, protocol, file),
           NEW recovery \in BOOLEAN
    PROVE  /\ Web!NewCode(a, recovery) \in AccountType
           /\ Trusted(Web!NewCode(a, recovery), protocol, file)
<1>1. PICK w : w = Web!CancelPending(a)
  OBVIOUS
<1>2. w \in AccountType /\ Trusted(w, protocol, file) /\ w.worker = Web!None
  BY <1>1, CancelPendingTrusted
<1> DEFINE m == [w EXCEPT !.code = TRUE, !.recovery = recovery]
<1>3. Web!NewCode(a, recovery) \in {a, m}
  BY <1>1 DEF Web!NewCode
<1>4. /\ m \in AccountType /\ m.worker = w.worker /\ m.ended = w.ended /\ m.token = w.token
      /\ m.saveFailed = w.saveFailed /\ m.administrator = w.administrator
  BY <1>2 DEF AccountType
<1> HIDE DEF m
<1>5. Trusted(m, protocol, file)
  BY <1>2, <1>4 DEF Trusted
<1> QED
  BY <1>3, <1>4, <1>5

\* The passing of time (auth_tick) takes away a code or a session, and gives none.
LEMMA TickedTrusted ==
    ASSUME NEW a \in AccountType, NEW protocol, NEW file, Trusted(a, protocol, file),
           NEW b \in Web!Ticked(a)
    PROVE  b \in AccountType /\ Trusted(b, protocol, file)
<1>1. PICK k \in {a, Web!CancelPending(a)} : b \in {k, [k EXCEPT !.token = Web!None]}
  BY DEF Web!Ticked
<1>2. k \in AccountType /\ Trusted(k, protocol, file)
  BY <1>1, CancelPendingTrusted
<1> QED
  BY <1>1, <1>2, EndedSessionTrusted

\* A worker that failed: exit code 4 says that the stored password is the old one.
LEMMA FailedWorkerTrusted ==
    ASSUME NEW a \in AccountType, NEW protocol, NEW file, Trusted(a, protocol, file)
    PROVE  /\ Web!FailedWorker(a) \in AccountType
           /\ Trusted(Web!FailedWorker(a), protocol, file)
<1>1. PICK code \in BOOLEAN : code = (a.code /\ ~(a.worker \in Web!Commits))
  OBVIOUS
<1>2. PICK left : left = IF a.ended = "kept" THEN Web!None ELSE a.worker
  OBVIOUS
<1> DEFINE b == [a EXCEPT !.code = code, !.worker = left]
<1>3. Web!FailedWorker(a) = Web!StopWorker(b)
  BY <1>1, <1>2 DEF Web!FailedWorker
<1>4. /\ b \in AccountType /\ b.worker = left /\ b.ended = a.ended /\ b.token = a.token
      /\ b.saveFailed = a.saveFailed /\ b.administrator = a.administrator
  BY <1>2 DEF AccountType
<1> HIDE DEF b
<1>5. CASE a.ended # "kept"
  <2>1. Trusted(b, protocol, file)
    BY <1>2, <1>4, <1>5 DEF Trusted
  <2> QED
    BY <1>3, <1>4, <2>1, StopWorkerTrusted
<1>6. CASE a.ended = "kept"
  <2>1. a.worker = "commit" /\ left = Web!None
    BY <1>2, <1>6 DEF Trusted
  <2> DEFINE m == Web!StopWorker(b)
  <2>2. m = [b EXCEPT !.worker = Web!None, !.ended = "no", !.saveFailed = b.saveFailed,
                      !.token = b.token]
    <3>1. b.worker \notin Web!Commits
      BY <1>4, <2>1 DEF Web!Commits, Web!None
    <3>2. (b.saveFailed \/ b.worker \in Web!Commits) = b.saveFailed
      BY <1>4, <3>1 DEF AccountType
    <3> QED
      BY <3>1, <3>2 DEF Web!StopWorker
  <2>3. /\ m \in AccountType /\ m.worker = Web!None /\ m.ended = "no" /\ m.token = a.token
        /\ m.saveFailed = a.saveFailed /\ m.administrator = a.administrator
    BY ZenonT(60), <1>4, <2>2 DEF AccountType
  <2> HIDE DEF m
  <2>4. Trusted(m, protocol, file)
    BY <2>1, <2>3 DEF Trusted, Web!None
  <2> QED
    BY <1>3, <2>3, <2>4 DEF m
<1> QED
  BY <1>5, <1>6

\* A commit that was waited for makes the password in memory the one that is stored.
LEMMA AdoptedTrusted ==
    ASSUME NEW a \in AccountType, NEW protocol \in Web!Protocols
    PROVE  /\ Web!Adopted(a, protocol) \in AccountType
           /\ Trusted(Web!Adopted(a, protocol), protocol, "same")
<1>1. PICK token : token = IF a.administrator THEN Web!None ELSE protocol
  OBVIOUS
<1> DEFINE m == Web!Adopted(a, protocol)
<1>2. m = [a EXCEPT !.administrator = TRUE, !.recovery = FALSE, !.saveFailed = FALSE,
                    !.code = FALSE, !.worker = Web!None, !.ended = "no", !.token = token]
  BY <1>1 DEF Web!Adopted
<1>3. token \in Web!Protocols \cup {Web!None}
  BY <1>1
<1>4. /\ m \in AccountType /\ m.worker = Web!None /\ m.ended = "no" /\ m.token = token
      /\ m.saveFailed = FALSE /\ m.administrator = TRUE
  BY <1>2, <1>3 DEF AccountType
<1> HIDE DEF m
<1>5. Trusted(m, protocol, "same")
  BY <1>1, <1>4 DEF Trusted, Web!None
<1> QED
  BY <1>4, <1>5 DEF m

\* What web_security_poll comes to.
LEMMA PolledTrusted ==
    ASSUME NEW a \in AccountType, NEW protocol \in Web!Protocols, NEW file,
           Trusted(a, protocol, file), NEW b \in Web!Polled(a, protocol), NEW stored1,
           stored1 = IF a.worker = "committed" /\ a.ended = "done" THEN "same" ELSE file
    PROVE  b \in AccountType /\ Trusted(b, protocol, stored1)
<1>1. CASE a.worker = Web!None
  <2>1. b = a /\ stored1 = file
    BY <1>1 DEF Web!Polled, Web!None
  <2> QED
    BY <2>1
<1>2. CASE a.worker = "login" /\ a.ended = "done"
  <2>1. /\ b = [a EXCEPT !.worker = Web!None, !.ended = "no", !.token = protocol]
        /\ stored1 = file
    BY <1>2 DEF Web!Polled, Web!None
  <2>2. /\ b \in AccountType /\ b.worker = Web!None /\ b.ended = "no" /\ b.token = protocol
        /\ b.saveFailed = a.saveFailed /\ b.administrator = a.administrator
    BY <2>1 DEF AccountType
  <2> QED
    BY <1>2, <2>1, <2>2 DEF Trusted, Web!None
<1>3. CASE a.worker = "committed" /\ a.ended = "done"
  <2>1. b = Web!Adopted(a, protocol) /\ stored1 = "same"
    BY <1>3 DEF Web!Polled, Web!None
  <2> QED
    BY <2>1, AdoptedTrusted
<1>4. CASE a.worker # Web!None /\ a.ended \in {"denied", "kept", "failed"}
  <2>1. b = Web!FailedWorker(a) /\ stored1 = file
    BY <1>4 DEF Web!Polled, Web!None
  <2> QED
    BY <2>1, FailedWorkerTrusted
<1> QED
  BY <1>1, <1>2, <1>3, <1>4 DEF Web!Polled
\* The three parts of a state.
Whole(g, b, a) == [gate |-> g, broker |-> b, account |-> a]

\* A state is its three parts.
LEMMA WholeIs == ASSUME NEW m \in StateType PROVE m = Whole(m.gate, m.broker, m.account)
  BY DEF StateType, Whole

\* A state with new parts.
LEMMA Rebuilt ==
    ASSUME NEW s \in StateType, NEW g \in GateType, NEW b \in BrokerType, NEW a \in AccountType
    PROVE  /\ [s EXCEPT !.gate = g] = Whole(g, s.broker, s.account)
           /\ [s EXCEPT !.account = a] = Whole(s.gate, s.broker, a)
           /\ [s EXCEPT !.broker = b] = Whole(s.gate, b, s.account)
           /\ [s EXCEPT !.gate = g, !.account = a] = Whole(g, s.broker, a)
           /\ [s EXCEPT !.account = a, !.gate = g] = Whole(g, s.broker, a)
           /\ [s EXCEPT !.broker = b, !.gate = g] = Whole(g, b, s.account)
           /\ [s EXCEPT !.broker = b, !.gate = g, !.account = a] = Whole(g, b, a)
<1>1. [s EXCEPT !.gate = g] = Whole(g, s.broker, s.account)
  <2>1. PICK m : m = [s EXCEPT !.gate = g]
    OBVIOUS
  <2>2. m \in StateType /\ m.gate = g /\ m.broker = s.broker /\ m.account = s.account
    BY <2>1 DEF StateType
  <2> QED
    BY <2>1, <2>2, WholeIs
<1>2. [s EXCEPT !.account = a] = Whole(s.gate, s.broker, a)
  <2>1. PICK m : m = [s EXCEPT !.account = a]
    OBVIOUS
  <2>2. m \in StateType /\ m.gate = s.gate /\ m.broker = s.broker /\ m.account = a
    BY <2>1 DEF StateType
  <2> QED
    BY <2>1, <2>2, WholeIs
<1>3. [s EXCEPT !.broker = b] = Whole(s.gate, b, s.account)
  <2>1. PICK m : m = [s EXCEPT !.broker = b]
    OBVIOUS
  <2>2. m \in StateType /\ m.gate = s.gate /\ m.broker = b /\ m.account = s.account
    BY <2>1 DEF StateType
  <2> QED
    BY <2>1, <2>2, WholeIs
<1>4. [s EXCEPT !.gate = g, !.account = a] = Whole(g, s.broker, a)
  <2>1. PICK m : m = [s EXCEPT !.gate = g, !.account = a]
    OBVIOUS
  <2>2. m \in StateType /\ m.gate = g /\ m.broker = s.broker /\ m.account = a
    BY <2>1 DEF StateType
  <2> QED
    BY <2>1, <2>2, WholeIs
<1>5. [s EXCEPT !.account = a, !.gate = g] = Whole(g, s.broker, a)
  <2>1. PICK m : m = [s EXCEPT !.account = a, !.gate = g]
    OBVIOUS
  <2>2. m \in StateType /\ m.gate = g /\ m.broker = s.broker /\ m.account = a
    BY <2>1 DEF StateType
  <2> QED
    BY <2>1, <2>2, WholeIs
<1>6. [s EXCEPT !.broker = b, !.gate = g] = Whole(g, b, s.account)
  <2>1. PICK m : m = [s EXCEPT !.broker = b, !.gate = g]
    OBVIOUS
  <2>2. m \in StateType /\ m.gate = g /\ m.broker = b /\ m.account = s.account
    BY <2>1 DEF StateType
  <2> QED
    BY <2>1, <2>2, WholeIs
<1>7. [s EXCEPT !.broker = b, !.gate = g, !.account = a] = Whole(g, b, a)
  <2>1. PICK m : m = [s EXCEPT !.broker = b, !.gate = g, !.account = a]
    OBVIOUS
  <2>2. m \in StateType /\ m.gate = g /\ m.broker = b /\ m.account = a
    BY <2>1 DEF StateType
  <2> QED
    BY <2>1, <2>2, WholeIs
<1> QED
  BY <1>1, <1>2, <1>3, <1>4, <1>5, <1>6, <1>7

\* It is sound when its parts are.
LEMMA WebParts ==
    ASSUME NEW file, NEW g \in GateType, NEW b \in BrokerType, NEW a \in AccountType,
           Trusted(a, g.seen, file), Asked(g)
    PROVE  /\ WebSound(Whole(g, b, a), file)
           /\ Whole(g, b, a).gate = g /\ Whole(g, b, a).broker = b /\ Whole(g, b, a).account = a
  BY DEF WebSound, StateType, Whole

\* The parts of a sound state.
LEMMA WebFields ==
    ASSUME NEW s, NEW file, WebSound(s, file)
    PROVE  /\ s \in StateType /\ s.gate \in GateType /\ s.broker \in BrokerType
           /\ s.account \in AccountType
           /\ Trusted(s.account, s.gate.seen, file) /\ Asked(s.gate)
  BY DEF WebSound, StateType

\* A connection that is closed takes the login it asked for with it.
LEMMA ClosedSound ==
    ASSUME NEW s, NEW file, WebSound(s, file)
    PROVE  /\ WebSound(Web!Closed(s), file)
           /\ Web!Closed(s).broker = s.broker
           /\ Web!Closed(s).gate = [s.gate EXCEPT !.peer = FALSE, !.reply = FALSE,
                                                  !.asker = FALSE, !.auth = FALSE]
<1> DEFINE g == [s.gate EXCEPT !.peer = FALSE, !.reply = FALSE, !.asker = FALSE, !.auth = FALSE]
<1>1. PICK a : a = IF s.gate.auth THEN Web!CancelPending(s.account) ELSE s.account
  OBVIOUS
<1>2. a \in AccountType /\ Trusted(a, s.gate.seen, file)
  BY <1>1, WebFields, CancelPendingTrusted
<1>3. /\ g \in GateType /\ g.seen = s.gate.seen /\ g.switching = s.gate.switching
      /\ g.from = s.gate.from /\ g.auth = FALSE /\ g.reply = FALSE
  BY ZenonT(60), WebFields DEF GateType
<1>4. Web!Closed(s) = [s EXCEPT !.gate = g, !.account = a]
  BY <1>1 DEF Web!Closed
<1> HIDE DEF g
<1>a. Web!Closed(s) = Whole(g, s.broker, a)
  <2>1. s \in StateType
    BY WebFields
  <2>2. PICK m : m = [s EXCEPT !.gate = g, !.account = a]
    OBVIOUS
  <2>3. m \in StateType /\ m.gate = g /\ m.broker = s.broker /\ m.account = a
    BY <1>2, <1>3, <2>1, <2>2 DEF StateType
  <2> QED
    BY <1>4, <2>2, <2>3, WholeIs
<1>5. Asked(g)
  BY <1>3, WebFields DEF Asked
<1>6. s.broker \in BrokerType
  BY WebFields
<1>7. WebSound(Whole(g, s.broker, a), file) /\ Whole(g, s.broker, a).gate = g
      /\ Whole(g, s.broker, a).broker = s.broker
  BY <1>2, <1>3, <1>5, <1>6, WebParts
<1> QED
  BY <1>a, <1>7 DEF g

\* The service is told to stop, its connection closed.
LEMMA StoppedSound ==
    ASSUME NEW s, NEW file, WebSound(s, file)
    PROVE  WebSound(Web!Stopped(s), file) /\ Web!Stopped(s).broker = s.broker
<1>1. PICK c : c = Web!Closed(s)
  OBVIOUS
<1>2. WebSound(c, file) /\ c.broker = s.broker
  BY <1>1, ClosedSound
<1>3. PICK stopping \in BOOLEAN : stopping = (c.gate.stopping \/ c.gate.service # Web!None)
  BY ZenonT(60)
<1> DEFINE g == [c.gate EXCEPT !.stopping = stopping]
<1>4. /\ g \in GateType /\ g.seen = c.gate.seen /\ g.switching = c.gate.switching
      /\ g.from = c.gate.from /\ g.auth = c.gate.auth /\ g.reply = c.gate.reply
      /\ g.asker = c.gate.asker
  BY <1>2, WebFields DEF GateType
<1>5. Web!Stopped(s) = [c EXCEPT !.gate = g]
  <2>1. Web!Stopped(s) = [c EXCEPT !.gate.stopping = stopping]
    BY <1>1, <1>3 DEF Web!Stopped
  <2> QED
    BY <2>1
<1> HIDE DEF g
<1>a. Web!Stopped(s) = Whole(g, c.broker, c.account)
  BY ZenonT(60), <1>2, <1>4, <1>5, WebFields, Rebuilt
<1>6. Asked(g) /\ Trusted(c.account, g.seen, file)
  BY <1>2, <1>4, WebFields DEF Asked
<1>7. c.broker \in BrokerType /\ c.account \in AccountType
  BY <1>2, WebFields
<1> QED
  BY <1>2, <1>a, <1>4, <1>6, <1>7, WebParts

\* The broker is told to stop, and every session ended.
LEMMA BrokerStoppedSound ==
    ASSUME NEW s, NEW file, WebSound(s, file)
    PROVE  /\ WebSound(Web!BrokerStopped(s), file)
           /\ Web!BrokerStopped(s).broker.process = s.broker.process
           /\ Web!BrokerStopped(s).broker.fault = s.broker.fault
           /\ Web!BrokerStopped(s).broker.failed = s.broker.failed
<1>1. PICK stopping \in BOOLEAN : stopping = (s.broker.stopping \/ s.broker.process # Web!None)
  OBVIOUS
<1>b. PICK b : b = [s.broker EXCEPT !.stopping = @ \/ s.broker.process # Web!None,
                                  !.ready = FALSE]
  OBVIOUS
<1> DEFINE g == [s.gate EXCEPT !.attaching = FALSE]
<1>2. PICK a : a = Web!Cancel(s.account)
  OBVIOUS
<1>3. a \in AccountType /\ Trusted(a, s.gate.seen, file)
  BY <1>2, WebFields, CancelTrusted
<1>4. /\ g \in GateType /\ g.seen = s.gate.seen /\ g.switching = s.gate.switching
      /\ g.from = s.gate.from /\ g.auth = s.gate.auth /\ g.reply = s.gate.reply
      /\ g.asker = s.gate.asker
  BY WebFields DEF GateType
<1>5. /\ b \in BrokerType /\ b.process = s.broker.process /\ b.fault = s.broker.fault
      /\ b.failed = s.broker.failed
  <2>1. b = [s.broker EXCEPT !.stopping = stopping, !.ready = FALSE]
    BY <1>1, <1>b
  <2> QED
    BY <2>1, WebFields DEF BrokerType
<1>6. Web!BrokerStopped(s) = [s EXCEPT !.broker = b, !.gate = g, !.account = a]
  <2>1. Web!BrokerStopped(s) = [s EXCEPT !.broker = b, !.gate.attaching = FALSE, !.account = a]
    BY <1>b, <1>2 DEF Web!BrokerStopped
  <2> QED
    BY <2>1, WebFields DEF StateType
<1> HIDE DEF g
<1>a. Web!BrokerStopped(s) = Whole(g, b, a)
  <2>1. s \in StateType
    BY WebFields
  <2>2. PICK m : m = [s EXCEPT !.broker = b, !.gate = g, !.account = a]
    OBVIOUS
  <2>3. m \in StateType /\ m.gate = g /\ m.broker = b /\ m.account = a
    BY <1>3, <1>4, <1>5, <2>1, <2>2 DEF StateType
  <2> QED
    BY <1>6, <2>2, <2>3, WholeIs
<1>7. Asked(g)
  BY <1>4, WebFields DEF Asked
<1>8. Trusted(a, g.seen, file)
  BY <1>3, <1>4
<1>9. WebSound(Whole(g, b, a), file) /\ Whole(g, b, a).broker = b
  BY <1>3, <1>4, <1>5, <1>7, <1>8, WebParts
<1> QED
  BY <1>a, <1>5, <1>9

\* A new protocol ends every session of the old one.
LEMMA SeenSound ==
    ASSUME NEW s, NEW file, WebSound(s, file), config \in ConfigType
    PROVE  WebSound(Web!Seen(s), file) /\ Web!Seen(s).broker = s.broker
<1>1. CASE s.gate.seen = config.protocol
  BY <1>1 DEF Web!Seen
<1>2. CASE s.gate.seen # config.protocol
  <2>1. PICK begins \in BOOLEAN : begins = (~s.gate.switching /\ s.gate.peer /\ ~s.gate.stopping)
    OBVIOUS
  <2>2. PICK switching \in BOOLEAN : switching = (s.gate.switching \/ begins)
    OBVIOUS
  <2>3. PICK from : from = IF begins THEN s.gate.seen ELSE s.gate.from
    OBVIOUS
  <2>4. PICK a : a = Web!Cancel(s.account)
    OBVIOUS
  <2>5. a \in AccountType /\ Trusted(a, config.protocol, file)
    BY <2>4, WebFields, CancelTrusted
  <2>6. config.protocol \in Web!Protocols
    BY DEF ConfigType
  <2>7. /\ from \in Web!Protocols \cup {Web!None}
        /\ switching => from # Web!None
    BY <2>2, <2>3, WebFields DEF GateType, Asked, Web!Protocols, Web!None
  <2> DEFINE g == [s.gate EXCEPT !.seen = config.protocol, !.auth = FALSE,
                                 !.switching = switching, !.from = from]
  <2>8. /\ g \in GateType /\ g.seen = config.protocol /\ g.switching = switching
        /\ g.from = from /\ g.auth = FALSE /\ g.reply = s.gate.reply /\ g.asker = s.gate.asker
    BY ZenonT(60), <2>6, <2>7, WebFields DEF GateType
  <2>9. Web!Seen(s) = [s EXCEPT !.account = a, !.gate = g]
    <3>1. PICK k : k = [s.gate EXCEPT !.seen = config.protocol, !.auth = FALSE,
                                      !.switching = @ \/ begins,
                                      !.from = IF begins THEN s.gate.seen ELSE @]
      OBVIOUS
    <3>2. k = g
      BY <2>2, <2>3, <3>1
    <3> HIDE DEF g
    <3>3. Web!Seen(s) = [s EXCEPT !.account = a, !.gate = k]
      BY <1>2, <2>1, <2>4, <3>1 DEF Web!Seen
    <3> QED
      BY <3>2, <3>3
  <2> HIDE DEF g
  <2>10. PICK m : m = [s EXCEPT !.account = a, !.gate = g]
    OBVIOUS
  <2>11. m \in StateType /\ m.gate = g /\ m.broker = s.broker /\ m.account = a
    <3>1. s \in StateType
      BY WebFields
    <3> QED
      BY <2>5, <2>8, <2>10, <3>1 DEF StateType
  <2>12. Asked(g)
    BY <2>7, <2>8, WebFields DEF Asked
  <2> QED
    BY <2>5, <2>8, <2>9, <2>10, <2>11, <2>12, WebFields DEF WebSound
<1> QED
  BY <1>1, <1>2

\* A state whose gate only forgets the switch, or the service, is as sound.
LEMMA GateSound ==
    ASSUME NEW s, NEW file, WebSound(s, file), NEW g \in GateType, g.seen = s.gate.seen,
           g.auth => s.gate.auth, g.reply => s.gate.reply, g.asker = s.gate.asker,
           g.switching => s.gate.switching /\ g.from = s.gate.from
    PROVE  WebSound([s EXCEPT !.gate = g], file) /\ [s EXCEPT !.gate = g].broker = s.broker
<1>1. PICK m : m = [s EXCEPT !.gate = g]
  OBVIOUS
<1>2. m \in StateType /\ m.gate = g /\ m.broker = s.broker /\ m.account = s.account
  BY <1>1, WebFields DEF StateType
<1>3. Asked(g) /\ Trusted(s.account, g.seen, file)
  BY WebFields DEF Asked
<1> QED
  BY <1>1, <1>2, <1>3, WebFields DEF WebSound

\* A switch that goes back to the protocol it came from starts from a sound state.
LEMMA RestoredSound ==
    ASSUME NEW s, NEW file, WebSound(s, file)
    PROVE  WebSound(Web!Restored(s), file) /\ Web!Restored(s).broker = s.broker
<1> DEFINE g == [s.gate EXCEPT !.switching = FALSE, !.failed = "no", !.from = Web!None]
<1>1. Web!Restored(s) = [s EXCEPT !.gate = g]
  BY WebFields DEF Web!Restored, StateType
<1>2. /\ g \in GateType /\ g.seen = s.gate.seen /\ g.switching = FALSE
      /\ g.auth = s.gate.auth /\ g.reply = s.gate.reply /\ g.asker = s.gate.asker
  BY ZenonT(60), WebFields DEF GateType
<1> HIDE DEF g
<1> QED
  BY <1>1, <1>2, GateSound

\* Leaving a protocol stops the service and leaves the broker to its own end.
LEMMA LeavesSound ==
    ASSUME NEW s, NEW file, WebSound(s, file)
    PROVE  WebSound(Web!Leaves(s), file) /\ Web!Leaves(s).broker = s.broker
  BY StoppedSound DEF Web!Leaves

\* The service that ended is collected without a look at the broker.
LEMMA CollectedSound ==
    ASSUME NEW s, NEW file, WebSound(s, file)
    PROVE  WebSound(Web!Collected(s), file) /\ Web!Collected(s).broker = s.broker
<1> DEFINE g == [s.gate EXCEPT !.service = Web!None, !.stopping = FALSE]
<1>1. Web!Collected(s) \in {s, [s EXCEPT !.gate = g]}
  BY WebFields DEF Web!Collected, StateType
<1>2. /\ g \in GateType /\ g.seen = s.gate.seen /\ g.switching = s.gate.switching
      /\ g.from = s.gate.from /\ g.auth = s.gate.auth /\ g.reply = s.gate.reply
      /\ g.asker = s.gate.asker
  BY WebFields DEF GateType
<1> HIDE DEF g
<1> QED
  BY ZenonT(60), <1>1, <1>2, GateSound

\* A state with another broker is as sound.
LEMMA BrokerSound ==
    ASSUME NEW s, NEW file, WebSound(s, file), NEW b \in BrokerType
    PROVE  WebSound([s EXCEPT !.broker = b], file) /\ [s EXCEPT !.broker = b].broker = b
<1>1. PICK m : m = [s EXCEPT !.broker = b]
  OBVIOUS
<1>2. m \in StateType /\ m.gate = s.gate /\ m.broker = b /\ m.account = s.account
  BY <1>1, WebFields DEF StateType
<1> QED
  BY <1>1, <1>2, WebFields DEF WebSound

\* What becomes of the broker while it and the service are told to stop.
LEMMA BothStoppedSound ==
    ASSUME NEW s, NEW file, WebSound(s, file)
    PROVE  /\ WebSound(Web!Stopped(Web!BrokerStopped(s)), file)
           /\ Web!Stopped(Web!BrokerStopped(s)).broker.process = s.broker.process
           /\ Web!Stopped(Web!BrokerStopped(s)).broker.fault = s.broker.fault
           /\ Web!Stopped(Web!BrokerStopped(s)).broker.failed = s.broker.failed
<1>1. PICK k : k = Web!BrokerStopped(s)
  OBVIOUS
<1>2. WebSound(k, file) /\ k.broker.process = s.broker.process /\ k.broker.fault = s.broker.fault
      /\ k.broker.failed = s.broker.failed
  BY <1>1, BrokerStoppedSound
<1> QED
  BY <1>1, <1>2, StoppedSound

\* A broker that is reaped is none, and its failure is kept.
LEMMA ReapedBroker ==
    ASSUME NEW s, NEW file, WebSound(s, file), Remembered(s.broker)
    PROVE  /\ WebSound(Web!Reaped(s), file)
           /\ Web!Reaped(s).broker.failed => Web!Reaped(s).broker.fault
           /\ Web!Reaped(s).broker.failed = s.broker.failed
<1>1. CASE s.broker.process \notin {"ok", "bad"}
  BY <1>1 DEF Web!Reaped, Remembered
<1>2. CASE s.broker.process \in {"ok", "bad"}
  <2> DEFINE b == [s.broker EXCEPT !.process = Web!None]
  <2>1. PICK k : k = [s EXCEPT !.broker = b]
    OBVIOUS
  <2>2. /\ b \in BrokerType /\ b.process = Web!None /\ b.fault = s.broker.fault
        /\ b.failed = s.broker.failed
    BY WebFields DEF BrokerType
  <2>3. k = [s EXCEPT !.broker.process = Web!None]
    BY <2>1
  <2> HIDE DEF b
  <2>4. WebSound(k, file) /\ k.broker = b
    BY <2>1, <2>2, BrokerSound
  <2>5. PICK t : t = Web!Stopped(Web!BrokerStopped(k))
    OBVIOUS
  <2>6. WebSound(t, file) /\ t.broker.fault = b.fault /\ t.broker.failed = b.failed
    BY <2>4, <2>5, BothStoppedSound
  <2>7. PICK fault \in BOOLEAN :
            fault = (t.broker.fault \/ ~s.broker.stopping \/ s.broker.process = "bad")
    OBVIOUS
  <2> DEFINE c == [t.broker EXCEPT !.fault = fault, !.stopping = FALSE]
  <2>8. c \in BrokerType /\ c.fault = fault /\ c.failed = t.broker.failed
    BY <2>6, WebFields DEF BrokerType
  <2>9. Web!Reaped(s) = [t EXCEPT !.broker = c]
    <3>1. PICK e : e = [t.broker EXCEPT !.fault = @ \/ ~s.broker.stopping
                                                 \/ s.broker.process = "bad",
                                       !.stopping = FALSE]
      OBVIOUS
    <3>2. e = c
      BY <2>7, <3>1
    <3>3. Web!Reaped(s) = [t EXCEPT !.broker = e]
      BY <1>2, <2>3, <2>5, <3>1 DEF Web!Reaped
    <3> QED
      BY <3>2, <3>3
  <2> HIDE DEF c
  <2>10. WebSound([t EXCEPT !.broker = c], file) /\ [t EXCEPT !.broker = c].broker = c
    BY <2>6, <2>8, BrokerSound
  <2>11. s.broker.failed => fault
    BY <2>2, <2>6, <2>7 DEF Remembered
  <2> QED
    BY <2>2, <2>6, <2>8, <2>9, <2>10, <2>11
<1> QED
  BY <1>1, <1>2

\* A broker is started only when none has failed.
LEMMA LaunchedBroker ==
    ASSUME NEW s, NEW file, WebSound(s, file), s.broker.failed => s.broker.fault,
           NEW m \in Web!Launched(s)
    PROVE  /\ WebSound(m, file)
           /\ m.broker.failed = s.broker.failed
           /\ m.broker.failed => m.broker.fault
           /\ m.broker.process # s.broker.process => ~s.broker.failed
<1> DEFINE b == [s.broker EXCEPT !.process = "running"]
<1>1. PICK k : k = [s EXCEPT !.broker = b]
  OBVIOUS
<1>2. /\ b \in BrokerType /\ b.fault = s.broker.fault /\ b.failed = s.broker.failed
  BY WebFields DEF BrokerType
<1>3. k = [s EXCEPT !.broker.process = "running"]
  BY <1>1
<1> HIDE DEF b
<1>4. m = s \/ (m = k /\ ~s.broker.fault)
  BY <1>3 DEF Web!Launched
<1>5. WebSound(k, file) /\ k.broker = b
  BY <1>1, <1>2, BrokerSound
<1> QED
  BY <1>2, <1>4, <1>5

\* A broker that is lost has failed.
LEMMA LostBroker ==
    ASSUME NEW s, NEW file, WebSound(s, file)
    PROVE  WebSound(Web!Lost(s), file) /\ Web!Lost(s).broker.fault
           /\ Web!Lost(s).broker.process = s.broker.process
<1>1. PICK t : t = Web!Stopped(Web!BrokerStopped(s))
  OBVIOUS
<1>2. WebSound(t, file) /\ t.broker.process = s.broker.process
  BY <1>1, BothStoppedSound
<1> DEFINE c == [t.broker EXCEPT !.stopping = FALSE, !.fault = TRUE, !.failed = TRUE]
<1>3. c \in BrokerType /\ c.fault = TRUE /\ c.process = t.broker.process
  BY <1>2, WebFields DEF BrokerType
<1>4. Web!Lost(s) = [t EXCEPT !.broker = c]
  BY <1>1 DEF Web!Lost
<1> HIDE DEF c
<1>5. WebSound([t EXCEPT !.broker = c], file) /\ [t EXCEPT !.broker = c].broker = c
  BY <1>2, <1>3, BrokerSound
<1> QED
  BY <1>2, <1>3, <1>4, <1>5

\* The failure of a service is that of the protocol it was launched with.
LEMMA EndedSound ==
    ASSUME NEW s, NEW file, WebSound(s, file)
    PROVE  WebSound(Web!Ended(s), file) /\ Web!Ended(s).broker = s.broker
<1>1. CASE s.gate.service # "ended"
  BY <1>1 DEF Web!Ended
<1>2. CASE s.gate.service = "ended"
  <2>1. PICK c : c = Web!Closed(s)
    OBVIOUS
  <2>2. WebSound(c, file) /\ c.broker = s.broker
    BY <2>1, ClosedSound
  <2>3. PICK failed : failed = CASE ~c.gate.switching -> c.gate.failed
                                [] c.gate.switching /\ c.gate.launched = c.gate.seen -> "new"
                                [] OTHER -> "old"
    OBVIOUS
  <2>4. failed \in {"no", "new", "old"}
    BY <2>2, <2>3, WebFields DEF GateType
  <2> DEFINE g == [c.gate EXCEPT !.service = Web!None, !.stopping = FALSE, !.failed = failed]
  <2>5. Web!Ended(s) = [c EXCEPT !.gate = g]
    BY <1>2, <2>1, <2>3 DEF Web!Ended
  <2>6. /\ g \in GateType /\ g.seen = c.gate.seen /\ g.switching = c.gate.switching
        /\ g.from = c.gate.from /\ g.auth = c.gate.auth /\ g.reply = c.gate.reply
        /\ g.asker = c.gate.asker
    BY ZenonT(60), <2>2, <2>4, WebFields DEF GateType
  <2> HIDE DEF g
  <2> QED
    BY <2>2, <2>5, <2>6, GateSound
<1> QED
  BY <1>1, <1>2

-----------------------------------------------------------------------------
(* The steps of the web gateway.                                             *)

\* The state a step begins with.
LEMMA AllSound ==
    ASSUME WebInv
    PROVE  /\ WebSound(Web!All, stored) /\ config \in ConfigType
           /\ Web!All.gate = gate /\ Web!All.broker = broker /\ Web!All.account = account
           /\ gate \in GateType /\ broker \in BrokerType /\ account \in AccountType
           /\ Trusted(account, gate.seen, stored) /\ Asked(gate) /\ Remembered(broker)
<1>1. Web!All = Whole(gate, broker, account)
  BY DEF Web!All, Whole
<1>2. Web!All.gate = gate /\ Web!All.broker = broker /\ Web!All.account = account
  BY <1>1 DEF Whole
<1> QED
  BY <1>2, WebFields DEF WebInv

\* What a step makes of the three parts.
LEMMA PartsSound ==
    ASSUME NEW s, WebSound(s, stored'), Remembered(s.broker), config' \in ConfigType,
           stored' \in {Web!None, "same", "other"},
           gate' = s.gate, broker' = s.broker, account' = s.account
    PROVE  WebInv'
<1>1. Web!All' = Whole(s.gate, s.broker, s.account)
  BY DEF Web!All, Whole
<1>2. WebSound(Whole(s.gate, s.broker, s.account), stored')
  BY WebFields, WebParts
<1> QED
  BY <1>1, <1>2 DEF WebInv

\* A step that becomes a sound state keeps the invariant.
LEMMA BecomesSound ==
    ASSUME NEW s, WebSound(s, stored'), Remembered(s.broker), config' \in ConfigType,
           stored' \in {Web!None, "same", "other"},
           NEW at \in {"switch", "reap", "serve"}, Web!Becomes(s, at)
    PROVE  WebInv'
<1> DEFINE g == [s.gate EXCEPT !.at = at]
<1>1. /\ g \in GateType /\ g.seen = s.gate.seen /\ g.switching = s.gate.switching
      /\ g.from = s.gate.from /\ g.auth = s.gate.auth /\ g.reply = s.gate.reply
      /\ g.asker = s.gate.asker
  BY WebFields DEF GateType
<1>2. gate' = g /\ broker' = s.broker /\ account' = s.account
  BY DEF Web!Becomes
<1> HIDE DEF g
<1>3. PICK m : m = [s EXCEPT !.gate = g]
  OBVIOUS
<1>4. WebSound(m, stored')
  BY <1>1, <1>3, GateSound
<1>5. m.gate = g /\ m.broker = s.broker /\ m.account = s.account
  BY <1>3, WebFields DEF StateType
<1> QED
  BY <1>2, <1>4, <1>5, PartsSound

\* The state the third part of a step begins with.
LEMMA BeginningSound ==
    ASSUME WebInv, NEW s \in Web!Beginnings
    PROVE  WebSound(s, stored) /\ s.broker = broker /\ Remembered(s.broker)
<1>1. PICK a \in Web!Ticked(account) : s = Web!Ended([Web!All EXCEPT !.account = a])
  BY DEF Web!Beginnings
<1>2. a \in AccountType /\ Trusted(a, gate.seen, stored)
  BY <1>1, AllSound, TickedTrusted
<1>3. PICK m : m = [Web!All EXCEPT !.account = a]
  OBVIOUS
<1>4. Web!All \in StateType
  BY AllSound, WebFields
<1>5. m \in StateType /\ m.gate = gate /\ m.broker = broker /\ m.account = a
  BY <1>2, <1>3, <1>4, AllSound DEF StateType
<1>6. WebSound(m, stored)
  BY <1>2, <1>5, AllSound DEF WebSound
<1> QED
  BY <1>1, <1>3, <1>5, <1>6, EndedSound, AllSound

\* A state whose account is another one is sound when that one is trusted.
LEMMA AccountSound ==
    ASSUME NEW s, NEW file, WebSound(s, file), NEW a \in AccountType, NEW other,
           Trusted(a, s.gate.seen, other)
    PROVE  /\ WebSound([s EXCEPT !.account = a], other)
           /\ [s EXCEPT !.account = a].broker = s.broker
           /\ [s EXCEPT !.account = a].gate = s.gate
<1>1. PICK m : m = [s EXCEPT !.account = a]
  OBVIOUS
<1>2. m \in StateType /\ m.gate = s.gate /\ m.broker = s.broker /\ m.account = a
  BY <1>1, WebFields DEF StateType
<1> QED
  BY <1>1, <1>2, WebFields DEF WebSound

\* The look at the configuration (web_gateway_step, the switch of the protocol).
LEMMA StepSwitchWeb == ASSUME WebInv, Web!StepSwitch PROVE WebInv'
<1>1. PICK s : s = Web!Seen(Web!All)
  OBVIOUS
<1>2. WebSound(s, stored) /\ s.broker = broker /\ Remembered(s.broker)
  BY <1>1, AllSound, SeenSound
<1>3. stored' = stored /\ stored \in {Web!None, "same", "other"}
  BY DEF Web!StepSwitch, WebInv
<1>4. CASE Web!Becomes(Web!Leaves(s), "reap") /\ UNCHANGED config
  <2>1. PICK k : k = Web!Leaves(s)
    OBVIOUS
  <2>2. WebSound(k, stored') /\ Remembered(k.broker)
    BY <1>2, <1>3, <2>1, LeavesSound
  <2> QED
    BY <1>3, <1>4, <2>1, <2>2, AllSound, BecomesSound
<1>5. CASE /\ Web!Restores(s) /\ gate.switching
           /\ Web!Becomes(Web!Leaves(Web!Restored(s)), "reap")
           /\ config' = IF s.gate.from = config.protocol THEN config
                        ELSE [config EXCEPT !.next = [enabled |-> config.enabled,
                                                      protocol |-> s.gate.from]]
  <2>1. PICK r : r = Web!Restored(s)
    OBVIOUS
  <2>2. PICK k : k = Web!Leaves(r)
    OBVIOUS
  <2>3. WebSound(r, stored) /\ r.broker = s.broker
    BY <1>2, <2>1, RestoredSound
  <2>4. WebSound(k, stored') /\ Remembered(k.broker)
    BY <1>2, <1>3, <2>2, <2>3, LeavesSound
  <2>5. s.gate.from \in Web!Protocols
    BY <1>2, <1>5, WebFields DEF Web!Restores, GateType, Asked
  <2>6. config' \in ConfigType
    <3>1. config \in ConfigType
      BY AllSound
    <3>2. [enabled |-> config.enabled, protocol |-> s.gate.from]
              \in [enabled : BOOLEAN, protocol : Web!Protocols]
      BY <2>5, <3>1 DEF ConfigType
    <3> QED
      BY <1>5, <3>1, <3>2 DEF ConfigType
  <2> QED
    BY <1>3, <1>5, <2>1, <2>2, <2>4, <2>6, BecomesSound
<1> QED
  BY <1>1, <1>4, <1>5 DEF Web!StepSwitch

\* A broker that is started, waited for or lost.
LEMMA StepReapBroker ==
    ASSUME WebInv, Web!StepReap
    PROVE  WebInv' /\ (broker.process = Web!None /\ broker'.process # Web!None => ~broker.failed)
<1>1. PICK r : r = Web!Reaped(Web!All)
  OBVIOUS
<1>2. WebSound(r, stored) /\ r.broker.failed = broker.failed
      /\ (r.broker.failed => r.broker.fault)
  BY <1>1, AllSound, ReapedBroker
<1>3. broker.process = Web!None => r.broker.process = Web!None
  BY <1>1, AllSound DEF Web!Reaped, Web!None
<1>4. PICK s \in Web!Launched(r) :
          \/ Web!Goes(Web!Collected(s))
          \/ /\ Web!Listening(s) /\ s.broker.process = "running"
             /\ Web!Goes(Web!Collected([s EXCEPT !.broker.ready = TRUE]))
          \/ Web!Listening(s) /\ Web!Goes(Web!Collected(Web!Lost(s)))
  BY <1>1 DEF Web!StepReap
<1>5. /\ WebSound(s, stored) /\ s.broker.failed = r.broker.failed
      /\ s.broker.failed => s.broker.fault
      /\ s.broker.process # r.broker.process => ~r.broker.failed
  BY <1>2, LaunchedBroker
<1>6. /\ stored' = stored /\ stored \in {Web!None, "same", "other"} /\ config' \in ConfigType
  BY AllSound DEF Web!StepReap, WebInv
<1>7. ASSUME NEW k, WebSound(k, stored), k.broker.failed => k.broker.fault,
             k.broker.process = s.broker.process, Web!Goes(Web!Collected(k))
      PROVE  WebInv' /\ broker'.process = s.broker.process
  <2>1. PICK c : c = Web!Collected(k)
    OBVIOUS
  <2>2. WebSound(c, stored) /\ c.broker = k.broker
    BY <1>7, <2>1, CollectedSound
  <2>3. PICK d : d = Web!Stopped(Web!BrokerStopped(c))
    OBVIOUS
  <2>4. /\ WebSound(d, stored) /\ d.broker.process = c.broker.process
        /\ d.broker.fault = c.broker.fault /\ d.broker.failed = c.broker.failed
    BY <2>2, <2>3, BothStoppedSound
  <2>5. PICK e \in {c, d}, at \in {"switch", "reap", "serve"} : Web!Becomes(e, at)
    BY <1>7, <2>1, <2>3 DEF Web!Goes
  <2>6. WebSound(e, stored') /\ Remembered(e.broker) /\ e.broker.process = s.broker.process
    BY <1>6, <1>7, <2>2, <2>4, <2>5 DEF Remembered
  <2>7. broker' = e.broker
    BY <2>5 DEF Web!Becomes
  <2> QED
    BY <1>6, <2>5, <2>6, <2>7, BecomesSound
<1>8. CASE Web!Goes(Web!Collected(s))
  BY <1>2, <1>3, <1>5, <1>7, <1>8
<1>9. CASE Web!Goes(Web!Collected([s EXCEPT !.broker.ready = TRUE]))
  <2> DEFINE b == [s.broker EXCEPT !.ready = TRUE]
  <2>1. PICK k : k = [s EXCEPT !.broker = b]
    OBVIOUS
  <2>2. k = [s EXCEPT !.broker.ready = TRUE]
    BY <2>1
  <2>3. /\ b \in BrokerType /\ b.process = s.broker.process /\ b.failed = s.broker.failed
        /\ b.fault = s.broker.fault
    BY <1>5, WebFields DEF BrokerType
  <2> HIDE DEF b
  <2>4. WebSound(k, stored) /\ k.broker = b
    BY <1>5, <2>1, <2>3, BrokerSound
  <2>5. WebInv' /\ broker'.process = s.broker.process
    BY <1>5, <1>7, <1>9, <2>2, <2>3, <2>4
  <2> QED
    BY <1>2, <1>3, <1>5, <2>5
<1>10. CASE Web!Goes(Web!Collected(Web!Lost(s)))
  <2>1. PICK k : k = Web!Lost(s)
    OBVIOUS
  <2>2. WebSound(k, stored) /\ k.broker.fault /\ k.broker.process = s.broker.process
    BY <1>5, <2>1, LostBroker
  <2>3. WebInv' /\ broker'.process = s.broker.process
    BY <1>7, <1>10, <2>1, <2>2
  <2> QED
    BY <1>2, <1>3, <1>5, <2>3
<1> QED
  BY <1>4, <1>8, <1>9, <1>10

\* A state whose account and gate are sound.
LEMMA WholeSound ==
    ASSUME NEW s, NEW file, WebSound(s, file), NEW g \in GateType, NEW a \in AccountType,
           NEW other, Trusted(a, g.seen, other), Asked(g),
           NEW m, m = Whole(g, s.broker, a)
    PROVE  WebSound(m, other) /\ m.broker = s.broker
  BY WebFields, WebParts

\* What the steps of the service share: a state that is sound, and the broker as it was.
Quiet == broker.process = Web!None => broker'.process = Web!None

\* A step that leaves the broker's process alone is sound, and starts no broker.
LEMMA ServeSound ==
    ASSUME WebInv, NEW s, WebSound(s, stored'), s.broker.process = broker.process,
           s.broker.failed = broker.failed, s.broker.fault = broker.fault,
           config' \in ConfigType, stored' \in {Web!None, "same", "other"},
           Web!Becomes(s, "switch")
    PROVE  WebInv' /\ Quiet
<1>1. Remembered(s.broker)
  BY DEF WebInv, Remembered
<1>2. WebInv'
  BY <1>1, BecomesSound
<1> QED
  BY <1>2 DEF Web!Becomes, Quiet

\* The web interface is switched off.
LEMMA StepStopWeb == ASSUME WebInv, Web!StepStop PROVE WebInv' /\ Quiet
<1>1. PICK s \in Web!Beginnings : Web!Becomes(Web!Stopped(s), "switch")
  BY DEF Web!StepStop
<1>2. PICK k : k = Web!Stopped(s)
  OBVIOUS
<1>3. WebSound(k, stored) /\ k.broker = broker
  BY <1>2, BeginningSound, StoppedSound
<1>4. stored' = stored /\ config' = config
  BY DEF Web!StepStop
<1> QED
  BY <1>1, <1>2, <1>3, <1>4, ServeSound DEF WebInv

\* The service is stopping, or its switch has failed.
LEMMA StepWaitWeb == ASSUME WebInv, Web!StepWait PROVE WebInv' /\ Quiet
<1>1. PICK s \in Web!Beginnings :
          \/ Web!Becomes(s, "switch")
          \/ Web!Becomes([s EXCEPT !.gate.failed = "new"], "switch")
  BY DEF Web!StepWait
<1>2. WebSound(s, stored) /\ s.broker = broker
  BY BeginningSound
<1> DEFINE g == [s.gate EXCEPT !.failed = "new"]
<1>3. PICK k : k = [s EXCEPT !.gate = g]
  OBVIOUS
<1>4. k = [s EXCEPT !.gate.failed = "new"]
  BY <1>3
<1>5. /\ g \in GateType /\ g.seen = s.gate.seen /\ g.switching = s.gate.switching
      /\ g.from = s.gate.from /\ g.auth = s.gate.auth /\ g.reply = s.gate.reply
      /\ g.asker = s.gate.asker
  BY <1>2, WebFields DEF GateType
<1> HIDE DEF g
<1>6. WebSound(k, stored) /\ k.broker = broker
  BY <1>2, <1>3, <1>5, GateSound
<1>7. stored' = stored /\ config' = config
  BY DEF Web!StepWait
<1> QED
  BY <1>1, <1>2, <1>4, <1>6, <1>7, ServeSound DEF WebInv

\* The broker is started, or waited for.
LEMMA StepAttachWeb == ASSUME WebInv, Web!StepAttach PROVE WebInv' /\ Quiet
<1>1. PICK s \in Web!Beginnings :
          \/ Web!Becomes([s EXCEPT !.gate.attaching = TRUE, !.broker.ready = FALSE], "switch")
          \/ Web!Becomes(Web!BrokerStopped(s), "switch")
  BY DEF Web!StepAttach
<1>2. WebSound(s, stored) /\ s.broker = broker
  BY BeginningSound
<1>3. stored' = stored /\ config' = config
  BY DEF Web!StepAttach
<1>4. CASE Web!Becomes([s EXCEPT !.gate.attaching = TRUE, !.broker.ready = FALSE], "switch")
  <2> DEFINE g == [s.gate EXCEPT !.attaching = TRUE]
             b == [s.broker EXCEPT !.ready = FALSE]
  <2>1. PICK k : k = [s EXCEPT !.gate = g]
    OBVIOUS
  <2>2. PICK m : m = [k EXCEPT !.broker = b]
    OBVIOUS
  <2>3. m = [s EXCEPT !.gate.attaching = TRUE, !.broker.ready = FALSE]
    BY <1>2, <2>1, <2>2, WebFields DEF StateType
  <2>4. /\ g \in GateType /\ g.seen = s.gate.seen /\ g.switching = s.gate.switching
        /\ g.from = s.gate.from /\ g.auth = s.gate.auth /\ g.reply = s.gate.reply
        /\ g.asker = s.gate.asker
    BY <1>2, WebFields DEF GateType
  <2>5. /\ b \in BrokerType /\ b.process = broker.process /\ b.failed = broker.failed
        /\ b.fault = broker.fault
    BY <1>2, WebFields DEF BrokerType
  <2> HIDE DEF g, b
  <2>6. WebSound(k, stored)
    BY <1>2, <2>1, <2>4, GateSound
  <2>7. WebSound(m, stored) /\ m.broker = b
    BY <2>2, <2>5, <2>6, BrokerSound
  <2> QED
    BY <1>3, <1>4, <2>3, <2>5, <2>7, ServeSound DEF WebInv
<1>5. CASE Web!Becomes(Web!BrokerStopped(s), "switch")
  <2>1. PICK k : k = Web!BrokerStopped(s)
    OBVIOUS
  <2>2. /\ WebSound(k, stored) /\ k.broker.process = broker.process
        /\ k.broker.failed = broker.failed /\ k.broker.fault = broker.fault
    BY <1>2, <2>1, BrokerStoppedSound
  <2> QED
    BY <1>3, <1>5, <2>1, <2>2, ServeSound DEF WebInv
<1> QED
  BY <1>1, <1>4, <1>5

\* The service is started on the protocol that was seen.
LEMMA StepLaunchWeb == ASSUME WebInv, Web!StepLaunch PROVE WebInv' /\ Quiet
<1>1. PICK s \in Web!Beginnings :
          Web!Becomes([s EXCEPT !.gate.attaching = FALSE, !.gate.service = "running",
                                !.gate.launched = s.gate.seen], "switch")
  BY DEF Web!StepLaunch
<1>2. WebSound(s, stored) /\ s.broker = broker
  BY BeginningSound
<1> DEFINE g == [s.gate EXCEPT !.attaching = FALSE, !.service = "running", !.launched = s.gate.seen]
<1>3. PICK k : k = [s EXCEPT !.gate = g]
  OBVIOUS
<1>4. k = [s EXCEPT !.gate.attaching = FALSE, !.gate.service = "running",
                    !.gate.launched = s.gate.seen]
  BY <1>2, <1>3, WebFields DEF StateType, GateType
<1>5. /\ g \in GateType /\ g.seen = s.gate.seen /\ g.switching = s.gate.switching
      /\ g.from = s.gate.from /\ g.auth = s.gate.auth /\ g.reply = s.gate.reply
      /\ g.asker = s.gate.asker
  BY ZenonT(60), <1>2, WebFields DEF GateType
<1> HIDE DEF g
<1>6. WebSound(k, stored) /\ k.broker = broker
  BY <1>2, <1>3, <1>5, GateSound
<1>7. stored' = stored /\ config' = config
  BY DEF Web!StepLaunch
<1> QED
  BY <1>1, <1>4, <1>6, <1>7, ServeSound DEF WebInv

\* The connection to the service is closed.
LEMMA StepHangUpWeb == ASSUME WebInv, Web!StepHangUp PROVE WebInv' /\ Quiet
<1>1. PICK s \in Web!Beginnings : Web!Becomes(Web!Closed(s), "switch")
  BY DEF Web!StepHangUp
<1>2. PICK k : k = Web!Closed(s)
  OBVIOUS
<1>3. WebSound(k, stored) /\ k.broker = broker
  BY <1>2, BeginningSound, ClosedSound
<1>4. stored' = stored /\ config' = config
  BY DEF Web!StepHangUp
<1> QED
  BY <1>1, <1>2, <1>3, <1>4, ServeSound DEF WebInv

\* A reply is written, or fails and closes the connection.
LEMMA StepReplyWeb == ASSUME WebInv, Web!StepReply PROVE WebInv' /\ Quiet
<1>1. PICK s \in Web!Beginnings :
          /\ ~s.gate.auth
          /\ \/ Web!Becomes([s EXCEPT !.gate.reply = FALSE, !.gate.asker = FALSE], "switch")
             \/ Web!Becomes(Web!Closed(s), "switch")
  BY DEF Web!StepReply
<1>2. WebSound(s, stored) /\ s.broker = broker
  BY BeginningSound
<1>3. stored' = stored /\ config' = config
  BY DEF Web!StepReply
<1>4. CASE Web!Becomes([s EXCEPT !.gate.reply = FALSE, !.gate.asker = FALSE], "switch")
  <2> DEFINE g == [s.gate EXCEPT !.reply = FALSE, !.asker = FALSE]
  <2>1. PICK k : k = [s EXCEPT !.gate = g]
    OBVIOUS
  <2>2. k = [s EXCEPT !.gate.reply = FALSE, !.gate.asker = FALSE]
    BY <1>2, <2>1, WebFields DEF StateType, GateType
  <2>3. /\ g \in GateType /\ g.seen = s.gate.seen /\ g.switching = s.gate.switching
        /\ g.from = s.gate.from /\ g.auth = s.gate.auth /\ g.reply = FALSE
    BY ZenonT(60), <1>2, WebFields DEF GateType
  <2> HIDE DEF g
  <2>4. Asked(g) /\ Trusted(s.account, g.seen, stored)
    BY <1>1, <1>2, <2>3, WebFields DEF Asked
  <2>5. k = Whole(g, s.broker, s.account)
    BY ZenonT(60), <1>2, <2>1, <2>3, WebFields, Rebuilt
  <2>6. WebSound(k, stored) /\ k.broker = broker
    BY <1>2, <2>3, <2>4, <2>5, WebFields, WholeSound
  <2> QED
    BY <1>3, <1>4, <2>2, <2>6, ServeSound DEF WebInv
<1>5. CASE Web!Becomes(Web!Closed(s), "switch")
  <2>1. PICK k : k = Web!Closed(s)
    OBVIOUS
  <2>2. WebSound(k, stored) /\ k.broker = broker
    BY <1>2, <2>1, ClosedSound
  <2> QED
    BY <1>3, <1>5, <2>1, <2>2, ServeSound DEF WebInv
<1> QED
  BY <1>1, <1>4, <1>5

\* A first connection confirms the protocol, and may make a code.
LEMMA StepAcceptWeb == ASSUME WebInv, Web!StepAccept PROVE WebInv' /\ Quiet
<1>1. PICK s \in Web!Beginnings :
          \E a \in {s.account} \cup (IF s.account.administrator \/ s.account.saveFailed THEN {}
                                      ELSE {Web!NewCode(s.account, FALSE)}) :
             Web!Becomes([s EXCEPT !.account = a, !.gate.peer = TRUE,
                           !.gate.switching = @ /\ s.gate.launched # s.gate.seen,
                           !.gate.failed = IF s.gate.launched = s.gate.seen THEN "no" ELSE @,
                           !.gate.from = IF s.gate.launched = s.gate.seen THEN Web!None ELSE @],
                        "switch")
  BY DEF Web!StepAccept
<1>2. PICK a \in {s.account, Web!NewCode(s.account, FALSE)} :
             Web!Becomes([s EXCEPT !.account = a, !.gate.peer = TRUE,
                           !.gate.switching = @ /\ s.gate.launched # s.gate.seen,
                           !.gate.failed = IF s.gate.launched = s.gate.seen THEN "no" ELSE @,
                           !.gate.from = IF s.gate.launched = s.gate.seen THEN Web!None ELSE @],
                        "switch")
  BY <1>1
<1>3. WebSound(s, stored) /\ s.broker = broker
  BY BeginningSound
<1>4. a \in AccountType /\ Trusted(a, s.gate.seen, stored)
  BY <1>2, <1>3, WebFields, NewCodeTrusted
<1>5. PICK g : g = [s.gate EXCEPT !.peer = TRUE,
                           !.switching = s.gate.switching /\ s.gate.launched # s.gate.seen,
                           !.failed = IF s.gate.launched = s.gate.seen THEN "no" ELSE s.gate.failed,
                           !.from = IF s.gate.launched = s.gate.seen THEN Web!None
                                    ELSE s.gate.from]
  OBVIOUS
<1>6. PICK switching \in BOOLEAN :
          switching = (s.gate.switching /\ s.gate.launched # s.gate.seen)
  OBVIOUS
<1>7. PICK failed : failed = IF s.gate.launched = s.gate.seen THEN "no" ELSE s.gate.failed
  OBVIOUS
<1>8. PICK from : from = IF s.gate.launched = s.gate.seen THEN Web!None ELSE s.gate.from
  OBVIOUS
<1>9. g = [s.gate EXCEPT !.peer = TRUE, !.switching = switching, !.failed = failed, !.from = from]
  BY <1>5, <1>6, <1>7, <1>8
<1>10. failed \in {"no", "new", "old"} /\ from \in Web!Protocols \cup {Web!None}
  BY <1>3, <1>7, <1>8, WebFields DEF GateType
<1>11. /\ g \in GateType /\ g.seen = s.gate.seen /\ g.switching = switching
       /\ g.from = from /\ g.auth = s.gate.auth /\ g.reply = s.gate.reply
       /\ g.asker = s.gate.asker
  BY ZenonT(60), <1>3, <1>9, <1>10, WebFields DEF GateType
<1>12. Asked(g)
  BY <1>3, <1>6, <1>8, <1>11, WebFields DEF Asked
<1>13. PICK k : k = [s EXCEPT !.account = a, !.gate = g]
  OBVIOUS
<1>14. k \in StateType /\ k.gate = g /\ k.account = a /\ k.broker = s.broker
  <2>1. s \in StateType
    BY <1>3, WebFields
  <2> QED
    BY <1>4, <1>11, <1>13, <2>1 DEF StateType
<1>15. Web!Becomes(k, "switch")
  <2>1. s \in StateType /\ s.gate \in GateType
    BY <1>3, WebFields
  <2>2. k = [s EXCEPT !.account = a, !.gate.peer = TRUE,
                      !.gate.switching = @ /\ s.gate.launched # s.gate.seen,
                      !.gate.failed = IF s.gate.launched = s.gate.seen THEN "no" ELSE @,
                      !.gate.from = IF s.gate.launched = s.gate.seen THEN Web!None ELSE @]
    BY <1>5, <1>13, <2>1 DEF StateType, GateType
  <2> QED
    BY <1>2, <2>2
<1>16. WebSound(k, stored)
  BY <1>4, <1>11, <1>12, <1>14 DEF WebSound
<1>17. stored' = stored /\ config' = config
  BY DEF Web!StepAccept
<1> QED
  BY <1>3, <1>14, <1>15, <1>16, <1>17, ServeSound DEF WebInv

\* An answer ends the login, whatever the worker came to.
LEMMA AnsweredSound ==
    ASSUME NEW s, NEW file, WebSound(s, file), s.gate.auth, NEW a \in AccountType, NEW other,
           Trusted(a, s.gate.seen, other), NEW k,
           k = [s EXCEPT !.account = a, !.gate.auth = FALSE, !.gate.reply = TRUE]
    PROVE  WebSound(k, other) /\ k.broker = s.broker
<1> DEFINE g == [s.gate EXCEPT !.auth = FALSE, !.reply = TRUE]
<1>1. /\ g \in GateType /\ g.seen = s.gate.seen /\ g.switching = s.gate.switching
      /\ g.from = s.gate.from /\ g.auth = FALSE /\ g.reply = TRUE /\ g.asker = s.gate.asker
  BY ZenonT(60), WebFields DEF GateType
<1>2. k = [s EXCEPT !.account = a, !.gate = g]
  BY WebFields DEF StateType, GateType
<1> HIDE DEF g
<1>3. k \in StateType /\ k.gate = g /\ k.account = a /\ k.broker = s.broker
  <2>1. s \in StateType
    BY WebFields
  <2> QED
    BY <1>1, <1>2, <2>1 DEF StateType
<1>4. Asked(g)
  BY <1>1, WebFields DEF Asked
<1> QED
  BY <1>1, <1>3, <1>4 DEF WebSound

\* What a worker has come to is answered, to the connection that asked.
LEMMA StepAnswerWeb == ASSUME WebInv, Web!StepAnswer PROVE WebInv' /\ Quiet
<1>1. PICK s \in Web!Beginnings :
          /\ s.gate.auth
          /\ \/ \E a \in Web!Polled(s.account, s.gate.seen) :
                   /\ Web!Becomes([s EXCEPT !.account = a, !.gate.auth = FALSE,
                                                  !.gate.reply = TRUE],
                                  "switch")
                   /\ stored' = IF s.account.worker = "committed" /\ s.account.ended = "done"
                                THEN "same" ELSE stored
             \/ /\ stored' = stored
                /\ Web!Becomes([s EXCEPT !.account = Web!StopWorker(@), !.gate.auth = FALSE,
                                         !.gate.reply = TRUE], "switch")
  BY DEF Web!StepAnswer
<1>2. WebSound(s, stored) /\ s.broker = broker
  BY BeginningSound
<1>3. config' = config /\ config \in ConfigType /\ stored \in {Web!None, "same", "other"}
  BY DEF Web!StepAnswer, WebInv
<1>4. ASSUME NEW a \in Web!Polled(s.account, s.gate.seen),
             Web!Becomes([s EXCEPT !.account = a, !.gate.auth = FALSE,
                                   !.gate.reply = TRUE], "switch"),
             stored' = IF s.account.worker = "committed" /\ s.account.ended = "done"
                       THEN "same" ELSE stored
      PROVE  WebInv' /\ Quiet
  <2>1. s.gate.seen \in Web!Protocols
    BY <1>2, WebFields DEF GateType
  <2>2. a \in AccountType /\ Trusted(a, s.gate.seen, stored')
    BY <1>2, <1>4, <2>1, WebFields, PolledTrusted
  <2>3. PICK k : k = [s EXCEPT !.account = a, !.gate.auth = FALSE, !.gate.reply = TRUE]
    OBVIOUS
  <2>4. WebSound(k, stored') /\ k.broker = broker
    BY <1>1, <1>2, <2>2, <2>3, AnsweredSound
  <2>5. stored' \in {Web!None, "same", "other"}
    BY <1>3, <1>4
  <2> QED
    BY <1>3, <1>4, <2>3, <2>4, <2>5, ServeSound
<1>5. CASE /\ stored' = stored
           /\ Web!Becomes([s EXCEPT !.account = Web!StopWorker(@), !.gate.auth = FALSE,
                                    !.gate.reply = TRUE], "switch")
  <2>1. PICK a : a = Web!StopWorker(s.account)
    OBVIOUS
  <2>2. a \in AccountType /\ Trusted(a, s.gate.seen, stored')
    BY <1>2, <1>5, <2>1, WebFields, StopWorkerTrusted
  <2>3. PICK k : k = [s EXCEPT !.account = a, !.gate.auth = FALSE, !.gate.reply = TRUE]
    OBVIOUS
  <2>4. WebSound(k, stored') /\ k.broker = broker
    BY ZenonT(60), <1>1, <1>2, <2>2, <2>3, AnsweredSound
  <2> QED
    BY <1>3, <1>5, <2>1, <2>3, <2>4, ServeSound
<1> QED
  BY ZenonT(60), <1>1, <1>4, <1>5

\* A commit that begins keeps what is trusted: the file is the old one.
LEMMA StepCommitWeb == ASSUME WebInv, Web!StepCommit PROVE WebInv' /\ Quiet
<1>1. PICK s \in Web!Beginnings :
          LET begun == [s.account EXCEPT !.worker = "commit", !.ended = "no"]
          IN  /\ s.gate.auth /\ s.account.worker \in {"enroll", "change"}
              /\ \/ Web!Becomes([s EXCEPT !.account = begun], "switch")
                 \/ \E a \in {s.account, begun} :
                       Web!Becomes([s EXCEPT !.account = Web!StopWorker(a), !.gate.auth = FALSE,
                                             !.gate.reply = TRUE], "switch")
  BY ZenonT(60) DEF Web!StepCommit
<1>2. WebSound(s, stored) /\ s.broker = broker
  BY BeginningSound
<1>3. config' = config /\ config \in ConfigType /\ stored' = stored
      /\ stored \in {Web!None, "same", "other"}
  BY DEF Web!StepCommit, WebInv
<1> DEFINE begun == [s.account EXCEPT !.worker = "commit", !.ended = "no"]
<1>4. /\ begun \in AccountType /\ begun.worker = "commit" /\ begun.ended = "no"
      /\ begun.token = s.account.token /\ begun.administrator = s.account.administrator
      /\ begun.saveFailed = s.account.saveFailed
  BY <1>2, WebFields DEF AccountType
<1>5. \/ Web!Becomes([s EXCEPT !.account = begun], "switch")
      \/ \E a \in {s.account, begun} :
            Web!Becomes([s EXCEPT !.account = Web!StopWorker(a), !.gate.auth = FALSE,
                                  !.gate.reply = TRUE], "switch")
  BY <1>1
<1> HIDE DEF begun
<1>6. Trusted(begun, s.gate.seen, stored)
  BY <1>1, <1>2, <1>4, WebFields DEF Trusted, Web!None
<1>7. CASE Web!Becomes([s EXCEPT !.account = begun], "switch")
  <2>1. PICK k : k = [s EXCEPT !.account = begun]
    OBVIOUS
  <2>2. WebSound(k, stored') /\ k.broker = broker
    BY <1>2, <1>3, <1>4, <1>6, <2>1, AccountSound
  <2> QED
    BY <1>3, <1>7, <2>1, <2>2, ServeSound
<1>8. ASSUME NEW b \in {s.account, begun},
             Web!Becomes([s EXCEPT !.account = Web!StopWorker(b), !.gate.auth = FALSE,
                                   !.gate.reply = TRUE], "switch")
      PROVE  WebInv' /\ Quiet
  <2>1. PICK a : a = Web!StopWorker(b)
    OBVIOUS
  <2>2. a \in AccountType /\ Trusted(a, s.gate.seen, stored')
    BY <1>2, <1>3, <1>4, <1>6, <2>1, WebFields, StopWorkerTrusted
  <2>3. PICK k : k = [s EXCEPT !.account = a, !.gate.auth = FALSE, !.gate.reply = TRUE]
    OBVIOUS
  <2>4. WebSound(k, stored') /\ k.broker = broker
    BY ZenonT(60), <1>1, <1>2, <2>2, <2>3, AnsweredSound
  <2> QED
    BY <1>3, <1>8, <2>1, <2>3, <2>4, ServeSound
<1>9. CASE \E a \in {s.account, begun} :
              Web!Becomes([s EXCEPT !.account = Web!StopWorker(a), !.gate.auth = FALSE,
                                    !.gate.reply = TRUE], "switch")
  BY ZenonT(60), <1>8, <1>9
<1> QED
  BY ZenonT(60), <1>5, <1>7, <1>9

\* A request for authentication starts a worker (auth_request).
LEMMA StepAuthenticateWeb == ASSUME WebInv, Web!StepAuthenticate PROVE WebInv' /\ Quiet
<1>1. PICK s \in Web!Beginnings, worker1 \in {"login", "enroll", "change"} :
          /\ s.account.worker = Web!None
          /\ worker1 = "login" => s.account.administrator /\ ~s.account.saveFailed
          /\ Web!Becomes([s EXCEPT !.account = Web!Begins(s.account, worker1),
                                   !.gate.auth = TRUE, !.gate.asker = TRUE], "switch")
  BY ZenonT(60) DEF Web!StepAuthenticate
<1>2. WebSound(s, stored) /\ s.broker = broker
  BY BeginningSound
<1>3. config' = config /\ config \in ConfigType /\ stored' = stored
      /\ stored \in {Web!None, "same", "other"}
  BY DEF Web!StepAuthenticate, WebInv
<1> DEFINE a == [s.account EXCEPT !.worker = worker1]
           g == [s.gate EXCEPT !.auth = TRUE, !.asker = TRUE]
<1>4. /\ a \in AccountType /\ a.worker = worker1 /\ a.ended = s.account.ended
      /\ a.token = s.account.token /\ a.administrator = s.account.administrator
      /\ a.saveFailed = s.account.saveFailed
  BY <1>2, WebFields DEF AccountType
<1>5. /\ g \in GateType /\ g.seen = s.gate.seen /\ g.switching = s.gate.switching
      /\ g.from = s.gate.from /\ g.asker = TRUE
  BY <1>2, WebFields DEF GateType
<1>6. PICK k : k = [s EXCEPT !.account = a, !.gate = g]
  OBVIOUS
<1>7. s \in StateType /\ s.gate \in GateType
  BY <1>2, WebFields
<1>8. k = [s EXCEPT !.account = Web!Begins(s.account, worker1), !.gate.auth = TRUE,
                    !.gate.asker = TRUE]
  BY <1>6, <1>7 DEF StateType, GateType, Web!Begins
<1> HIDE DEF a, g
<1>9. k \in StateType /\ k.gate = g /\ k.account = a /\ k.broker = s.broker
  BY <1>4, <1>5, <1>6, <1>7 DEF StateType
<1>10. Trusted(a, g.seen, stored)
  BY <1>1, <1>2, <1>4, <1>5, WebFields DEF Trusted, Web!None
<1>11. Asked(g)
  BY <1>2, <1>5, WebFields DEF Asked
<1>12. WebSound(k, stored)
  BY <1>9, <1>10, <1>11 DEF WebSound
<1> QED
  BY ZenonT(60), <1>1, <1>2, <1>3, <1>8, <1>9, <1>12, ServeSound

\* Any other request is answered at once.
LEMMA StepRequestWeb == ASSUME WebInv, Web!StepRequest PROVE WebInv' /\ Quiet
<1>1. PICK s \in Web!Beginnings :
          LET answered == [s EXCEPT !.gate.reply = TRUE, !.gate.asker = TRUE]
          IN  \/ /\ \E a \in {s.account, [s.account EXCEPT !.code = FALSE],
                              [s.account EXCEPT !.token = Web!None]} :
                       Web!Becomes([answered EXCEPT !.account = a], "switch")
                 /\ config' = config
              \/ /\ \E e \in BOOLEAN, p \in Web!Protocols :
                       config' = [config EXCEPT !.next = [enabled |-> e, protocol |-> p]]
                 /\ Web!Becomes(answered, "switch")
  BY DEF Web!StepRequest
<1>2. WebSound(s, stored) /\ s.broker = broker
  BY BeginningSound
<1>3. config \in ConfigType /\ stored' = stored /\ stored \in {Web!None, "same", "other"}
  BY DEF Web!StepRequest, WebInv
<1> DEFINE g == [s.gate EXCEPT !.reply = TRUE, !.asker = TRUE]
           answered == [s EXCEPT !.gate.reply = TRUE, !.gate.asker = TRUE]
<1>4. /\ g \in GateType /\ g.seen = s.gate.seen /\ g.switching = s.gate.switching
      /\ g.from = s.gate.from /\ g.asker = TRUE
  BY <1>2, WebFields DEF GateType
<1>5. s \in StateType /\ s.gate \in GateType
  BY <1>2, WebFields
<1>6. answered = [s EXCEPT !.gate = g]
  BY <1>5 DEF StateType, GateType
<1>7. \/ /\ \E a \in {s.account, [s.account EXCEPT !.code = FALSE],
                      [s.account EXCEPT !.token = Web!None]} :
               Web!Becomes([answered EXCEPT !.account = a], "switch")
         /\ config' = config
      \/ /\ \E e \in BOOLEAN, p \in Web!Protocols :
               config' = [config EXCEPT !.next = [enabled |-> e, protocol |-> p]]
         /\ Web!Becomes(answered, "switch")
  BY <1>1
<1> HIDE DEF g, answered
<1>8. /\ answered \in StateType /\ answered.gate = g /\ answered.account = s.account
      /\ answered.broker = s.broker
  BY <1>4, <1>5, <1>6 DEF StateType
<1>9. Asked(g) /\ Trusted(s.account, g.seen, stored)
  BY <1>2, <1>4, WebFields DEF Asked
<1>10. WebSound(answered, stored)
  BY <1>8, <1>9, <1>4 DEF WebSound
<1>11. ASSUME NEW a \in {s.account, [s.account EXCEPT !.code = FALSE],
                         [s.account EXCEPT !.token = Web!None]},
              Web!Becomes([answered EXCEPT !.account = a], "switch"), config' = config
       PROVE  WebInv' /\ Quiet
  <2>1. s.account \in AccountType /\ Trusted(s.account, s.gate.seen, stored)
    BY <1>2, WebFields
  <2>2. a \in AccountType /\ Trusted(a, s.gate.seen, stored)
    <3>1. CASE a = s.account
      BY <2>1, <3>1
    <3>2. CASE a = [s.account EXCEPT !.code = FALSE]
      <4>1. /\ a \in AccountType /\ a.worker = s.account.worker /\ a.ended = s.account.ended
            /\ a.token = s.account.token /\ a.administrator = s.account.administrator
            /\ a.saveFailed = s.account.saveFailed
        BY <2>1, <3>2 DEF AccountType
      <4> QED
        BY <2>1, <4>1 DEF Trusted
    <3>3. CASE a = [s.account EXCEPT !.token = Web!None]
      BY <2>1, <3>3, EndedSessionTrusted
    <3> QED
      BY <1>11, <3>1, <3>2, <3>3
  <2>3. PICK k : k = [answered EXCEPT !.account = a]
    OBVIOUS
  <2>4. WebSound(k, stored') /\ k.broker = broker
    BY <1>2, <1>3, <1>4, <1>8, <1>10, <2>2, <2>3, AccountSound
  <2> QED
    BY <1>3, <1>11, <2>3, <2>4, ServeSound
<1>12. ASSUME NEW e \in BOOLEAN, NEW p \in Web!Protocols,
              config' = [config EXCEPT !.next = [enabled |-> e, protocol |-> p]],
              Web!Becomes(answered, "switch")
       PROVE  WebInv' /\ Quiet
  <2>1. config' \in ConfigType
    BY <1>3, <1>12 DEF ConfigType
  <2> QED
    BY <1>2, <1>3, <1>8, <1>10, <1>12, <2>1, ServeSound
<1> QED
  BY <1>7, <1>11, <1>12

-----------------------------------------------------------------------------
(* The panel, the configuration and the processes.                           *)

\* The application cancels what is pending, or shows a new code.
LEMMA LocalWeb == ASSUME WebInv, Web!Local PROVE WebInv' /\ Quiet
<1>1. PICK a : account' = a
  OBVIOUS
<1>7. a \in AccountType /\ Trusted(a, gate.seen, stored)
  <2>1. CASE a = Web!CancelPending(account)
    BY <2>1, AllSound, CancelPendingTrusted
  <2>2. ASSUME NEW recovery \in BOOLEAN, a = Web!NewCode(account, recovery)
        PROVE  a \in AccountType /\ Trusted(a, gate.seen, stored)
    BY <2>2, AllSound, NewCodeTrusted
  <2> QED
    BY <1>1, <2>1, <2>2 DEF Web!Local
<1>2. WebSound(Whole(gate, broker, a), stored)
  BY <1>1, <1>7, AllSound, WebParts
<1>3. UNCHANGED <<config, gate, broker, stored>>
  BY DEF Web!Local
<1>4. PICK k : k = Whole(gate, broker, a)
  OBVIOUS
<1>5. k.gate = gate /\ k.broker = broker /\ k.account = a
  BY <1>4 DEF Whole
<1>6. WebInv'
  BY <1>1, <1>7, <1>2, <1>3, <1>4, <1>5, AllSound, PartsSound DEF WebInv
<1> QED
  BY <1>3, <1>6 DEF Quiet

\* A step of the configuration alone disturbs nothing of the service.
LEMMA ConfigWeb ==
    ASSUME WebInv, config' \in ConfigType, UNCHANGED <<gate, broker, account, stored>>
    PROVE  WebInv' /\ Quiet
  BY DEF WebInv, Web!All, Quiet

\* The configuration is changed, and saved.
LEMMA ConfigureWeb == ASSUME WebInv, Web!Configure \/ Web!Saved PROVE WebInv' /\ Quiet
<1>1. config \in ConfigType
  BY AllSound
<1>2. CASE Web!Configure
  <2>1. config' \in ConfigType
    BY <1>1, <1>2 DEF Web!Configure, ConfigType
  <2> QED
    BY <1>2, <2>1, ConfigWeb DEF Web!Configure
<1>3. CASE Web!Saved
  <2>1. config' \in ConfigType
    <3>1. config.next \in [enabled : BOOLEAN, protocol : Web!Protocols]
      BY <1>1, <1>3 DEF Web!Saved, ConfigType
    <3>2. CASE config' = [enabled |-> config.next.enabled, protocol |-> config.next.protocol,
                          next |-> Web!NoChange]
      BY <3>1, <3>2 DEF ConfigType
    <3>3. CASE config' = [config EXCEPT !.next = Web!NoChange]
      BY <1>1, <3>3 DEF ConfigType
    <3> QED
      BY <1>3, <3>2, <3>3 DEF Web!Saved
  <2> QED
    BY <1>3, <2>1, ConfigWeb DEF Web!Saved
<1> QED
  BY <1>2, <1>3

\* The service ends by itself.
LEMMA ServiceEndsWeb == ASSUME WebInv, Web!ServiceEnds PROVE WebInv' /\ Quiet
<1> DEFINE g == [gate EXCEPT !.service = "ended"]
<1>1. /\ g \in GateType /\ g.seen = gate.seen /\ g.switching = gate.switching
      /\ g.from = gate.from /\ g.auth = gate.auth /\ g.reply = gate.reply
      /\ g.asker = gate.asker
  BY AllSound DEF GateType
<1>2. gate' = g /\ UNCHANGED <<config, broker, account, stored>>
  BY DEF Web!ServiceEnds
<1> HIDE DEF g
<1>3. Asked(g) /\ Trusted(account, g.seen, stored)
  BY <1>1, AllSound DEF Asked
<1>4. WebSound(Whole(g, broker, account), stored)
  BY <1>1, <1>3, AllSound, WebParts
<1>5. Web!All' = Whole(g, broker, account)
  BY <1>2 DEF Web!All, Whole
<1> QED
  BY <1>2, <1>4, <1>5 DEF WebInv, Quiet

\* The broker ends; a failure of it shows in how it ended.
LEMMA BrokerEndsWeb == ASSUME WebInv, Web!BrokerEnds PROVE WebInv' /\ Quiet
<1>1. PICK process1 \in {"ok", "bad"}, failed \in BOOLEAN :
          /\ broker' = [broker EXCEPT !.process = process1, !.failed = failed]
          /\ failed => process1 = "bad" \/ broker.failed
  <2>1. broker \in BrokerType
    BY AllSound
  <2>2. CASE broker' = [broker EXCEPT !.process = "ok"]
    <3>1. broker' = [broker EXCEPT !.process = "ok", !.failed = broker.failed]
      BY <2>1, <2>2 DEF BrokerType
    <3> QED
      BY <2>1, <3>1 DEF BrokerType
  <2>3. CASE broker' = [broker EXCEPT !.process = "bad", !.failed = TRUE]
    BY <2>3
  <2> QED
    BY <2>2, <2>3 DEF Web!BrokerEnds
<1>2. broker.process = "running" /\ UNCHANGED <<config, gate, account, stored>>
  BY DEF Web!BrokerEnds
<1>3. /\ broker' \in BrokerType /\ broker'.process = process1 /\ broker'.failed = failed
      /\ broker'.fault = broker.fault
  BY <1>1, AllSound DEF BrokerType
<1>4. Remembered(broker')
  BY <1>1, <1>2, <1>3, AllSound DEF Remembered
<1>5. Web!All' = Whole(gate, broker', account)
  BY <1>2 DEF Web!All, Whole
<1>6. WebSound(Whole(gate, broker', account), stored)
  BY <1>3, AllSound, WebParts
<1> QED
  BY <1>2, <1>4, <1>5, <1>6 DEF WebInv, Quiet, Web!None

\* A step of the worker is sound when it leaves its account trusted.
LEMMA WorkerWeb ==
    ASSUME WebInv, NEW a \in AccountType, account' = a, Trusted(a, gate.seen, stored'),
           UNCHANGED <<config, gate, broker>>, stored' \in {Web!None, "same", "other"}
    PROVE  WebInv' /\ Quiet
<1>1. Web!All' = Whole(gate, broker, a)
  BY DEF Web!All, Whole
<1>2. WebSound(Whole(gate, broker, a), stored')
  BY AllSound, WebParts
<1> QED
  BY <1>1, <1>2 DEF WebInv, Quiet

\* The worker renames the password file into place, which ends every session.
LEMMA WorkerRenamesWeb == ASSUME WebInv, Web!WorkerRenames PROVE WebInv' /\ Quiet
<1> DEFINE a == [account EXCEPT !.worker = "committed"]
<1>1. /\ a \in AccountType /\ a.worker = "committed" /\ a.ended = "no"
      /\ a.token = account.token /\ a.administrator = account.administrator
      /\ a.saveFailed = account.saveFailed
  BY AllSound DEF AccountType, Web!WorkerRenames
<1>2. account' = a /\ stored' = "other" /\ UNCHANGED <<config, gate, broker>>
  BY DEF Web!WorkerRenames
<1> HIDE DEF a
<1>3. Trusted(a, gate.seen, "other")
  BY <1>1, AllSound DEF Trusted, Web!None
<1> QED
  BY <1>1, <1>2, <1>3, WorkerWeb

\* The worker ends.
LEMMA WorkerEndsWeb == ASSUME WebInv, Web!WorkerEnds PROVE WebInv' /\ Quiet
<1>1. PICK result \in {"done", "denied", "kept", "failed"} :
          /\ result = "kept" => account.worker = "commit"
          /\ account' = [account EXCEPT !.ended = result]
  BY DEF Web!WorkerEnds
<1> DEFINE a == [account EXCEPT !.ended = result]
<1>2. /\ a \in AccountType /\ a.worker = account.worker /\ a.ended = result
      /\ a.token = account.token /\ a.administrator = account.administrator
      /\ a.saveFailed = account.saveFailed
  BY AllSound DEF AccountType
<1>3. account' = a /\ UNCHANGED <<config, gate, broker, stored>> /\ account.worker # Web!None
  BY <1>1 DEF Web!WorkerEnds
<1> HIDE DEF a
<1>4. Trusted(a, gate.seen, stored)
  BY <1>1, <1>2, <1>3, AllSound DEF Trusted
<1> QED
  BY <1>2, <1>3, <1>4, WorkerWeb DEF WebInv

\* The web gateway starts with no account trusted and nothing asked.
LEMMA WebInit == Web!Init => WebInv
<1> SUFFICES ASSUME Web!Init PROVE WebInv
  OBVIOUS
<1>1. config \in ConfigType /\ gate \in GateType /\ Asked(gate)
  BY DEF Web!Init, ConfigType, GateType, Asked, Web!Protocols, Web!None
<1>2. broker \in BrokerType /\ Remembered(broker)
  BY DEF Web!Init, BrokerType, Remembered
<1>3. account \in AccountType /\ Trusted(account, gate.seen, stored)
      /\ stored \in {Web!None, "same", "other"}
  BY DEF Web!Init, AccountType, Trusted, Web!None
<1>4. Web!All = Whole(gate, broker, account)
  BY DEF Web!All, Whole
<1> QED
  BY <1>1, <1>2, <1>3, <1>4, WebParts DEF WebInv

\* Each step of the web gateway keeps the invariant, and starts no broker that failed.
LEMMA WebStep ==
    ASSUME WebInv, Web!Next \/ UNCHANGED webVars
    PROVE  WebInv' /\ (broker.process = Web!None /\ broker'.process # Web!None => ~broker.failed)
<1>1. CASE UNCHANGED webVars
  BY <1>1 DEF webVars, WebInv, Web!All
<1>2. CASE Web!StepSwitch
  <2>1. broker' = broker
    <3>1. WebSound(Web!Seen(Web!All), stored) /\ Web!Seen(Web!All).broker = broker
      BY AllSound, SeenSound
    <3>2. PICK s : s = Web!Seen(Web!All)
      OBVIOUS
    <3>3. WebSound(Web!Restored(s), stored) /\ Web!Restored(s).broker = broker
      BY <3>1, <3>2, RestoredSound
    <3>4. PICK r : r = Web!Restored(s)
      OBVIOUS
    <3>5. Web!Leaves(s).broker = broker /\ Web!Leaves(r).broker = broker
      BY <3>1, <3>2, <3>3, <3>4, LeavesSound
    <3> QED
      BY <1>2, <3>2, <3>4, <3>5 DEF Web!StepSwitch, Web!Becomes
  <2> QED
    BY <1>2, <2>1, StepSwitchWeb
<1>3. CASE Web!StepReap
  BY <1>3, StepReapBroker
<1>4. CASE ~Web!StepSwitch /\ ~Web!StepReap /\ Web!Next
  <2>1. WebInv' /\ Quiet
    BY <1>4, StepStopWeb, StepWaitWeb, StepAttachWeb, StepLaunchWeb, StepAcceptWeb, StepAnswerWeb,
       StepCommitWeb, StepReplyWeb, StepHangUpWeb, StepAuthenticateWeb, StepRequestWeb, LocalWeb,
       ConfigureWeb, ServiceEndsWeb, BrokerEndsWeb, WorkerRenamesWeb, WorkerEndsWeb DEF Web!Next
  <2> QED
    BY <2>1 DEF Quiet
<1> QED
  BY <1>1, <1>2, <1>3, <1>4

-----------------------------------------------------------------------------
(* The UART of a port (UartBackend).                                         *)

\* Since the last of r recoveries nothing is left that came before it.
LineBytes(r) == [answers : 0 .. MaxStarts, at : {r}]

Operation(s, r) ==
    [request : 0 .. s, policy : Uart!Policies, left : 0 .. FrameLength, reported : BOOLEAN,
     rx : Seq(LineBytes(r))]

HardwareType == [termios : LineSettings, mode : LineSettings, special : LineSettings]

SavedType ==
    [termios : LineSettings \cup {"none"}, mode : LineSettings \cup {"none"},
     special : LineSettings \cup {"none"}]

\* The configuration applied last is the one that is current, whatever failed.
UartType(s, r, c) ==
    [opened : BOOLEAN, config : {c}, saved : SavedType, active : Operation(s, r)]

LineInv ==
    /\ starts \in 0 .. MaxStarts /\ recoveries \in 0 .. MaxRecoveries
    /\ line \in Seq(LineBytes(recoveries)) /\ Len(line) <= LineMax

\* An open device has what is current unless it is being changed or has failed; what it
\* had when it was opened is kept with the special rate that it used.
WellSet(p, u, h, c) ==
    /\ p \in {"stopped", "starting", "ready", "waiting", "recovering", "degraded",
              "reconfiguring", "stopping", "error"}
    /\ p \in {"ready", "waiting"} => u.opened
    /\ p \in {"stopped", "starting"} => ~u.opened
    /\ u.opened /\ p \in {"ready", "waiting", "recovering"} => Uart!Fits(h, c)
    /\ u.opened => u.saved.termios # "none" /\ u.saved.mode # "none"
    /\ u.opened /\ u.saved.termios \in SpecialSettings => u.saved.special # "none"

UartInv ==
    /\ LineInv /\ current \in LineSettings /\ hardware \in HardwareType
    /\ uart \in UartType(starts, recoveries, current)
    /\ WellSet(phase, uart, hardware, current)

\* The bounds of the UART, and the settings among which there is no "none".
LEMMA UartBounds ==
    /\ FrameLength \in Nat \ {0} /\ LineMax \in Nat \ {0} /\ DrainLimit \in Nat \ {0}
    /\ MaxStarts \in Nat \ {0} /\ MaxRecoveries \in Nat \ {0}
    /\ SpecialSettings \subseteq LineSettings
    /\ "none" \notin LineSettings
  BY ServicesAssumption

\* What is left of a line from which some bytes are taken, and those bytes.
LEMMA LineCut ==
    ASSUME NEW S, NEW q \in Seq(S), NEW n \in 0 .. Len(q)
    PROVE  /\ SubSeq(q, 1, n) \in Seq(S)
           /\ SubSeq(q, n + 1, Len(q)) \in Seq(S) /\ Len(SubSeq(q, n + 1, Len(q))) <= Len(q)
<1>1. Len(q) \in Nat
  BY LenProperties
<1>2. /\ SubSeq(q, 1, n) \in Seq(S)
  <2>1. \A i \in 1 .. n : q[i] \in S
    BY <1>1, ElementOfSeq
  <2> QED
    BY <2>1, <1>1, SubSeqProperties
<1>3. SubSeq(q, n + 1, Len(q)) \in Seq(S)
  <2>1. \A i \in n + 1 .. Len(q) : q[i] \in S
    BY <1>1, ElementOfSeq
  <2> QED
    BY <2>1, <1>1, SubSeqProperties
<1>4. Len(SubSeq(q, n + 1, Len(q))) = IF n + 1 <= Len(q) THEN Len(q) - (n + 1) + 1 ELSE 0
  BY <1>1, SubSeqProperties
<1> QED
  BY <1>1, <1>2, <1>3, <1>4

\* An operation that is followed or ended leaves the rest of the device's state.
LEMMA ActiveIs ==
    ASSUME NEW s, NEW r, NEW c, NEW u \in UartType(s, r, c), NEW s2, NEW a \in Operation(s2, r),
           s \in Nat, s2 \in Nat, s <= s2
    PROVE  /\ [u EXCEPT !.active = a] \in UartType(s2, r, c)
           /\ [u EXCEPT !.active = a].opened = u.opened
           /\ [u EXCEPT !.active = a].saved = u.saved
  BY DEF UartType

\* A device that does nothing.
LEMMA IdleIs == ASSUME NEW s \in Nat, NEW r PROVE Uart!Idle \in Operation(s, r)
<1>1. << >> \in Seq(LineBytes(r))
  BY EmptySeq
<1>2. 0 \in 0 .. FrameLength
  BY UartBounds
<1> QED
  BY <1>1, <1>2 DEF Operation, Uart!Idle, Uart!Policies

\* The parts of the invariant.
LEMMA UartParts ==
    ASSUME UartInv
    PROVE  /\ starts \in Nat /\ starts <= MaxStarts /\ recoveries \in Nat
           /\ line \in Seq(LineBytes(recoveries)) /\ Len(line) \in Nat /\ Len(line) <= LineMax
           /\ uart \in UartType(starts, recoveries, current)
           /\ uart.opened \in BOOLEAN /\ uart.config = current /\ uart.saved \in SavedType
           /\ uart.active \in Operation(starts, recoveries)
           /\ current \in LineSettings /\ hardware \in HardwareType
           /\ WellSet(phase, uart, hardware, current)
<1>1. /\ line \in Seq(LineBytes(recoveries)) /\ Len(line) <= LineMax
      /\ starts \in 0 .. MaxStarts /\ recoveries \in 0 .. MaxRecoveries
  BY DEF UartInv, LineInv
<1>2. Len(line) \in Nat
  BY <1>1, LenProperties
<1>3. starts \in Nat /\ starts <= MaxStarts /\ recoveries \in Nat
  BY <1>1, UartBounds
<1>4. uart \in UartType(starts, recoveries, current)
  BY DEF UartInv
<1>5. /\ uart.opened \in BOOLEAN /\ uart.config = current /\ uart.saved \in SavedType
      /\ uart.active \in Operation(starts, recoveries)
  BY <1>4 DEF UartType
<1> QED
  BY <1>1, <1>2, <1>3, <1>4, <1>5 DEF UartInv

\* A step of the operation or of the line leaves the settings as they are.
LEMMA OperationStep ==
    ASSUME UartInv, UNCHANGED <<hardware, current, recoveries>>,
           starts' \in 0 .. MaxStarts, starts <= starts',
           NEW a \in Operation(starts', recoveries), uart' = [uart EXCEPT !.active = a],
           line' \in Seq(LineBytes(recoveries)), Len(line') <= LineMax,
           WellSet(phase', uart, hardware, current)
    PROVE  UartInv'
<1>1. starts' \in Nat /\ starts \in Nat /\ uart \in UartType(starts, recoveries, current)
  BY UartParts, UartBounds
<1>2. /\ uart' \in UartType(starts', recoveries, current) /\ uart'.opened = uart.opened
      /\ uart'.saved = uart.saved
  BY <1>1, ActiveIs
<1>3. WellSet(phase', uart', hardware', current')
  BY <1>2 DEF WellSet, Uart!Fits
<1>4. LineInv'
  BY DEF LineInv, UartInv
<1> QED
  BY <1>2, <1>3, <1>4 DEF UartInv

\* A step that leaves the line as well.
LEMMA LineStep ==
    ASSUME UartInv, UNCHANGED <<uart, hardware, current, starts, recoveries>>,
           line' \in Seq(LineBytes(recoveries)), Len(line') <= LineMax,
           WellSet(phase', uart, hardware, current)
    PROVE  UartInv'
<1>1. LineInv'
  BY DEF LineInv, UartInv
<1> QED
  BY <1>1 DEF UartInv, WellSet, Uart!Fits

\* What is read off the line is no longer on it.
LEMMA ReadMoreIs ==
    ASSUME UartInv, NEW v, Uart!ReadMore(v)
    PROVE  /\ \E a \in Operation(starts, recoveries) : uart' = [uart EXCEPT !.active = a]
           /\ line' \in Seq(LineBytes(recoveries)) /\ Len(line') <= LineMax
<1>1. PICK n \in 1 .. Len(line) :
         /\ uart' = [uart EXCEPT !.active.rx = @ \o SubSeq(line, 1, n)]
         /\ line' = SubSeq(line, n + 1, Len(line))
  BY DEF Uart!ReadMore
<1>2. /\ SubSeq(line, 1, n) \in Seq(LineBytes(recoveries))
      /\ line' \in Seq(LineBytes(recoveries)) /\ Len(line') <= LineMax
  <2>1. n \in 0 .. Len(line)
    BY UartParts
  <2>2. Len(line') <= Len(line) /\ Len(line') \in Nat /\ Len(line) \in Nat /\ Len(line) <= LineMax
    BY <1>1, <2>1, LineCut, UartParts, LenProperties
  <2> QED
    BY <1>1, <2>1, <2>2, LineCut, UartParts, UartBounds
<1>3. PICK rx : rx = uart.active.rx \o SubSeq(line, 1, n)
  OBVIOUS
<1>4. rx \in Seq(LineBytes(recoveries))
  <2>1. uart.active.rx \in Seq(LineBytes(recoveries))
    BY UartParts DEF Operation
  <2> QED
    BY <1>2, <1>3, <2>1, ConcatProperties
<1>5. PICK a : a = [uart.active EXCEPT !.rx = rx]
  OBVIOUS
<1>6. a \in Operation(starts, recoveries)
  BY <1>4, <1>5, UartParts DEF Operation
<1>7. uart' = [uart EXCEPT !.active = a]
  BY <1>1, <1>3, <1>5, UartParts DEF UartType
<1> QED
  BY <1>2, <1>6, <1>7

\* A step of the operation, in the phase of the caller.
LEMMA OperationUart ==
    ASSUME UartInv,
           \/ \E policy \in Uart!Policies : Uart!Start(policy)
           \/ Uart!Write \/ Uart!Transmitted \/ Uart!ReadIncomplete \/ Uart!ReadResponse
           \/ Uart!WrittenResponse \/ Uart!ReadStale
    PROVE  UartInv'
<1>1. ASSUME NEW policy \in Uart!Policies, Uart!Start(policy) PROVE UartInv'
  <2>1. starts' \in 0 .. MaxStarts /\ starts <= starts' /\ starts' = starts + 1
    BY <1>1, UartParts, UartBounds DEF Uart!Start
  <2>2. PICK a : a = [request |-> starts + 1, policy |-> policy, left |-> FrameLength,
                      reported |-> FALSE, rx |-> << >>]
    OBVIOUS
  <2>3. << >> \in Seq(LineBytes(recoveries))
    BY EmptySeq
  <2>4. starts + 1 \in 0 .. starts' /\ FrameLength \in 0 .. FrameLength
    BY <2>1, UartParts, UartBounds
  <2>5. a \in Operation(starts', recoveries)
    BY <2>2, <2>3, <2>4 DEF Operation
  <2>6. uart' = [uart EXCEPT !.active = a]
    BY <1>1, <2>2 DEF Uart!Start
  <2>7. WellSet(phase', uart, hardware, current)
    BY <1>1, UartParts DEF Uart!Start, WellSet
  <2> QED
    BY <1>1, <2>1, <2>5, <2>6, <2>7, UartParts, OperationStep DEF Uart!Start
<1>2. CASE Uart!Write
  <2>1. PICK written \in 1 .. uart.active.left : uart' = [uart EXCEPT !.active.left = @ - written]
    BY <1>2 DEF Uart!Write, Uart!Active
  <2>2. PICK left : left = uart.active.left - written
    OBVIOUS
  <2>3. left \in 0 .. FrameLength
    <3>1. uart.active.left \in 0 .. FrameLength
      BY UartParts DEF Operation
    <3> QED
      BY <2>1, <2>2, <3>1, UartBounds
  <2>4. PICK a : a = [uart.active EXCEPT !.left = left]
    OBVIOUS
  <2>5. a \in Operation(starts, recoveries)
    BY <2>3, <2>4, UartParts DEF Operation
  <2>6. uart' = [uart EXCEPT !.active = a]
    BY <2>1, <2>2, <2>4, UartParts DEF UartType
  <2> QED
    BY <1>2, <2>5, <2>6, UartParts, OperationStep DEF Uart!Write, UartInv, LineInv
<1>3. CASE Uart!Transmitted
  <2>1. PICK a : a = [uart.active EXCEPT !.reported = TRUE]
    OBVIOUS
  <2>2. a \in Operation(starts, recoveries)
    BY <2>1, UartParts DEF Operation
  <2>3. uart' = [uart EXCEPT !.active = a]
    BY <1>3, <2>1, UartParts DEF UartType, Uart!Transmitted
  <2>4. UNCHANGED <<phase, hardware, line, starts, recoveries, current>>
    BY <1>3 DEF Uart!Transmitted
  <2>5. starts' \in 0 .. MaxStarts /\ starts <= starts' /\ WellSet(phase', uart, hardware, current)
    BY <2>4, UartParts DEF UartInv, LineInv
  <2> QED
    BY <2>2, <2>3, <2>4, <2>5, UartParts, OperationStep
<1>4. CASE Uart!ReadIncomplete
  <2>1. Uart!ReadMore("incomplete")
    BY <1>4 DEF Uart!ReadIncomplete
  <2> QED
    BY <1>4, <2>1, ReadMoreIs, UartParts, OperationStep DEF Uart!ReadIncomplete, UartInv, LineInv
<1>5. CASE Uart!ReadResponse
  <2>1. Uart!ReadMore("response") /\ phase = "waiting" /\ phase' = "ready"
    BY <1>5 DEF Uart!ReadResponse
  <2>2. WellSet(phase', uart, hardware, current)
    BY <2>1, UartParts DEF WellSet
  <2> QED
    BY <1>5, <2>1, <2>2, ReadMoreIs, OperationStep DEF Uart!ReadResponse, UartInv, LineInv
<1>6. CASE Uart!WrittenResponse
  <2>1. WellSet(phase', uart, hardware, current)
    BY <1>6, UartParts DEF WellSet, Uart!WrittenResponse
  <2> QED
    BY <1>6, <2>1, UartParts, LineStep DEF Uart!WrittenResponse
<1>7. CASE Uart!ReadStale
  <2>1. Uart!ReadMore("malformed")
    BY <1>7 DEF Uart!ReadStale
  <2> QED
    BY <1>7, <2>1, ReadMoreIs, UartParts, OperationStep DEF Uart!ReadStale, UartInv, LineInv
<1> QED
  BY <1>1, <1>2, <1>3, <1>4, <1>5, <1>6, <1>7

\* The line: a byte comes.
LEMMA ArrivalUart ==
    ASSUME UartInv, NEW b \in 0 .. MaxStarts, line' = Append(line, Uart!Byte(b)),
           Len(line) < LineMax,
           UNCHANGED <<phase, uart, hardware, current, starts, recoveries>>
    PROVE  UartInv'
<1>1. Uart!Byte(b) \in LineBytes(recoveries)
  BY DEF Uart!Byte, LineBytes
<1>2. line' \in Seq(LineBytes(recoveries)) /\ Len(line') = Len(line) + 1
  BY <1>1, UartParts, AppendProperties
<1>3. Len(line') <= LineMax
  BY <1>2, UartParts, UartBounds
<1> QED
  BY <1>2, <1>3, UartParts, LineStep

\* What is cut off the line leaves bytes of the line.
LEMMA LineCutUart ==
    ASSUME UartInv, NEW n \in 0 .. Len(line), line' = SubSeq(line, n + 1, Len(line))
    PROVE  line' \in Seq(LineBytes(recoveries)) /\ Len(line') <= LineMax
<1>1. /\ Len(line') <= Len(line) /\ Len(line) <= LineMax /\ Len(line) \in Nat
      /\ line' \in Seq(LineBytes(recoveries))
  BY UartParts, LineCut
<1>2. Len(line') \in Nat
  BY <1>1, LenProperties
<1> QED
  BY <1>1, <1>2, UartBounds

\* The operation is cancelled, or there was none.
LEMMA CancelUart ==
    ASSUME UartInv, uart' = uart \/ uart' = Uart!Cancelled,
           UNCHANGED <<hardware, current, starts, recoveries>>,
           line' \in Seq(LineBytes(recoveries)), Len(line') <= LineMax,
           WellSet(phase', uart, hardware, current)
    PROVE  UartInv'
<1>1. CASE uart' = uart
  BY <1>1, LineStep
<1>2. CASE uart' = Uart!Cancelled
  <2>1. PICK a : a = Uart!Idle
    OBVIOUS
  <2>2. a \in Operation(starts, recoveries)
    BY <2>1, UartParts, IdleIs
  <2>3. uart' = [uart EXCEPT !.active = a]
    BY <1>2, <2>1 DEF Uart!Cancelled
  <2>4. starts' \in 0 .. MaxStarts /\ starts <= starts'
    BY UartParts DEF UartInv, LineInv
  <2> QED
    BY <2>2, <2>3, <2>4, OperationStep
<1> QED
  BY <1>1, <1>2

\* The operation is given up, the port recovers in vain, or is to be changed or stopped.
LEMMA GiveUpUart ==
    ASSUME UartInv,
           \/ Uart!ReadMalformed \/ Uart!GivesUp \/ Uart!ReportsFailure \/ Uart!RecoverFails
           \/ Uart!RequestReconfigure \/ Uart!RequestStart \/ Uart!RequestStop
    PROVE  UartInv'
<1>1. CASE Uart!ReadMalformed
  <2>1. PICK n \in 1 .. Len(line) : line' = SubSeq(line, n + 1, Len(line))
    BY <1>1 DEF Uart!ReadMalformed
  <2>2. n \in 0 .. Len(line)
    BY <2>1, UartParts
  <2>3. line' \in Seq(LineBytes(recoveries)) /\ Len(line') <= LineMax
    BY <2>1, <2>2, LineCutUart
  <2>4. WellSet(phase', uart, hardware, current)
    BY <1>1, UartParts DEF WellSet, Uart!ReadMalformed
  <2> QED
    BY <1>1, <2>3, <2>4, CancelUart DEF Uart!ReadMalformed
<1>2. CASE Uart!GivesUp \/ Uart!ReportsFailure
  <2>1. WellSet(phase', uart, hardware, current)
    BY <1>2, UartParts DEF WellSet, Uart!GivesUp, Uart!ReportsFailure
  <2> QED
    BY <1>2, <2>1, UartParts, CancelUart DEF Uart!GivesUp, Uart!ReportsFailure
<1>3. CASE Uart!RecoverFails
  <2>1. PICK n \in 0 .. Len(line) : line' = SubSeq(line, n + 1, Len(line))
    BY <1>3 DEF Uart!RecoverFails
  <2>2. line' \in Seq(LineBytes(recoveries)) /\ Len(line') <= LineMax
    BY <2>1, LineCutUart
  <2>3. WellSet(phase', uart, hardware, current)
    BY <1>3, UartParts DEF WellSet, Uart!RecoverFails
  <2> QED
    BY <1>3, <2>2, <2>3, CancelUart DEF Uart!RecoverFails
<1>4. CASE Uart!RequestReconfigure \/ Uart!RequestStart \/ Uart!RequestStop
  <2>1. WellSet(phase', uart, hardware, current)
    BY <1>4, UartParts
    DEF WellSet, Uart!RequestReconfigure, Uart!RequestStart, Uart!RequestStop
  <2>2. /\ uart' = uart \/ uart' = Uart!Cancelled
        /\ UNCHANGED <<hardware, current, starts, recoveries, line>>
    BY <1>4 DEF Uart!RequestReconfigure, Uart!RequestStart, Uart!RequestStop
  <2> QED
    BY <2>1, <2>2, UartParts, CancelUart
<1> QED
  BY <1>1, <1>2, <1>3, <1>4

\* A recovery leaves nothing of what came before.
LEMMA RecoverUart == ASSUME UartInv, Uart!Recover PROVE UartInv'
<1>1. /\ phase = "recovering" /\ phase' = "ready" /\ recoveries < MaxRecoveries
      /\ recoveries' = recoveries + 1 /\ uart.opened /\ line' = << >>
      /\ uart' = [uart EXCEPT !.active = Uart!Idle]
      /\ UNCHANGED <<hardware, starts, current>>
  BY DEF Uart!Recover, Uart!RecoverWhole, Uart!Cancelled
<1>2. PICK a : a = Uart!Idle
  OBVIOUS
<1>3. a \in Operation(starts, recoveries')
  BY <1>2, UartParts, IdleIs
<1>4. /\ uart' \in UartType(starts', recoveries', current') /\ uart'.opened = uart.opened
      /\ uart'.saved = uart.saved
  BY <1>1, <1>2, <1>3, UartParts DEF UartType
<1>5. LineInv'
  <2>1. starts' \in 0 .. MaxStarts /\ recoveries' \in 0 .. MaxRecoveries
    BY <1>1, UartBounds DEF UartInv, LineInv
  <2>2. << >> \in Seq(LineBytes(recoveries')) /\ Len(<< >>) = 0 /\ 0 <= LineMax
    BY EmptySeq, UartBounds
  <2> QED
    BY <1>1, <2>1, <2>2 DEF LineInv
<1>6. WellSet(phase', uart', hardware', current')
  BY <1>1, <1>4, UartParts DEF WellSet, Uart!Fits
<1> QED
  BY <1>1, <1>4, <1>5, <1>6, UartParts DEF UartInv

\* What the driver has after a configuration was set, whole or in part.
LEMMA HardwareIs ==
    ASSUME NEW h \in HardwareType, NEW c \in LineSettings
    PROVE  /\ Uart!Whole(h, c) \in HardwareType /\ Uart!Fits(Uart!Whole(h, c), c)
           /\ Uart!Partial(h, c) \subseteq HardwareType
<1>1. /\ Uart!Moded(h, c) \in HardwareType /\ Uart!Half(h, c) \in HardwareType
      /\ Uart!Moded(h, c).termios = c /\ Uart!Moded(h, c).mode = c
  BY DEF Uart!Moded, Uart!Half, HardwareType
<1>2. Uart!Whole(h, c) \in HardwareType /\ Uart!Fits(Uart!Whole(h, c), c)
  BY <1>1 DEF Uart!Whole, Uart!Fits, HardwareType
<1> QED
  BY <1>1, <1>2 DEF Uart!Partial

\* A step that sets the line: neither the line nor the operation is touched, except that
\* a line that is closed loses what waited on it.
LEMMA SettingStep ==
    ASSUME UartInv, UNCHANGED <<starts, recoveries>>, line' = line \/ line' = << >>,
           current' \in LineSettings, hardware' \in HardwareType,
           NEW o \in BOOLEAN, NEW s \in SavedType,
           uart'.opened = o, uart'.saved = s,
           uart' \in UartType(starts, recoveries, current'),
           WellSet(phase', uart', hardware', current')
    PROVE  UartInv'
<1>1. line' \in Seq(LineBytes(recoveries)) /\ Len(line') <= LineMax
  <2>1. << >> \in Seq(LineBytes(recoveries)) /\ Len(<< >>) = 0 /\ 0 <= LineMax
    BY UartBounds, EmptySeq
  <2>2. CASE line' = line
    BY <2>2, UartParts
  <2>3. CASE line' = << >>
    BY <2>1, <2>3
  <2> QED
    BY <2>2, <2>3
<1> QED
  BY <1>1 DEF UartInv, LineInv

\* The device is opened and set, or found open.
LEMMA OpenUart == ASSUME UartInv, Uart!Open PROVE UartInv'
<1>1. phase = "starting" /\ phase' = "ready" /\ ~uart.opened
  BY UartParts DEF Uart!Open, WellSet
<1>2. PICK s : s = Uart!Saves
  OBVIOUS
<1>3. /\ hardware' = Uart!Whole(hardware, current)
      /\ uart' = [uart EXCEPT !.opened = TRUE, !.saved = s]
      /\ UNCHANGED <<line, starts, recoveries, current>>
  BY <1>1, <1>2, UartParts DEF Uart!Open
<1>4. /\ s \in SavedType /\ s.termios = hardware.termios
      /\ s.termios \in SpecialSettings => s.special = hardware.special
      /\ s.mode = hardware.mode
  <2>1. PICK x : x = IF hardware.termios \in SpecialSettings THEN hardware.special
                     ELSE uart.saved.special
    OBVIOUS
  <2>2. s = [hardware EXCEPT !.special = x]
    BY <1>2, <2>1, UartParts DEF Uart!Saves, HardwareType
  <2>3. x \in LineSettings \cup {"none"}
    BY <2>1, UartParts DEF HardwareType, SavedType
  <2>4. /\ s \in SavedType /\ s.termios = hardware.termios /\ s.special = x
        /\ s.mode = hardware.mode
    BY <2>2, <2>3, UartParts DEF HardwareType, SavedType
  <2> QED
    BY <2>1, <2>4
<1>5. /\ uart' \in UartType(starts, recoveries, current) /\ uart'.opened = TRUE
      /\ uart'.saved = s
  BY <1>3, <1>4, UartParts DEF UartType
<1>6. hardware' \in HardwareType /\ Uart!Fits(hardware', current)
  BY <1>3, UartParts, HardwareIs
<1>7. hardware.special # "none" /\ s.termios # "none" /\ s.mode # "none"
  BY <1>4, UartParts, UartBounds DEF HardwareType
<1>8. WellSet(phase', uart', hardware', current')
  BY <1>1, <1>3, <1>4, <1>5, <1>6, <1>7 DEF WellSet
<1> QED
  BY <1>3, <1>4, <1>5, <1>6, <1>8, UartParts, SettingStep

\* The device is not opened: what the driver has is some of it.
LEMMA OpenFailsUart == ASSUME UartInv, Uart!OpenFails PROVE UartInv'
<1>1. PICK h \in Uart!Partial(hardware, uart.config) :
         \E t \in {h.termios, hardware.termios}, m \in {h.mode, hardware.mode} :
           hardware' = [h EXCEPT !.termios = t, !.mode = m]
  BY Zenon DEF Uart!OpenFails
<1>2. h \in HardwareType
  BY <1>1, UartParts, HardwareIs
<1>3. PICK t \in {h.termios, hardware.termios}, m \in {h.mode, hardware.mode} :
         hardware' = [h EXCEPT !.termios = t, !.mode = m]
  BY <1>1
<1>4. hardware' \in HardwareType
  BY <1>2, <1>3, UartParts DEF HardwareType
<1>5. ~uart.opened /\ phase' \in {"starting", "recovering"} /\ line' = << >>
      /\ UNCHANGED <<uart, starts, recoveries, current>>
  BY DEF Uart!OpenFails
<1>6. WellSet(phase', uart', hardware', current')
  BY <1>5, UartParts DEF WellSet
<1> QED
  BY <1>4, <1>5, <1>6, UartParts, SettingStep

\* A change of the configuration takes it, falls back whole, or is an error.
LEMMA ReconfigureUart ==
    ASSUME UartInv, NEW c \in LineSettings,
           Uart!Reconfigure(c) \/ Uart!FallBack(c) \/ Uart!ReconfigureFails(c)
    PROVE  UartInv'
<1>1. CASE Uart!Reconfigure(c)
  <2>1. /\ phase' = "ready" /\ uart.opened /\ hardware' = Uart!Whole(hardware, c)
        /\ uart' = [uart EXCEPT !.config = c] /\ current' = c
        /\ UNCHANGED <<line, starts, recoveries>>
    BY <1>1 DEF Uart!Reconfigure, Uart!Applies
  <2>2. /\ uart' \in UartType(starts, recoveries, c) /\ uart'.opened = uart.opened
        /\ uart'.saved = uart.saved
    BY <2>1, UartParts DEF UartType
  <2>3. hardware' \in HardwareType /\ Uart!Fits(hardware', c)
    BY <2>1, UartParts, HardwareIs
  <2>4. WellSet(phase', uart', hardware', current')
    BY <2>1, <2>2, <2>3, UartParts DEF WellSet
  <2> QED
    BY <2>1, <2>2, <2>3, <2>4, UartParts, SettingStep
<1>2. CASE Uart!FallBack(c)
  <2>1. PICK h \in Uart!Partial(hardware, c) : hardware' = Uart!Whole(h, current)
    BY <1>2 DEF Uart!FallBack, Uart!FallsBackOn
  <2>2. /\ phase' = "ready" /\ uart.opened /\ uart' = [uart EXCEPT !.config = current]
        /\ UNCHANGED <<line, starts, recoveries, current>>
    BY <1>2 DEF Uart!FallBack, Uart!FallsBackOn
  <2>3. hardware' \in HardwareType /\ Uart!Fits(hardware', current)
    BY <2>1, UartParts, HardwareIs
  <2>4. /\ uart' \in UartType(starts, recoveries, current) /\ uart'.opened = uart.opened
        /\ uart'.saved = uart.saved
    BY <2>2, UartParts DEF UartType
  <2>5. WellSet(phase', uart', hardware', current')
    BY <2>2, <2>3, <2>4, UartParts DEF WellSet
  <2> QED
    BY <2>2, <2>3, <2>4, <2>5, UartParts, SettingStep
<1>3. CASE Uart!ReconfigureFails(c)
  <2>1. hardware' \in HardwareType
    <3>1. CASE uart.opened
      <4>1. PICK h \in Uart!Partial(hardware, c) : hardware' \in Uart!Partial(h, current)
        BY <1>3, <3>1 DEF Uart!ReconfigureFails, Uart!AppliesPartly
      <4>2. h \in HardwareType
        BY <4>1, UartParts, HardwareIs
      <4> QED
        BY <4>1, <4>2, UartParts, HardwareIs
    <3>2. CASE ~uart.opened
      BY <1>3, <3>2, UartParts DEF Uart!ReconfigureFails
    <3> QED
      BY <3>1, <3>2
  <2>2. phase' = "error" /\ UNCHANGED <<uart, line, starts, recoveries, current>>
    BY <1>3 DEF Uart!ReconfigureFails
  <2>3. WellSet(phase', uart', hardware', current')
    BY <2>2, UartParts DEF WellSet
  <2> QED
    BY <2>1, <2>2, <2>3, UartParts, SettingStep
<1> QED
  BY <1>1, <1>2, <1>3

\* What a stop sets back: all that was found when the device was opened.
LEMMA RestoredIs ==
    ASSUME UartInv, uart.opened
    PROVE  /\ Uart!Restored(uart.saved).termios = uart.saved.termios
           /\ Uart!Restored(uart.saved).mode = uart.saved.mode
           /\ uart.saved.termios \in SpecialSettings =>
                 Uart!Restored(uart.saved).special = uart.saved.special
           /\ uart.saved.termios \in LineSettings /\ uart.saved.mode \in LineSettings
           /\ Uart!Restored(uart.saved).special \in LineSettings
<1>1. PICK x : x = IF uart.saved.special = "none" THEN hardware.special ELSE uart.saved.special
  OBVIOUS
<1>2. Uart!Restored(uart.saved) = [uart.saved EXCEPT !.special = x]
  BY <1>1, UartParts DEF Uart!Restored, SavedType
<1>3. x \in LineSettings
  BY <1>1, UartParts DEF SavedType, HardwareType
<1>4. uart.saved.termios \in SpecialSettings => x = uart.saved.special
  BY <1>1, UartParts DEF WellSet
<1>5. uart.saved.termios \in LineSettings /\ uart.saved.mode \in LineSettings
  BY UartParts DEF WellSet, SavedType
<1> QED
  BY <1>2, <1>3, <1>4, <1>5, UartParts DEF SavedType

\* A device that is open is closed by the stop, and one that is not is left alone.
LEMMA StopCloses ==
    ASSUME Uart!Stop
    PROVE  /\ uart.opened => uart' = [uart EXCEPT !.opened = FALSE]
           /\ ~uart.opened => uart' = uart
<1>1. ASSUME uart.opened PROVE uart' = [uart EXCEPT !.opened = FALSE]
  BY <1>1 DEF Uart!Stop
<1>2. ASSUME ~uart.opened PROVE uart' = uart
  BY <1>2 DEF Uart!Stop
<1> QED
  BY <1>1, <1>2

\* The device is closed, with what was found set back or, if that fails, not.
LEMMA StopUart == ASSUME UartInv, Uart!Stop \/ Uart!StopFails PROVE UartInv'
<1>1. UNCHANGED <<starts, recoveries, current>>
  BY DEF Uart!Stop, Uart!StopFails
<1>2. PICK closed : closed = [uart EXCEPT !.opened = FALSE]
  OBVIOUS
<1>3. /\ closed \in UartType(starts, recoveries, current) /\ closed.opened = FALSE
      /\ closed.saved = uart.saved
  BY <1>2, UartParts DEF UartType
<1>4. uart' = closed \/ uart' = uart
  BY <1>2 DEF Uart!Stop, Uart!StopFails
<1>5. line' = line \/ line' = << >>
  BY DEF Uart!Stop, Uart!StopFails
<1>6. hardware' \in HardwareType
  <2>1. CASE Uart!Stop /\ uart.opened
    <3>1. PICK s : s = Uart!Restored(uart.saved)
      OBVIOUS
    <3>2. hardware' = s
      BY <2>1, <3>1 DEF Uart!Stop
    <3>3. s \in SavedType
      <4>1. PICK x : x = IF uart.saved.special = "none" THEN hardware.special
                         ELSE uart.saved.special
        OBVIOUS
      <4>2. s = [uart.saved EXCEPT !.special = x] /\ x \in LineSettings \cup {"none"}
        BY <3>1, <4>1, UartParts DEF Uart!Restored, SavedType, HardwareType
      <4> QED
        BY <4>2, UartParts DEF SavedType
    <3>4. s.termios \in LineSettings /\ s.mode \in LineSettings /\ s.special \in LineSettings
      BY <2>1, <3>1, RestoredIs
    <3> QED
      BY <3>2, <3>3, <3>4 DEF SavedType, HardwareType
  <2>2. CASE Uart!Stop /\ ~uart.opened
    BY <2>2, UartParts DEF Uart!Stop
  <2>3. CASE Uart!StopFails
    <3>1. PICK s : s = Uart!Restored(uart.saved)
      OBVIOUS
    <3>2. uart.opened
      BY <2>3 DEF Uart!StopFails
    <3>3. PICK t \in {hardware.termios, uart.saved.termios}, m \in {hardware.mode, uart.saved.mode},
               x \in {hardware.special, s.special} :
             hardware' = [termios |-> t, mode |-> m, special |-> x]
      BY <2>3, <3>1 DEF Uart!StopFails
    <3>4. t \in LineSettings /\ m \in LineSettings /\ x \in LineSettings
      BY <3>1, <3>2, <3>3, RestoredIs, UartParts DEF HardwareType
    <3> QED
      BY <3>3, <3>4 DEF HardwareType
  <2> QED
    BY <2>1, <2>2, <2>3
<1>7. WellSet(phase', uart', hardware', current')
  <2>1. ASSUME phase' = "stopped" PROVE uart' = closed \/ (~uart.opened /\ uart' = uart)
    <3>1. Uart!Stop
      BY <2>1 DEF Uart!StopFails
    <3>2. CASE uart.opened
      <4>1. uart' = [uart EXCEPT !.opened = FALSE]
        BY <3>1, <3>2, StopCloses
      <4> QED
        BY <1>2, <4>1
    <3>3. CASE ~uart.opened
      <4>1. uart' = uart
        BY <3>1, <3>3, StopCloses
      <4> QED
        BY <3>3, <4>1
    <3> QED
      BY <3>2, <3>3
  <2>2. /\ uart'.opened = FALSE \/ uart'.opened = uart.opened
        /\ uart'.saved = uart.saved
    BY <1>3, <1>4
  <2>3. phase' = "stopped" => ~uart'.opened
    BY <1>3, <1>4, <2>1
  <2>4. phase' \in {"stopped", "stopping", "error"}
    BY DEF Uart!Stop, Uart!StopFails
  <2> QED
    BY <2>2, <2>3, <2>4, UartParts DEF WellSet
<1>8. /\ uart' \in UartType(starts, recoveries, current) /\ uart'.opened \in BOOLEAN
      /\ uart'.saved \in SavedType
  BY <1>3, <1>4, UartParts
<1> QED
  BY <1>1, <1>5, <1>6, <1>7, <1>8, UartParts, SettingStep

\* Nothing is sent and the line is as it was found.
LEMMA UartInit == ASSUME Uart!Init PROVE UartInv
<1>1. PICK found \in LineSettings :
        hardware = [termios |-> found, mode |-> found, special |-> found]
  BY DEF Uart!Init
<1>2. PICK c \in LineSettings :
         /\ current = c
         /\ uart = [opened |-> FALSE, config |-> c, saved |-> Uart!NothingSaved,
                    active |-> Uart!Idle]
  BY DEF Uart!Init
<1>3. Uart!NothingSaved \in SavedType
  BY DEF Uart!NothingSaved, SavedType
<1>4. /\ phase = "stopped" /\ line = << >> /\ starts = 0 /\ recoveries = 0
  BY DEF Uart!Init
<1>5. Uart!Idle \in Operation(starts, recoveries)
  BY <1>4, IdleIs
<1>6. uart \in UartType(starts, recoveries, current) /\ ~uart.opened
  BY <1>2, <1>3, <1>5 DEF UartType
<1>7. LineInv
  <2>1. << >> \in Seq(LineBytes(recoveries)) /\ Len(<< >>) = 0 /\ 0 <= LineMax
    BY EmptySeq, UartBounds
  <2> QED
    BY <1>4, <2>1, UartBounds DEF LineInv
<1>8. WellSet(phase, uart, hardware, current)
  BY <1>4, <1>6 DEF WellSet
<1> QED
  BY <1>1, <1>2, <1>6, <1>7, <1>8 DEF UartInv, HardwareType

\* Each step of the UART keeps the invariant.
LEMMA UartStep == ASSUME UartInv, Uart!Next \/ UNCHANGED uartVars PROVE UartInv'
<1>1. CASE UNCHANGED uartVars
  BY <1>1 DEF uartVars, UartInv, LineInv, WellSet, Uart!Fits
<1>2. ASSUME NEW n \in 1 .. MaxStarts, Uart!Arrives(n) PROVE UartInv'
  BY <1>2, UartBounds, ArrivalUart DEF Uart!Arrives
<1>3. CASE Uart!Garbles
  BY <1>3, UartBounds, ArrivalUart DEF Uart!Garbles
<1>4. ASSUME NEW c \in LineSettings,
             Uart!Reconfigure(c) \/ Uart!FallBack(c) \/ Uart!ReconfigureFails(c)
      PROVE  UartInv'
  BY <1>4, ReconfigureUart
<1>5. CASE Uart!Next
  BY <1>2, <1>3, <1>4, <1>5, OperationUart, GiveUpUart, RecoverUart, OpenUart, OpenFailsUart,
     StopUart DEF Uart!Next
<1> QED
  BY <1>1, <1>5

\* A stop without an error sets back what was found.
LEMMA StopSetsBack ==
    ASSUME UartInv, Uart!Next \/ UNCHANGED uartVars, phase = "stopping", phase' = "stopped",
           uart.opened
    PROVE  /\ hardware'.termios = uart.saved.termios /\ hardware'.mode = uart.saved.mode
           /\ uart.saved.termios \in SpecialSettings => hardware'.special = uart.saved.special
<1>1. Uart!Stop
  BY DEF uartVars, Uart!Next, Uart!Open, Uart!OpenFails, Uart!Write, Uart!Transmitted,
         Uart!Arrives, Uart!Garbles, Uart!Start, Uart!ReadIncomplete, Uart!ReadResponse,
         Uart!WrittenResponse, Uart!ReadStale, Uart!ReadMalformed, Uart!GivesUp,
         Uart!ReportsFailure, Uart!Recover, Uart!RecoverFails, Uart!RequestReconfigure,
         Uart!RequestStart, Uart!RequestStop, Uart!StopFails, Uart!Reconfigure, Uart!FallBack,
         Uart!ReconfigureFails
<1>2. hardware' = Uart!Restored(uart.saved)
  BY <1>1 DEF Uart!Stop
<1> QED
  BY <1>2, RestoredIs

-----------------------------------------------------------------------------
(* The seed of the random numbers (RngSeed).                                 *)

Lineage == Nat \X Nat
SeedRecord == [schema : -1 .. 3, generation : Nat, used : Nat, seed : Lineage]
SeedFiles ==
    [made : BOOLEAN, state : SeedRecord, witness : SeedRecord, witnessNext : SeedRecord,
     pending : SeedRecord, policy : {"absent", "torn", "v1", "autonomous"}, trial : BOOLEAN,
     attempt : BOOLEAN]

\* The steps of a transaction, and those at which the lock is held.
Writing == {"revoke", "revokeClean", "clean", "witness", "renameWitness", "syncWitness",
            "pending", "renameState", "syncState"}
Holding == Writing \cup {"ready"}

Program ==
    [at : Holding \cup {"exited", "lock", "provision"},
     task : {"none", "serve", "provision", "service"}, production : BOOLEAN,
     record : SeedRecord, source : SeedRecord]

\* Record r was reserved after record o: its counter and its lineage are ahead.
Ahead(r, o) ==
    /\ r.generation > o.generation
    /\ r.seed[1] > o.seed[1] \/ (r.seed[1] = o.seed[1] /\ r.seed[2] > o.seed[2])

\* From r nothing was answered, nor from what follows it.
Unused(r, answered) == \A i \in 1 .. Len(answered) : Ahead(r, answered[i])

\* A record of entropy given before, within the limit.
Reserved(r, answered, entropy) ==
    r \in SeedRecord /\ Unused(r, answered) /\ r.seed[1] <= entropy
    /\ r.generation <= GenerationLimit

\* Files as a process sees them, or as a loss of power leaves them.
FilesSound(d, answered, entropy) ==
    /\ d \in SeedFiles /\ d.state.schema # -1
    /\ Reserved(d.state, answered, entropy)
    /\ d.made \/ d = Seed!NoFiles

\* How far the transaction of a production broker has come on the files.
Transacted(q, d) ==
    /\ d.policy = "autonomous" /\ ~d.trial /\ ~d.attempt /\ d.state.schema = 3
    /\ q.at # "renameWitness" => d.witnessNext = Seed!Absent
    /\ q.at # "renameState" => d.pending = Seed!Absent
    /\ q.at = "renameWitness" => d.witnessNext = q.record
    /\ q.at \in {"syncWitness", "pending", "renameState", "syncState"} => d.witness = q.record
    /\ q.at = "ready" => d.witness = d.state

\* A program p that runs as q.
ProgramSound(p, q, d, kept, holder, answered, entropy) ==
    /\ q.at = "exited" <=> q.task = "none"
    /\ q.at \in {"lock", "ready"} => q.task = "serve"
    /\ q.at = "provision" => q.task = "provision"
    /\ q.at \in {"revoke", "revokeClean", "clean"} => q.task = "service"
    /\ q.task = "service" => q.at \in Writing /\ q.production
    /\ q.task = "provision" => ~q.production
    /\ q.at # "exited" => d.made
    /\ q.at \in Holding => holder = p
    /\ q.task \in {"serve", "provision"} => (q.production <=> Seed!Production(d))
    /\ q.at = "provision" =>
         /\ q.record.schema = 1 /\ q.record.generation = 1 /\ q.record.seed[1] <= entropy
    /\ q.at \in Writing =>
         /\ Reserved(q.record, answered, entropy)
         /\ q.record.schema = IF q.production THEN 3 ELSE 1
    /\ q.at \in Writing /\ q.task = "serve" =>
         Reserved(q.source, answered, entropy) /\ Ahead(q.record, q.source)
    /\ q.at = "renameState" => d.pending = q.record
    /\ q.at = "syncState" => d.state = q.record
    /\ q.at \in Holding /\ q.task = "serve" /\ q.production => Transacted(q, d)
    /\ q.at = "ready" /\ q.production => kept = d

\* The answers: each from a record reserved after those answered from before.
AnswersSound(answered, entropy) ==
    /\ answered \in Seq(SeedRecord)
    /\ \A i \in 1 .. Len(answered) : answered[i].seed[1] <= entropy
    /\ \A i, j \in 1 .. Len(answered) : i < j => Ahead(answered[j], answered[i])

SeedInv ==
    /\ lock \in Processes \cup {"nobody"} /\ fresh \in Nat /\ troubles \in Nat
    /\ proc \in [Processes -> Program]
    /\ FilesSound(disk, served, fresh) /\ FilesSound(durable, served, fresh)
    /\ durable.made = disk.made
    /\ AnswersSound(served, fresh)
    /\ \A p \in Processes : ProgramSound(p, proc[p], disk, durable, lock, served, fresh)
    /\ \A p, r \in Processes : proc[p].task = "service" /\ r # p => proc[r].at = "exited"

\* Nothing but what the assumption says of the seed's constants.
LEMMA SeedBounds == GenerationLimit \in Nat \ {0} /\ "nobody" \notin Processes
  BY ServicesAssumption

\* The records that stand for no file and for a file half written.
LEMMA NoRecord ==
    /\ Seed!Absent \in SeedRecord /\ Seed!Torn \in SeedRecord
    /\ Seed!Absent.schema = 0 /\ Seed!Absent.generation = 0 /\ Seed!Exited \in Program
    /\ Seed!Exited.at = "exited" /\ Seed!Exited.task = "none" /\ ~Seed!Exited.production
<1>1. <<0, 0>> \in Lineage
  BY DEF Lineage
<1>2. Seed!Absent \in SeedRecord /\ Seed!Absent.schema = 0 /\ Seed!Absent.generation = 0
  BY <1>1 DEF Seed!Absent, Seed!Record, SeedRecord
<1>3. 0 - 1 \in -1 .. 3
  OBVIOUS
<1>4. Seed!Torn \in SeedRecord
  BY <1>1, <1>3 DEF Seed!Torn, Seed!Record, SeedRecord
<1> QED
  BY <1>2, <1>4 DEF Seed!Exited, Program, Holding, Writing

\* A lineage that is advanced is ahead.
LEMMA AdvanceIs ==
    ASSUME NEW s \in Lineage
    PROVE  Seed!Advance(s) \in Lineage /\ Seed!Advance(s)[1] = s[1]
           /\ Seed!Advance(s)[2] = s[2] + 1
<1>1. PICK a \in Nat, b \in Nat : s = <<a, b>>
  BY DEF Lineage
<1>2. Seed!Advance(s) = <<a, b + 1>>
  BY <1>1 DEF Seed!Advance
<1> QED
  BY <1>1, <1>2 DEF Lineage

\* What is ahead of a record is ahead of those behind it.
LEMMA AheadIsTransitive ==
    ASSUME NEW r \in SeedRecord, NEW o \in SeedRecord, NEW x \in SeedRecord,
           Ahead(r, o), Ahead(o, x)
    PROVE  Ahead(r, x)
<1>1. /\ r.generation \in Nat /\ o.generation \in Nat /\ x.generation \in Nat
      /\ r.seed[1] \in Nat /\ o.seed[1] \in Nat /\ x.seed[1] \in Nat
      /\ r.seed[2] \in Nat /\ o.seed[2] \in Nat /\ x.seed[2] \in Nat
  BY DEF SeedRecord, Lineage
<1> QED
  BY <1>1 DEF Ahead

\* A record that is made of what it says.
LEMMA RecordIs ==
    ASSUME NEW v \in -1 .. 3, NEW g \in Nat, NEW u \in Nat, NEW s \in Lineage
    PROVE  /\ Seed!Record(v, g, u, s) \in SeedRecord
           /\ Seed!Record(v, g, u, s).schema = v /\ Seed!Record(v, g, u, s).generation = g
           /\ Seed!Record(v, g, u, s).seed = s
  BY DEF Seed!Record, SeedRecord

\* The record that follows one that is reserved is reserved, and ahead of it.
LEMMA SuccessorIs ==
    ASSUME NEW old \in SeedRecord, NEW production \in BOOLEAN, NEW answered, NEW entropy,
           answered \in Seq(SeedRecord), Reserved(old, answered, entropy),
           old.generation < GenerationLimit
    PROVE  /\ Reserved(Seed!Successor(old, production), answered, entropy)
           /\ Ahead(Seed!Successor(old, production), old)
           /\ Seed!Successor(old, production).schema = IF production THEN 3 ELSE 1
<1>1. /\ old.generation \in Nat /\ old.used \in Nat /\ old.seed \in Lineage
      /\ old.seed[1] \in Nat /\ old.seed[2] \in Nat
  BY DEF SeedRecord, Lineage
<1>2. PICK s \in Lineage :
        s = Seed!Advance(old.seed) /\ s[1] = old.seed[1] /\ s[2] = old.seed[2] + 1
  BY <1>1, AdvanceIs
<1>3. PICK g \in Nat : g = old.generation + 1
  BY <1>1
<1>4. PICK r \in SeedRecord : /\ r = Seed!Successor(old, production)
                              /\ r.generation = g /\ r.seed = s
                              /\ r.schema = IF production THEN 3 ELSE 1
  <2>1. CASE production
    <3>1. old.used + 1 \in Nat /\ 3 \in -1 .. 3
      BY <1>1
    <3> QED
      BY <2>1, <3>1, <1>2, <1>3, RecordIs DEF Seed!Successor
  <2>2. CASE ~production
    <3>1. 0 \in Nat /\ 1 \in -1 .. 3
      OBVIOUS
    <3>2. Seed!Successor(old, production) = Seed!Record(1, g, 0, s)
      BY <2>2, <1>2, <1>3 DEF Seed!Successor
    <3>3. /\ Seed!Record(1, g, 0, s) \in SeedRecord /\ Seed!Record(1, g, 0, s).generation = g
          /\ Seed!Record(1, g, 0, s).seed = s /\ Seed!Record(1, g, 0, s).schema = 1
      BY <3>1, RecordIs
    <3> QED
      BY <2>2, <3>2, <3>3
  <2> QED
    BY <2>1, <2>2
<1>5. Ahead(r, old)
  BY <1>1, <1>2, <1>3, <1>4 DEF Ahead
<1>6. Unused(r, answered)
  <2> SUFFICES ASSUME NEW i \in 1 .. Len(answered) PROVE Ahead(r, answered[i])
    BY DEF Unused
  <2>1. answered[i] \in SeedRecord /\ Ahead(old, answered[i])
    BY ElementOfSeq DEF Reserved, Unused
  <2> QED
    BY <2>1, <1>4, <1>5, AheadIsTransitive
<1>7. g <= GenerationLimit
  BY <1>1, <1>3, SeedBounds
<1> QED
  BY <1>2, <1>4, <1>5, <1>6, <1>7 DEF Reserved

\* With more entropy given, what was sound is.
LEMMA MoreEntropy ==
    ASSUME NEW f \in Nat, NEW g \in Nat, f <= g, NEW answered
    PROVE  /\ \A r : Reserved(r, answered, f) => Reserved(r, answered, g)
           /\ \A d : FilesSound(d, answered, f) => FilesSound(d, answered, g)
           /\ AnswersSound(answered, f) => AnswersSound(answered, g)
           /\ \A p, d, kept, holder : \A q \in Program :
                ProgramSound(p, q, d, kept, holder, answered, f)
                  => ProgramSound(p, q, d, kept, holder, answered, g)
<1>1. ASSUME NEW r \in SeedRecord, r.seed[1] <= f PROVE r.seed[1] <= g
  <2>1. r.seed[1] \in Nat
    BY DEF SeedRecord, Lineage
  <2> QED
    BY <1>1, <2>1
<1>2. ASSUME NEW r, Reserved(r, answered, f) PROVE Reserved(r, answered, g)
  BY <1>1, <1>2 DEF Reserved
<1>3. ASSUME NEW d, FilesSound(d, answered, f) PROVE FilesSound(d, answered, g)
  BY <1>2, <1>3 DEF FilesSound
<1>4. ASSUME AnswersSound(answered, f) PROVE AnswersSound(answered, g)
  <2>1. \A i \in 1 .. Len(answered) : answered[i] \in SeedRecord /\ answered[i].seed[1] <= f
    BY <1>4, ElementOfSeq DEF AnswersSound
  <2> QED
    BY <1>1, <1>4, <2>1 DEF AnswersSound
<1>5. ASSUME NEW p, NEW d, NEW kept, NEW holder, NEW q \in Program,
             ProgramSound(p, q, d, kept, holder, answered, f)
      PROVE  ProgramSound(p, q, d, kept, holder, answered, g)
  <2>1. q.at = "provision" => q.record.seed[1] <= g
    <3>1. q.record \in SeedRecord
      BY DEF Program
    <3>2. q.at = "provision" => q.record.seed[1] <= f
      BY <1>5 DEF ProgramSound
    <3> QED
      BY <1>1, <3>1, <3>2
  <2>2. q.at \in Writing => Reserved(q.record, answered, g)
    BY <1>2, <1>5 DEF ProgramSound
  <2>3. q.at \in Writing /\ q.task = "serve" => Reserved(q.source, answered, g)
    BY <1>2, <1>5 DEF ProgramSound
  <2> QED
    BY <1>5, <2>1, <2>2, <2>3 DEF ProgramSound
<1> QED
  BY <1>2, <1>3, <1>4, <1>5

\* A program that does not hold the lock stands on little: another's transaction leaves it.
LEMMA OutsideKeeps ==
    ASSUME NEW p, NEW q \in Program, NEW d, NEW kept, NEW holder, NEW answered, NEW f \in Nat,
           NEW d2, NEW kept2, NEW holder2, NEW answered2, NEW g \in Nat,
           ProgramSound(p, q, d, kept, holder, answered, f), q.at \notin Holding, f <= g,
           q.at # "exited" =>
             d2.made = d.made /\ (Seed!Production(d2) <=> Seed!Production(d))
    PROVE  ProgramSound(p, q, d2, kept2, holder2, answered2, g)
<1>1. /\ q.at \notin Writing /\ q.at # "ready" /\ q.at # "renameState" /\ q.at # "syncState"
      /\ q.at \notin {"revoke", "revokeClean", "clean"}
  BY DEF Holding, Writing
<1>2. q.task # "service"
  BY <1>1 DEF ProgramSound
<1>3. /\ q.at = "exited" <=> q.task = "none"
      /\ q.at = "lock" => q.task = "serve"
      /\ q.at = "provision" => q.task = "provision"
      /\ q.task = "provision" => ~q.production
      /\ q.at # "exited" => d.made
      /\ q.task \in {"serve", "provision"} => (q.production <=> Seed!Production(d))
  BY DEF ProgramSound
<1>4. q.at = "provision" =>
         q.record.schema = 1 /\ q.record.generation = 1 /\ q.record.seed[1] <= g
  <2>1. q.record.seed[1] \in Nat
    BY DEF Program, SeedRecord, Lineage
  <2>2. q.at = "provision" =>
         q.record.schema = 1 /\ q.record.generation = 1 /\ q.record.seed[1] <= f
    BY DEF ProgramSound
  <2> QED
    BY <2>1, <2>2
<1>5. q.task \in {"serve", "provision"} => q.at # "exited"
  BY <1>3
<1>6. q.at # "exited" => d2.made
  BY <1>3
<1>7. q.task \in {"serve", "provision"} => (q.production <=> Seed!Production(d2))
  BY <1>3, <1>5
<1> QED
  BY <1>1, <1>2, <1>3, <1>4, <1>6, <1>7 DEF ProgramSound

\* The parts of the invariant.
LEMMA SeedParts ==
    ASSUME SeedInv
    PROVE  /\ lock \in Processes \cup {"nobody"} /\ fresh \in Nat /\ troubles \in Nat
           /\ proc \in [Processes -> Program]
           /\ FilesSound(disk, served, fresh) /\ FilesSound(durable, served, fresh)
           /\ disk \in SeedFiles /\ durable \in SeedFiles /\ disk.made \in BOOLEAN
           /\ durable.made = disk.made /\ AnswersSound(served, fresh)
           /\ served \in Seq(SeedRecord) /\ Len(served) \in Nat
           /\ Reserved(disk.state, served, fresh) /\ disk.state.schema # -1
           /\ disk.state \in SeedRecord /\ disk.pending \in SeedRecord
           /\ \A p \in Processes :
                /\ proc[p] \in Program
                /\ ProgramSound(p, proc[p], disk, durable, lock, served, fresh)
                /\ proc[p].at \in Holding => lock = p
                /\ proc[p].at # "exited" => disk.made
           /\ \A p, r \in Processes :
                proc[p].task = "service" /\ r # p => proc[r].at = "exited"
<1>1. /\ FilesSound(disk, served, fresh) /\ FilesSound(durable, served, fresh)
      /\ AnswersSound(served, fresh) /\ proc \in [Processes -> Program]
  BY DEF SeedInv
<1>2. /\ disk \in SeedFiles /\ durable \in SeedFiles /\ Reserved(disk.state, served, fresh)
      /\ disk.state.schema # -1
  BY <1>1 DEF FilesSound
<1>3. disk.made \in BOOLEAN /\ disk.state \in SeedRecord /\ disk.pending \in SeedRecord
  BY <1>2 DEF SeedFiles
<1>4. served \in Seq(SeedRecord) /\ Len(served) \in Nat
  BY <1>1, LenProperties DEF AnswersSound
<1>5. ASSUME NEW p \in Processes
      PROVE  /\ proc[p] \in Program
             /\ ProgramSound(p, proc[p], disk, durable, lock, served, fresh)
             /\ proc[p].at \in Holding => lock = p
             /\ proc[p].at # "exited" => disk.made
  <2>1. proc[p] \in Program
    BY <1>1
  <2>2. ProgramSound(p, proc[p], disk, durable, lock, served, fresh)
    BY DEF SeedInv
  <2> QED
    BY <2>1, <2>2 DEF ProgramSound
<1>6. /\ lock \in Processes \cup {"nobody"} /\ fresh \in Nat /\ troubles \in Nat
      /\ durable.made = disk.made
      /\ \A p, r \in Processes :
           proc[p].task = "service" /\ r # p => proc[r].at = "exited"
  BY DEF SeedInv
<1> QED
  BY <1>1, <1>2, <1>3, <1>4, <1>5, <1>6

\* A step of program p that leaves the files sound and p as q, which is sound.
LEMMA SeedFrame ==
    ASSUME SeedInv, NEW p \in Processes, NEW q \in Program, proc' = [proc EXCEPT ![p] = q],
           lock' \in Processes \cup {"nobody"}, fresh' \in Nat, fresh <= fresh',
           troubles' \in Nat,
           FilesSound(disk', served', fresh'), FilesSound(durable', served', fresh'),
           disk'.made = disk.made, durable'.made = disk.made, AnswersSound(served', fresh'),
           ProgramSound(p, q, disk', durable', lock', served', fresh'),
           \/ lock \in {p, "nobody"} \/ UNCHANGED <<disk, durable, lock, served>>
           \/ \A r \in Processes : proc[r].at = "exited",
           \/ proc[p].task = "service"
           \/ Seed!Production(disk') <=> Seed!Production(disk),
           proc[p].at = "exited" /\ q.at # "exited" =>
             \A r \in Processes : proc[r].task # "service",
           \/ q.task # "service" \/ proc[p].task = "service"
           \/ \A r \in Processes : proc[r].at = "exited"
    PROVE  SeedInv'
<1>1. proc' \in [Processes -> Program] /\ proc'[p] = q
      /\ \A r \in Processes : r # p => proc'[r] = proc[r]
  BY SeedParts
<1>2. ASSUME NEW r \in Processes
      PROVE  ProgramSound(r, proc'[r], disk', durable', lock', served', fresh')
  <2>1. CASE r = p
    BY <1>1, <2>1
  <2>2. CASE r # p /\ proc[r].at \notin Holding
    <3>1. /\ proc[r] \in Program
          /\ ProgramSound(r, proc[r], disk, durable, lock, served, fresh)
      BY SeedParts
    <3>2. proc[r].at # "exited" =>
            disk'.made = disk.made /\ (Seed!Production(disk') <=> Seed!Production(disk))
      <4>1. proc[p].task = "service" => proc[r].at = "exited"
        BY <2>2, SeedParts
      <4> QED
        BY <4>1
    <3>3. ProgramSound(r, proc[r], disk', durable', lock', served', fresh')
      BY <2>2, <3>1, <3>2, SeedParts, OutsideKeeps
    <3> QED
      BY <1>1, <2>2, <3>3
  <2>3. CASE r # p /\ proc[r].at \in Holding
    <3>1. lock = r
      BY <2>3, SeedParts
    <3>2. UNCHANGED <<disk, durable, lock, served>>
      <4>1. proc[r].at # "exited"
        BY <2>3 DEF Holding, Writing
      <4> QED
        BY <2>3, <3>1, <4>1, SeedBounds
    <3>3. ProgramSound(r, proc[r], disk, durable, lock, served, fresh')
      BY SeedParts, MoreEntropy
    <3> QED
      BY <1>1, <2>3, <3>2, <3>3
  <2> QED
    BY <2>1, <2>2, <2>3
<1>3. ASSUME NEW a \in Processes, NEW r \in Processes, proc'[a].task = "service", r # a
      PROVE  proc'[r].at = "exited"
  <2>1. CASE a = p
    <3>1. proc[p].task = "service" \/ \A x \in Processes : proc[x].at = "exited"
      BY <1>1, <1>3, <2>1
    <3>2. proc[r].at = "exited"
      BY <1>3, <2>1, <3>1, SeedParts
    <3> QED
      BY <1>1, <1>3, <2>1, <3>2
  <2>2. CASE a # p
    <3>1. proc[a].task = "service"
      BY <1>1, <1>3, <2>2
    <3>2. proc[p].at = "exited" /\ proc[r].at = "exited"
      BY <1>3, <2>2, <3>1, SeedParts
    <3>3. q.at = "exited"
      BY <3>1, <3>2
    <3> QED
      BY <1>1, <3>2, <3>3
  <2> QED
    BY <2>1, <2>2
<1>4. durable'.made = disk'.made
  OBVIOUS
<1> QED
  BY <1>1, <1>2, <1>3, <1>4 DEF SeedInv

\* A program that has ended asks for nothing.
LEMMA ExitedSound ==
    ASSUME NEW p, NEW d, NEW kept, NEW holder, NEW answered, NEW f
    PROVE  ProgramSound(p, Seed!Exited, d, kept, holder, answered, f)
<1>1. /\ Seed!Exited.at = "exited" /\ Seed!Exited.task = "none"
  BY NoRecord
<1>2. "exited" \notin Holding /\ "exited" \notin Writing
  BY DEF Holding, Writing
<1> QED
  BY <1>1, <1>2 DEF ProgramSound

\* A program ends and leaves files that are sound; it held the lock unless it left them alone.
LEMMA ExitStep ==
    ASSUME SeedInv, NEW p \in Processes, Seed!Exit(p), UNCHANGED <<served, fresh>>,
           troubles' \in Nat,
           FilesSound(disk', served, fresh), FilesSound(durable', served, fresh),
           disk'.made = disk.made, durable'.made = disk.made,
           lock \in {p, "nobody"} \/ UNCHANGED <<disk, durable>>,
           \/ proc[p].task = "service"
           \/ Seed!Production(disk') <=> Seed!Production(disk)
    PROVE  SeedInv'
<1>1. proc' = [proc EXCEPT ![p] = Seed!Exited]
  BY DEF Seed!Exit
<1>2. lock' = IF lock = p THEN "nobody" ELSE lock
  BY DEF Seed!Exit, Seed!Nobody
<1>3. lock' \in Processes \cup {"nobody"}
  BY <1>2, SeedParts
<1>4. lock \in {p, "nobody"} \/ UNCHANGED <<disk, durable, lock, served>>
  BY <1>2
<1>5. ProgramSound(p, Seed!Exited, disk', durable', lock', served', fresh')
  BY ExitedSound
<1>6. fresh' \in Nat /\ fresh <= fresh' /\ AnswersSound(served', fresh')
      /\ FilesSound(disk', served', fresh') /\ FilesSound(durable', served', fresh')
  BY SeedParts
<1>7. Seed!Exited \in Program /\ Seed!Exited.at = "exited" /\ Seed!Exited.task # "service"
  BY NoRecord
<1> QED
  BY <1>1, <1>3, <1>4, <1>5, <1>6, <1>7, SeedFrame

\* Files as a step that fails may leave them: what is answered from stays.
SeedLeaves(p, d) ==
    /\ FilesSound(d, served, fresh) /\ d.made = disk.made
    /\ \/ proc[p].task = "service"
       \/ Seed!Production(d) <=> Seed!Production(disk)

\* A system call that fails ends the program.
LEMMA FailureStep ==
    ASSUME SeedInv, NEW p \in Processes, proc[p].at \in Holding, NEW disks,
           Seed!FailsLeaving(p, disks), \A d \in disks : SeedLeaves(p, d)
    PROVE  SeedInv'
<1>1. /\ Seed!Exit(p) /\ UNCHANGED <<durable, served, fresh>> /\ troubles' = troubles + 1
      /\ SeedLeaves(p, disk')
  BY DEF Seed!FailsLeaving, Seed!Fault
<1>2. lock = p /\ troubles' \in Nat
  BY <1>1, SeedParts
<1>3. FilesSound(durable', served, fresh) /\ durable'.made = disk.made
  BY <1>1, SeedParts
<1> QED
  BY <1>1, <1>2, <1>3, ExitStep DEF SeedLeaves

\* A transaction goes on to its next step, with files that are sound.
LEMMA StageStep ==
    ASSUME SeedInv, NEW p \in Processes, proc[p].at \in Writing, NEW step \in Writing,
           Seed!GoesTo(p, step), SeedLeaves(p, disk'), FilesSound(durable', served, fresh),
           durable'.made = disk.made,
           step \in {"revoke", "revokeClean", "clean"} => proc[p].task = "service",
           step = "renameState" => disk'.pending = proc[p].record,
           step = "syncState" => disk'.state = proc[p].record,
           proc[p].task = "serve" /\ proc[p].production =>
             Transacted([proc[p] EXCEPT !.at = step], disk')
    PROVE  SeedInv'
<1>1. PICK q : q = [proc[p] EXCEPT !.at = step]
  OBVIOUS
<1>2. /\ q \in Program /\ q.at = step /\ q.task = proc[p].task
      /\ q.production = proc[p].production /\ q.record = proc[p].record
      /\ q.source = proc[p].source
  <2>1. proc[p] \in Program
    BY SeedParts
  <2> QED
    BY <1>1, <2>1 DEF Program, Holding
<1>3. /\ proc' = [proc EXCEPT ![p] = q] /\ UNCHANGED <<lock, served, fresh, troubles>>
  BY <1>1, SeedParts DEF Seed!GoesTo
<1>4. lock = p
  BY SeedParts DEF Holding
<1>5. /\ FilesSound(disk', served', fresh') /\ FilesSound(durable', served', fresh')
      /\ disk'.made = disk.made /\ durable'.made = disk.made
      /\ \/ proc[p].task = "service"
         \/ Seed!Production(disk') <=> Seed!Production(disk)
  BY <1>3 DEF SeedLeaves
<1>6. /\ step \notin {"exited", "lock", "ready", "provision"} /\ step \in Holding
      /\ proc[p].at \notin {"exited", "lock", "ready", "provision"}
  BY DEF Writing, Holding
<1>7. ProgramSound(p, proc[p], disk, durable, lock, served, fresh)
  BY SeedParts
<1>8. ProgramSound(p, q, disk', durable', lock', served', fresh')
  <2>1. /\ proc[p].task \in {"serve", "provision", "service"}
        /\ proc[p].task = "service" => proc[p].production
        /\ proc[p].task = "provision" => ~proc[p].production
        /\ Reserved(proc[p].record, served, fresh)
        /\ proc[p].record.schema = IF proc[p].production THEN 3 ELSE 1
        /\ proc[p].task = "serve" =>
             Reserved(proc[p].source, served, fresh) /\ Ahead(proc[p].record, proc[p].source)
        /\ proc[p].task \in {"serve", "provision"} =>
             (proc[p].production <=> Seed!Production(disk))
    <3>1. proc[p].task \in {"none", "serve", "provision", "service"}
      BY SeedParts DEF Program
    <3> QED
      BY <1>6, <1>7, <3>1 DEF ProgramSound
  <2>2. q.at # "exited" /\ q.task # "none" /\ disk'.made
    BY <1>2, <1>5, <1>6, <2>1, SeedParts
  <2>3. q.task \in {"serve", "provision"} => (q.production <=> Seed!Production(disk'))
    BY <1>2, <1>5, <2>1
  <2>4. q.at \in Holding /\ q.task = "serve" /\ q.production => Transacted(q, disk')
    BY <1>1, <1>2
  <2> QED
    BY <1>2, <1>3, <1>4, <1>6, <2>1, <2>2, <2>3, <2>4 DEF ProgramSound
<1>9. /\ lock' \in Processes \cup {"nobody"} /\ fresh' \in Nat /\ fresh <= fresh'
      /\ troubles' \in Nat /\ AnswersSound(served', fresh')
  BY <1>3, SeedParts
<1>10. q.task # "service" \/ proc[p].task = "service"
  BY <1>2
<1> QED
  BY <1>2, <1>3, <1>4, <1>5, <1>6, <1>8, <1>9, <1>10, SeedFrame

\* Files that differ only in what is not answered from are as sound.
LEMMA SameState ==
    ASSUME SeedInv, NEW p \in Processes, disk.made, NEW e \in SeedFiles, e.made = disk.made,
           e.state = disk.state, proc[p].task = "service" \/ e.policy = disk.policy
    PROVE  SeedLeaves(p, e)
<1>1. FilesSound(disk, served, fresh)
  BY SeedParts
<1>2. FilesSound(e, served, fresh)
  BY <1>1 DEF FilesSound
<1>3. proc[p].task = "service" \/ (Seed!Production(e) <=> Seed!Production(disk))
  BY DEF Seed!Production
<1> QED
  BY <1>2, <1>3 DEF SeedLeaves

\* What is not touched is as sound.
LEMMA SameFiles ==
    ASSUME SeedInv, NEW p \in Processes, disk.made
    PROVE  SeedLeaves(p, disk)
  BY SeedParts DEF SeedLeaves

\* What the transaction of a production broker says of the files.
LEMMA TransactedIs ==
    ASSUME SeedInv, NEW p \in Processes, proc[p].at \in Holding, proc[p].task = "serve",
           proc[p].production
    PROVE  Transacted(proc[p], disk)
<1>1. ProgramSound(p, proc[p], disk, durable, lock, served, fresh)
  BY SeedParts
<1> QED
  BY <1>1 DEF ProgramSound

\* A record is written.
LEMMA WriteStep ==
    ASSUME SeedInv, NEW p \in Processes, NEW name, NEW step, Seed!Write(p, name, step),
           \/ name = "witnessNext" /\ step = "renameWitness" /\ proc[p].at = "witness"
           \/ name = "pending" /\ step = "renameState" /\ proc[p].at = "pending"
    PROVE  SeedInv'
<1>1. /\ proc[p].at \in Writing /\ proc[p].at \in Holding /\ step \in Writing
      /\ lock = p /\ disk.made /\ proc[p].record \in SeedRecord
  <2>1. /\ proc[p].at \in Writing /\ proc[p].at \in Holding /\ step \in Writing
        /\ proc[p].at # "exited"
    BY DEF Writing, Holding
  <2> QED
    BY <2>1, SeedParts DEF Program
<1>2. PICK e : e = [disk EXCEPT ![name] = proc[p].record]
  OBVIOUS
<1>3. PICK torn : torn = [disk EXCEPT ![name] = Seed!Torn]
  OBVIOUS
<1>4. /\ e \in SeedFiles /\ e.made = disk.made /\ e.state = disk.state /\ e.witness = disk.witness
      /\ e.policy = disk.policy /\ e.trial = disk.trial /\ e.attempt = disk.attempt
      /\ name = "pending" => e.pending = proc[p].record /\ e.witnessNext = disk.witnessNext
      /\ name = "witnessNext" => e.witnessNext = proc[p].record /\ e.pending = disk.pending
  <2>1. CASE name = "pending"
    <3>1. e = [disk EXCEPT !["pending"] = proc[p].record]
      BY <1>2, <2>1
    <3> QED
      BY <1>1, <2>1, <3>1, SeedParts DEF SeedFiles
  <2>2. CASE name = "witnessNext"
    <3>1. e = [disk EXCEPT !["witnessNext"] = proc[p].record]
      BY <1>2, <2>2
    <3> QED
      BY <1>1, <2>2, <3>1, SeedParts DEF SeedFiles
  <2> QED
    BY <2>1, <2>2
<1>5. /\ torn \in SeedFiles /\ torn.made = disk.made /\ torn.state = disk.state
      /\ torn.policy = disk.policy
  <2>1. CASE name = "pending"
    <3>1. torn = [disk EXCEPT !["pending"] = Seed!Torn]
      BY <1>3, <2>1
    <3> QED
      BY <3>1, SeedParts, NoRecord DEF SeedFiles
  <2>2. CASE name = "witnessNext"
    <3>1. torn = [disk EXCEPT !["witnessNext"] = Seed!Torn]
      BY <1>3, <2>2
    <3> QED
      BY <3>1, SeedParts, NoRecord DEF SeedFiles
  <2> QED
    BY <2>1, <2>2
<1>6. SeedLeaves(p, e) /\ SeedLeaves(p, torn) /\ SeedLeaves(p, disk)
  BY <1>1, <1>4, <1>5, SameState, SameFiles
<1>7. CASE disk' = e /\ durable' = e /\ Seed!GoesTo(p, step)
  <2>1. ASSUME proc[p].task = "serve", proc[p].production
        PROVE  Transacted([proc[p] EXCEPT !.at = step], disk')
    <3>1. PICK q : q = [proc[p] EXCEPT !.at = step]
      OBVIOUS
    <3>2. q.at = step /\ q.record = proc[p].record
      BY <3>1, SeedParts DEF Program
    <3>3. Transacted(proc[p], disk)
      BY <1>1, <2>1, TransactedIs
    <3>4. Transacted(q, e)
      BY <1>4, <3>2, <3>3 DEF Transacted
    <3> QED
      BY <1>7, <3>1, <3>4
  <2>2. /\ step \notin {"revoke", "revokeClean", "clean", "syncState"}
        /\ step = "renameState" => disk'.pending = proc[p].record
    BY <1>4, <1>7
  <2>3. FilesSound(durable', served, fresh) /\ durable'.made = disk.made
    BY <1>6, <1>7 DEF SeedLeaves
  <2> QED
    BY <1>1, <1>6, <1>7, <2>1, <2>2, <2>3, StageStep
<1>8. CASE Seed!FailsLeaving(p, {disk, torn, e})
  BY <1>1, <1>6, <1>8, FailureStep
<1>9. CASE Seed!Exit(p) /\ UNCHANGED <<disk, durable, served, fresh, troubles>>
  <2>1. /\ FilesSound(disk', served, fresh) /\ FilesSound(durable', served, fresh)
        /\ disk'.made = disk.made /\ durable'.made = disk.made /\ troubles' \in Nat
    BY <1>9, SeedParts
  <2> QED
    BY <1>9, <2>1, ExitStep
<1> QED
  BY <1>2, <1>3, <1>7, <1>8, <1>9 DEF Seed!Write

\* What a step of a writing program may count on.
LEMMA WritingIs ==
    ASSUME SeedInv, NEW p \in Processes, proc[p].at \in Writing
    PROVE  /\ proc[p].at \in Holding /\ lock = p /\ disk.made
           /\ Reserved(proc[p].record, served, fresh) /\ proc[p].record \in SeedRecord
           /\ proc[p].record.schema = IF proc[p].production THEN 3 ELSE 1
           /\ proc[p].task \in {"serve", "provision", "service"}
           /\ proc[p].task \in {"serve", "provision"} =>
                (proc[p].production <=> Seed!Production(disk))
           /\ proc[p].task = "serve" =>
                /\ Reserved(proc[p].source, served, fresh)
                /\ Ahead(proc[p].record, proc[p].source)
           /\ proc[p].at = "renameState" => disk.pending = proc[p].record
           /\ proc[p].at = "syncState" => disk.state = proc[p].record
           /\ proc[p].task = "serve" /\ proc[p].production => Transacted(proc[p], disk)
<1>1. proc[p].at \in Holding /\ proc[p].at # "exited"
  BY DEF Holding, Writing
<1>2. ProgramSound(p, proc[p], disk, durable, lock, served, fresh)
  BY SeedParts
<1>3. proc[p] \in Program
  BY SeedParts
<1>4. proc[p].task \in {"none", "serve", "provision", "service"} /\ proc[p].record \in SeedRecord
  BY <1>3 DEF Program
<1>5. proc[p].task \in {"serve", "provision", "service"} /\ disk.made /\ lock = p
  BY <1>1, <1>2, <1>4 DEF ProgramSound
<1>6. /\ Reserved(proc[p].record, served, fresh)
      /\ proc[p].record.schema = IF proc[p].production THEN 3 ELSE 1
      /\ proc[p].task \in {"serve", "provision"} =>
           (proc[p].production <=> Seed!Production(disk))
      /\ proc[p].task = "serve" =>
           /\ Reserved(proc[p].source, served, fresh)
           /\ Ahead(proc[p].record, proc[p].source)
  BY <1>2 DEF ProgramSound
<1>7. /\ proc[p].at = "renameState" => disk.pending = proc[p].record
      /\ proc[p].at = "syncState" => disk.state = proc[p].record
      /\ proc[p].task = "serve" /\ proc[p].production => Transacted(proc[p], disk)
  BY <1>1, <1>2 DEF ProgramSound
<1> QED
  BY <1>1, <1>4, <1>5, <1>6, <1>7

\* A program at its next step, but for that as it was.
LEMMA AtIs ==
    ASSUME SeedInv, NEW p \in Processes, NEW step
    PROVE  /\ [proc[p] EXCEPT !.at = step].at = step
           /\ [proc[p] EXCEPT !.at = step].record = proc[p].record
  BY SeedParts DEF Program

\* The witness that was written takes its place.
LEMMA RenameWitnessStep ==
    ASSUME SeedInv, NEW p \in Processes, Seed!RenameWitness(p) PROVE SeedInv'
<1>1. proc[p].at = "renameWitness" /\ proc[p].at \in Writing /\ "syncWitness" \in Writing
  BY DEF Seed!RenameWitness, Writing
<1>2. PICK e : e = [disk EXCEPT !["witness"] = disk["witnessNext"],
                                !["witnessNext"] = Seed!Absent]
  OBVIOUS
<1>3. /\ e \in SeedFiles /\ e.made = disk.made /\ e.state = disk.state /\ e.policy = disk.policy
      /\ e.trial = disk.trial /\ e.attempt = disk.attempt /\ e.pending = disk.pending
      /\ e.witness = disk.witnessNext /\ e.witnessNext = Seed!Absent
  BY <1>2, SeedParts, NoRecord DEF SeedFiles
<1>4. SeedLeaves(p, e) /\ SeedLeaves(p, disk)
  BY <1>1, <1>3, SameState, SameFiles, WritingIs
<1>5. CASE disk' = e /\ durable' = durable /\ Seed!GoesTo(p, "syncWitness")
  <2>1. ASSUME proc[p].task = "serve", proc[p].production
        PROVE  Transacted([proc[p] EXCEPT !.at = "syncWitness"], disk')
    <3>1. Transacted(proc[p], disk)
      BY <1>1, <2>1, WritingIs
    <3> QED
      BY <1>1, <1>3, <1>5, <3>1, AtIs DEF Transacted
  <2>2. FilesSound(durable', served, fresh) /\ durable'.made = disk.made
    BY <1>5, SeedParts
  <2> QED
    BY <1>1, <1>4, <1>5, <2>1, <2>2, StageStep
<1>6. CASE Seed!FailsLeaving(p, {disk, e})
  BY <1>1, <1>4, <1>6, FailureStep, WritingIs
<1> QED
  BY <1>2, <1>5, <1>6 DEF Seed!RenameWitness, Seed!Rename

\* The directory is synced, with the witness in it.
LEMMA SyncWitnessStep ==
    ASSUME SeedInv, NEW p \in Processes, Seed!SyncWitness(p) PROVE SeedInv'
<1>1. proc[p].at = "syncWitness" /\ proc[p].at \in Writing /\ "pending" \in Writing
  BY DEF Seed!SyncWitness, Writing
<1>2. SeedLeaves(p, disk)
  BY <1>1, SameFiles, WritingIs
<1>3. CASE durable' = disk /\ Seed!GoesTo(p, "pending") /\ UNCHANGED disk
  <2>1. ASSUME proc[p].task = "serve", proc[p].production
        PROVE  Transacted([proc[p] EXCEPT !.at = "pending"], disk')
    <3>1. Transacted(proc[p], disk)
      BY <1>1, <2>1, WritingIs
    <3> QED
      BY <1>1, <1>3, <3>1, AtIs DEF Transacted
  <2>2. FilesSound(durable', served, fresh) /\ durable'.made = disk.made
    BY <1>3, SeedParts
  <2>3. SeedLeaves(p, disk')
    BY <1>2, <1>3
  <2> QED
    BY <1>1, <1>3, <2>1, <2>2, <2>3, StageStep
<1>4. CASE Seed!FailsLeaving(p, {disk})
  BY <1>1, <1>2, <1>4, FailureStep, WritingIs
<1> QED
  BY <1>3, <1>4 DEF Seed!SyncWitness

\* The record that was written becomes the state: it is reserved, and of the schema that
\* the program found.
LEMMA RenameStateStep ==
    ASSUME SeedInv, NEW p \in Processes, Seed!RenameState(p) PROVE SeedInv'
<1>1. proc[p].at = "renameState" /\ proc[p].at \in Writing /\ "syncState" \in Writing
  BY DEF Seed!RenameState, Writing
<1>2. PICK e : e = [disk EXCEPT !["state"] = disk["pending"], !["pending"] = Seed!Absent]
  OBVIOUS
<1>3. disk.pending = proc[p].record /\ disk.made
  BY <1>1, WritingIs
<1>4. /\ e \in SeedFiles /\ e.made = disk.made /\ e.witness = disk.witness /\ e.policy = disk.policy
      /\ e.trial = disk.trial /\ e.attempt = disk.attempt /\ e.pending = Seed!Absent
      /\ e.witnessNext = disk.witnessNext /\ e.state = proc[p].record
  BY <1>2, <1>3, SeedParts, NoRecord DEF SeedFiles
<1>5. SeedLeaves(p, e)
  <2>1. FilesSound(e, served, fresh)
    BY <1>1, <1>3, <1>4, WritingIs DEF FilesSound
  <2>2. ASSUME proc[p].task # "service" PROVE Seed!Production(e) <=> Seed!Production(disk)
    <3>1. /\ proc[p].production <=> Seed!Production(disk)
          /\ e.state.schema = IF proc[p].production THEN 3 ELSE 1
      BY <1>1, <1>4, <2>2, WritingIs
    <3>2. CASE proc[p].production
      BY <3>1, <3>2 DEF Seed!Production
    <3>3. CASE ~proc[p].production
      <4>1. e.state.schema = 1 /\ disk.policy = "absent"
        BY <3>1, <3>3 DEF Seed!Production
      <4> QED
        BY <1>4, <3>1, <3>3, <4>1 DEF Seed!Production
    <3> QED
      BY <3>2, <3>3
  <2> QED
    BY <1>4, <2>1, <2>2 DEF SeedLeaves
<1>6. SeedLeaves(p, disk)
  BY <1>3, SameFiles
<1>7. CASE disk' = e /\ durable' = durable /\ Seed!GoesTo(p, "syncState")
  <2>1. ASSUME proc[p].task = "serve", proc[p].production
        PROVE  Transacted([proc[p] EXCEPT !.at = "syncState"], disk')
    <3>1. Transacted(proc[p], disk) /\ proc[p].record.schema = 3
      BY <1>1, <2>1, WritingIs
    <3> QED
      BY <1>1, <1>4, <1>7, <3>1, AtIs DEF Transacted
  <2>2. FilesSound(durable', served, fresh) /\ durable'.made = disk.made
    BY <1>7, SeedParts
  <2>3. disk'.state = proc[p].record /\ SeedLeaves(p, disk')
    BY <1>4, <1>5, <1>7
  <2> QED
    BY <1>1, <1>7, <2>1, <2>2, <2>3, StageStep
<1>8. CASE Seed!FailsLeaving(p, {disk, e})
  BY <1>1, <1>5, <1>6, <1>8, FailureStep, WritingIs
<1> QED
  BY <1>2, <1>7, <1>8 DEF Seed!RenameState, Seed!Rename

\* One more answer, from a record ahead of all those before it.
LEMMA OneMoreAnswer ==
    ASSUME NEW answered, NEW s, NEW f, AnswersSound(answered, f), Reserved(s, answered, f)
    PROVE  /\ AnswersSound(Append(answered, s), f)
           /\ \A r : Reserved(r, answered, f) /\ Ahead(r, s) => Reserved(r, Append(answered, s), f)
<1>1. answered \in Seq(SeedRecord) /\ s \in SeedRecord
  BY DEF AnswersSound, Reserved
<1>2. PICK more : more = Append(answered, s)
  OBVIOUS
<1>3. PICK n \in Nat : n = Len(answered)
  BY <1>1, LenProperties
<1>4. /\ more \in Seq(SeedRecord) /\ Len(more) = n + 1 /\ more[n + 1] = s
      /\ \A i \in 1 .. n : more[i] = answered[i]
  BY <1>1, <1>2, <1>3, AppendProperties
<1>5. \A i \in 1 .. n : answered[i].seed[1] <= f /\ Ahead(s, answered[i])
  BY <1>3 DEF AnswersSound, Reserved, Unused
<1>6. \A i \in 1 .. n + 1 : more[i].seed[1] <= f
  <2> SUFFICES ASSUME NEW i \in 1 .. n + 1 PROVE more[i].seed[1] <= f
    OBVIOUS
  <2>1. CASE i \in 1 .. n
    BY <1>4, <1>5, <2>1
  <2>2. CASE i = n + 1
    BY <1>4, <2>2 DEF Reserved
  <2> QED
    BY <2>1, <2>2
<1>7. ASSUME NEW i \in 1 .. n + 1, NEW j \in 1 .. n + 1, i < j PROVE Ahead(more[j], more[i])
  <2>1. i \in 1 .. n
    BY <1>7
  <2>2. CASE j \in 1 .. n
    <3>1. Ahead(answered[j], answered[i])
      BY <1>3, <1>7, <2>1, <2>2 DEF AnswersSound
    <3> QED
      BY <1>4, <2>1, <2>2, <3>1
  <2>3. CASE j = n + 1
    <3>1. more[j] = s /\ more[i] = answered[i]
      BY <1>4, <2>1, <2>3
    <3> QED
      BY <1>5, <2>1, <3>1
  <2> QED
    BY <2>2, <2>3
<1>8. AnswersSound(more, f)
  BY <1>4, <1>6, <1>7 DEF AnswersSound
<1>9. ASSUME NEW r, Reserved(r, answered, f), Ahead(r, s) PROVE Reserved(r, more, f)
  <2>1. \A i \in 1 .. n : Ahead(r, answered[i])
    BY <1>3, <1>9 DEF Reserved, Unused
  <2>2. ASSUME NEW i \in 1 .. n + 1 PROVE Ahead(r, more[i])
    <3>1. CASE i \in 1 .. n
      <4>1. more[i] = answered[i]
        BY <1>4, <3>1
      <4> QED
        BY <2>1, <3>1, <4>1
    <3>2. CASE i = n + 1
      <4>1. more[i] = s
        BY <1>4, <3>2
      <4> QED
        BY <1>9, <4>1
    <3> QED
      BY <3>1, <3>2
  <2>3. Unused(r, more)
    BY <1>4, <2>2 DEF Unused
  <2> QED
    BY <1>9, <2>3 DEF Reserved
<1> QED
  BY <1>2, <1>8, <1>9

\* The transaction is committed: a broker answers from what it started from, and what is
\* left on the flash is ahead of that.
LEMMA CommitStep ==
    ASSUME SeedInv, NEW p \in Processes, Seed!Commit(p) PROVE SeedInv'
<1>1. proc[p].at = "syncState" /\ proc[p].at \in Writing
  BY DEF Seed!Commit, Writing
<1>2. /\ lock = p /\ disk.made /\ disk.state = proc[p].record
      /\ proc[p].at \in Holding
  BY <1>1, WritingIs
<1>3. CASE /\ durable' = disk /\ UNCHANGED <<disk, fresh, troubles>>
           /\ proc[p].task = "serve" /\ proc' = [proc EXCEPT ![p].at = "ready"]
           /\ served' = Append(served, proc[p].source) /\ UNCHANGED lock
  <2>1. PICK q : q = [proc[p] EXCEPT !.at = "ready"]
    OBVIOUS
  <2>2. /\ q \in Program /\ q.at = "ready" /\ q.task = "serve"
        /\ q.production = proc[p].production /\ q.record = proc[p].record
    <3>1. proc[p] \in Program
      BY SeedParts
    <3> QED
      BY <1>3, <2>1, <3>1 DEF Program, Holding
  <2>3. proc' = [proc EXCEPT ![p] = q]
    BY <1>3, <2>1, SeedParts
  <2>4. /\ Reserved(proc[p].source, served, fresh) /\ Ahead(disk.state, proc[p].source)
        /\ proc[p].production <=> Seed!Production(disk)
    BY <1>1, <1>2, <1>3, WritingIs
  <2>5. AnswersSound(served', fresh) /\ Reserved(disk.state, served', fresh)
    BY <1>3, <2>4, SeedParts, OneMoreAnswer
  <2>6. FilesSound(disk, served', fresh)
    BY <2>5, SeedParts DEF FilesSound
  <2>7. q.production => Transacted(q, disk)
    <3>1. ASSUME q.production PROVE Transacted(proc[p], disk)
      BY <1>1, <1>3, <2>2, <3>1, WritingIs
    <3> QED
      BY <1>1, <1>2, <2>2, <3>1 DEF Transacted
  <2>8. ProgramSound(p, q, disk', durable', lock', served', fresh')
    <3>1. "ready" \notin Writing /\ "ready" \in Holding
      BY DEF Writing, Holding
    <3> QED
      BY <1>2, <1>3, <2>2, <2>4, <2>7, <3>1 DEF ProgramSound
  <2>9. /\ lock' \in Processes \cup {"nobody"} /\ fresh' \in Nat /\ fresh <= fresh'
        /\ troubles' \in Nat /\ disk'.made = disk.made /\ durable'.made = disk.made
        /\ proc[p].at # "exited"
    BY <1>1, <1>3, SeedParts
  <2>10. /\ FilesSound(disk', served', fresh') /\ FilesSound(durable', served', fresh')
         /\ AnswersSound(served', fresh')
         /\ Seed!Production(disk') <=> Seed!Production(disk)
    BY <1>3, <2>5, <2>6
  <2> QED
    BY <1>2, <2>2, <2>3, <2>8, <2>9, <2>10, SeedFrame
<1>4. CASE Seed!Exit(p) /\ UNCHANGED <<served, disk, fresh, troubles>> /\ durable' = disk
  <2>1. /\ FilesSound(disk', served, fresh) /\ FilesSound(durable', served, fresh)
        /\ disk'.made = disk.made /\ durable'.made = disk.made /\ troubles' \in Nat
    BY <1>4, SeedParts
  <2> QED
    BY <1>2, <1>4, <2>1, ExitStep
<1>5. CASE Seed!FailsLeaving(p, {disk})
  <2>1. SeedLeaves(p, disk)
    BY <1>2, SameFiles
  <2> QED
    BY <1>2, <1>5, <2>1, FailureStep
<1> QED
  BY <1>3, <1>4, <1>5 DEF Seed!Commit

\* A program that ends without a change.
LEMMA QuitStep ==
    ASSUME SeedInv, NEW p \in Processes, Seed!Exit(p),
           UNCHANGED <<disk, durable, served, fresh>>, troubles' \in Nat
    PROVE  SeedInv'
<1>1. /\ FilesSound(disk', served, fresh) /\ FilesSound(durable', served, fresh)
      /\ disk'.made = disk.made /\ durable'.made = disk.made
  BY SeedParts
<1> QED
  BY <1>1, ExitStep

\* Files without the staging file are as sound.
LEMMA CleanedIs ==
    ASSUME SeedInv, NEW p \in Processes, disk.made
    PROVE  /\ SeedLeaves(p, [disk EXCEPT !.pending = Seed!Absent])
           /\ [disk EXCEPT !.pending = Seed!Absent].state = disk.state
<1>1. PICK e : e = [disk EXCEPT !.pending = Seed!Absent]
  OBVIOUS
<1>2. e \in SeedFiles /\ e.made = disk.made /\ e.state = disk.state /\ e.policy = disk.policy
  BY <1>1, SeedParts, NoRecord DEF SeedFiles
<1> QED
  BY <1>1, <1>2, SameState

\* A broker starts a transaction: what it reads was never answered from, and in production
\* nothing of it is in doubt.
LEMMA StartStep ==
    ASSUME SeedInv, NEW p \in Processes, Seed!Start(p), proc[p].task = "serve",
           proc[p].at # "exited", lock \in {p, "nobody"}
    PROVE  SeedInv'
<1>1. ProgramSound(p, proc[p], disk, durable, lock, served, fresh) /\ proc[p] \in Program
      /\ disk.made
  BY SeedParts
<1>2. proc[p].production \in BOOLEAN /\ (proc[p].production <=> Seed!Production(disk))
  BY <1>1 DEF ProgramSound, Program
<1>3. PICK cleaned : cleaned = IF proc[p].production THEN disk
                               ELSE [disk EXCEPT !.pending = Seed!Absent]
  OBVIOUS
<1>4. SeedLeaves(p, cleaned) /\ cleaned.state = disk.state
  BY <1>1, <1>3, CleanedIs, SameFiles
<1>5. PICK usage : usage = IF disk.state.schema >= 2 THEN disk.state.used ELSE 0
  OBVIOUS
<1>6. PICK at : at = IF proc[p].production THEN "witness" ELSE "pending"
  OBVIOUS
<1>7. CASE /\ IF proc[p].production THEN Seed!Startable(disk) ELSE Seed!Readable(disk.state)
           /\ ~Seed!Exhausted(disk.state.generation, usage)
           /\ lock' = p /\ disk' = cleaned
           /\ durable' = IF cleaned = disk THEN durable ELSE cleaned
           /\ proc' = [proc EXCEPT ![p].at = at, ![p].source = disk.state,
                         ![p].record = Seed!Successor(disk.state, proc[p].production)]
           /\ UNCHANGED <<served, fresh, troubles>>
  <2>1. disk.state \in SeedRecord /\ disk.state.generation \in Nat
        /\ disk.state.generation < GenerationLimit
    <3>1. disk.state \in SeedRecord
      BY SeedParts
    <3>2. disk.state.generation \in Nat
      BY <3>1 DEF SeedRecord
    <3> QED
      BY <1>7, <3>1, <3>2, SeedBounds DEF Seed!Exhausted
  <2>2. PICK r : r = Seed!Successor(disk.state, proc[p].production)
    OBVIOUS
  <2>3. /\ Reserved(r, served, fresh) /\ Ahead(r, disk.state) /\ r \in SeedRecord
        /\ r.schema = IF proc[p].production THEN 3 ELSE 1
    <3>1. Reserved(r, served, fresh) /\ Ahead(r, disk.state)
          /\ r.schema = IF proc[p].production THEN 3 ELSE 1
      BY <1>2, <2>1, <2>2, SeedParts, SuccessorIs
    <3> QED
      BY <3>1 DEF Reserved
  <2>4. PICK q : q = [proc[p] EXCEPT !.at = at, !.source = disk.state, !.record = r]
    OBVIOUS
  <2>5. at \in Writing /\ at \in {"witness", "pending"} /\ at \in Holding
    BY <1>6 DEF Writing, Holding
  <2>6. /\ q \in Program /\ q.at = at /\ q.task = "serve" /\ q.production = proc[p].production
        /\ q.record = r /\ q.source = disk.state
    <3>1. q = [[[proc[p] EXCEPT !.at = at] EXCEPT !.source = disk.state] EXCEPT !.record = r]
      BY <2>4
    <3> QED
      BY <1>1, <2>1, <2>3, <2>5, <3>1 DEF Program, Holding
  <2>7. proc' = [proc EXCEPT ![p] = q]
    BY <1>7, <2>2, <2>4, SeedParts
  <2>8. q.production => cleaned = disk /\ q.at = "witness" /\ Seed!Startable(disk)
    BY <1>3, <1>6, <1>7, <2>6
  <2>9. q.production => Transacted(q, cleaned)
    <3>1. ASSUME q.production PROVE Transacted(q, disk)
      <4>1. Seed!Startable(disk) /\ q.at = "witness"
        BY <2>8, <3>1
      <4>2. /\ disk.state.schema = 3 /\ ~disk.trial /\ disk.policy = "autonomous"
            /\ ~disk.attempt /\ disk.pending = Seed!Absent /\ disk.witnessNext = Seed!Absent
        BY <4>1 DEF Seed!Startable, Seed!PolicyAllows, Seed!Production, Seed!Uncertain
      <4> QED
        BY <4>1, <4>2 DEF Transacted
    <3> QED
      BY <2>8, <3>1
  <2>10. Seed!Production(cleaned) <=> Seed!Production(disk)
    BY <1>1, <1>4 DEF SeedLeaves
  <2>11. /\ FilesSound(cleaned, served, fresh) /\ cleaned.made = disk.made
    BY <1>4 DEF SeedLeaves
  <2>12. ProgramSound(p, q, disk', durable', lock', served', fresh')
    <3>1. Reserved(disk.state, served, fresh)
      BY SeedParts
    <3>2. q.task = "serve" /\ q.at \notin {"exited", "lock", "ready", "provision", "renameState",
              "syncState", "revoke", "revokeClean", "clean"}
      BY <2>5, <2>6
    <3> QED
      BY <1>1, <1>2, <1>7, <2>3, <2>5, <2>6, <2>9, <2>10, <2>11, <3>1, <3>2 DEF ProgramSound
  <2>13. /\ lock' \in Processes \cup {"nobody"} /\ fresh' \in Nat /\ fresh <= fresh'
         /\ troubles' \in Nat /\ AnswersSound(served', fresh')
    BY <1>7, SeedParts
  <2>14. /\ FilesSound(disk', served', fresh') /\ FilesSound(durable', served', fresh')
         /\ disk'.made = disk.made /\ durable'.made = disk.made
         /\ (Seed!Production(disk') <=> Seed!Production(disk))
    BY <1>7, <2>10, <2>11, SeedParts
  <2> QED
    BY <2>6, <2>7, <2>12, <2>13, <2>14, SeedFrame
<1>8. CASE Seed!Exit(p) /\ UNCHANGED <<disk, durable, served, fresh, troubles>>
  BY <1>8, QuitStep, SeedParts
<1> QED
  BY <1>3, <1>5, <1>6, <1>7, <1>8 DEF Seed!Start

\* The lock is taken, or the program ends; a broker goes on, or ends.
LEMMA BrokerStep ==
    ASSUME SeedInv, NEW p \in Processes, Seed!Lock(p) \/ Seed!Rotate(p) \/ Seed!Stop(p)
    PROVE  SeedInv'
<1>1. ProgramSound(p, proc[p], disk, durable, lock, served, fresh)
  BY SeedParts
<1>2. CASE Seed!Lock(p)
  <2>1. proc[p].at = "lock" /\ proc[p].task = "serve"
    BY <1>1, <1>2 DEF Seed!Lock, ProgramSound
  <2>2. CASE lock = "nobody" /\ Seed!Start(p)
    BY <2>1, <2>2, StartStep
  <2>3. CASE Seed!Exit(p) /\ UNCHANGED <<disk, durable, served, fresh, troubles>>
    BY <2>3, QuitStep, SeedParts
  <2> QED
    BY <1>2, <2>2, <2>3 DEF Seed!Lock, Seed!Nobody
<1>3. CASE Seed!Rotate(p)
  <2>1. proc[p].at = "ready" /\ proc[p].task = "serve" /\ lock = p /\ Seed!Start(p)
    BY <1>1, <1>3 DEF Seed!Rotate, ProgramSound, Holding
  <2> QED
    BY <2>1, StartStep
<1>4. CASE Seed!Stop(p)
  BY <1>4, QuitStep, SeedParts DEF Seed!Stop
<1> QED
  BY <1>2, <1>3, <1>4

\* More entropy was given, and nothing else was done.
LEMMA MoreEntropyIs ==
    ASSUME SeedInv, fresh' = fresh + 1
    PROVE  /\ fresh' \in Nat /\ fresh <= fresh'
           /\ FilesSound(disk, served, fresh') /\ FilesSound(durable, served, fresh')
           /\ AnswersSound(served, fresh')
  BY SeedParts, MoreEntropy

\* A broker looks at the files, which are of production or are not.
LEMMA BeginServeStep ==
    ASSUME SeedInv, NEW p \in Processes, Seed!BeginServe(p) PROVE SeedInv'
<1>1. PICK production \in BOOLEAN : production = Seed!Production(disk)
  BY DEF Seed!Production
<1>2. PICK q : q = [Seed!Exited EXCEPT !.at = "lock", !.task = "serve", !.production = production]
  OBVIOUS
<1>3. /\ q \in Program /\ q.at = "lock" /\ q.task = "serve" /\ q.production = production
  BY <1>2, NoRecord DEF Program
<1>4. /\ proc[p].at = "exited" /\ disk.made /\ proc' = [proc EXCEPT ![p] = q]
      /\ UNCHANGED <<disk, durable, lock, served, fresh, troubles>>
      /\ \A r \in Processes : proc[r].task # "service"
  BY <1>1, <1>2 DEF Seed!BeginServe, Seed!Servicing
<1>5. q.at \notin Holding /\ q.at \notin Writing
  BY <1>3 DEF Holding, Writing
<1>6. ProgramSound(p, q, disk', durable', lock', served', fresh')
  BY <1>1, <1>3, <1>4, <1>5 DEF ProgramSound
<1>7. /\ lock' \in Processes \cup {"nobody"} /\ fresh' \in Nat /\ fresh <= fresh'
      /\ troubles' \in Nat /\ AnswersSound(served', fresh')
      /\ FilesSound(disk', served', fresh') /\ FilesSound(durable', served', fresh')
      /\ disk'.made = disk.made /\ durable'.made = disk.made
  <2>1. /\ lock' = lock /\ fresh' = fresh /\ troubles' = troubles /\ served' = served
        /\ disk' = disk /\ durable' = durable
    BY <1>4
  <2> QED
    BY <2>1, SeedParts
<1>8. Seed!Production(disk') <=> Seed!Production(disk)
  BY <1>4
<1> QED
  BY <1>3, <1>4, <1>6, <1>7, <1>8, SeedFrame

\* Files without a state, for which fresh entropy is given.
LEMMA ProvisionStep ==
    ASSUME SeedInv, NEW p \in Processes, Seed!Provision(p) PROVE SeedInv'
<1>1. fresh' = fresh + 1 /\ fresh' \in Nat
  BY SeedParts DEF Seed!Provision
<1>2. PICK r \in SeedRecord : /\ r = Seed!Record(1, 1, 0, <<fresh', 0>>) /\ r.schema = 1
                              /\ r.generation = 1 /\ r.seed = <<fresh', 0>>
  <2>1. <<fresh', 0>> \in Lineage
    BY <1>1 DEF Lineage
  <2> QED
    BY <2>1, RecordIs
<1>3. PICK q : q = [Seed!Exited EXCEPT !.at = "provision", !.task = "provision", !.record = r]
  OBVIOUS
<1>4. /\ q \in Program /\ q.at = "provision" /\ q.task = "provision" /\ ~q.production
      /\ q.record = r
  BY <1>3, NoRecord DEF Program
<1>5. /\ proc[p].at = "exited" /\ disk.made /\ proc' = [proc EXCEPT ![p] = q]
      /\ UNCHANGED <<disk, durable, lock, served, troubles>>
      /\ \A x \in Processes : proc[x].task # "service"
  BY <1>2, <1>3 DEF Seed!Provision, Seed!Servicing
<1>6. ~Seed!Production(disk)
  <2>1. Seed!Status(disk) = "provision"
    BY DEF Seed!Provision
  <2>2. disk.state = Seed!Absent /\ disk.policy = "absent"
    BY <2>1 DEF Seed!Status
  <2> QED
    BY <2>2, NoRecord DEF Seed!Production
<1>7. q.at \notin Holding /\ q.at \notin Writing
  BY <1>4 DEF Holding, Writing
<1>8. q.record.schema = 1 /\ q.record.generation = 1 /\ q.record.seed[1] <= fresh'
  BY <1>1, <1>2, <1>4
<1>9. ProgramSound(p, q, disk', durable', lock', served', fresh')
  BY <1>4, <1>5, <1>6, <1>7, <1>8 DEF ProgramSound
<1>10. /\ lock' \in Processes \cup {"nobody"} /\ troubles' \in Nat
       /\ disk'.made = disk.made /\ durable'.made = disk.made
       /\ (Seed!Production(disk') <=> Seed!Production(disk))
  BY <1>5, SeedParts
<1>11. /\ fresh' \in Nat /\ fresh <= fresh' /\ AnswersSound(served', fresh')
       /\ FilesSound(disk', served', fresh') /\ FilesSound(durable', served', fresh')
  BY <1>1, <1>5, MoreEntropyIs
<1> QED
  BY <1>4, <1>5, <1>9, <1>10, <1>11, SeedFrame

\* As long as there is no state, there was no answer.
LEMMA NoStateNoAnswer ==
    ASSUME SeedInv, disk.state.generation = 0 PROVE \A r : Unused(r, served)
<1>1. ASSUME NEW i \in 1 .. Len(served) PROVE FALSE
  <2>1. served[i] \in SeedRecord
    BY SeedParts, ElementOfSeq
  <2>2. served[i].generation \in Nat
    BY <2>1 DEF SeedRecord
  <2>3. disk.state.generation > served[i].generation
    BY SeedParts DEF Reserved, Unused, Ahead
  <2> QED
    BY <2>2, <2>3
<1> QED
  BY <1>1 DEF Unused

\* Provisioning writes over no state.
LEMMA LockProvisionStep ==
    ASSUME SeedInv, NEW p \in Processes, Seed!LockProvision(p) PROVE SeedInv'
<1>1. ProgramSound(p, proc[p], disk, durable, lock, served, fresh) /\ proc[p] \in Program
  BY SeedParts
<1>2. /\ proc[p].at = "provision" /\ lock = "nobody" /\ UNCHANGED <<served, fresh, troubles>>
      /\ proc[p].task = "provision" /\ ~proc[p].production /\ disk.made
      /\ proc[p].record.schema = 1 /\ proc[p].record.generation = 1
      /\ proc[p].record.seed[1] <= fresh /\ proc[p].record \in SeedRecord
      /\ ~Seed!Production(disk)
  BY <1>1 DEF Seed!LockProvision, Seed!Nobody, ProgramSound, Program
<1>3. PICK cleaned : cleaned = [disk EXCEPT !.pending = Seed!Absent]
  OBVIOUS
<1>4. /\ SeedLeaves(p, cleaned) /\ cleaned.state = disk.state
  BY <1>2, <1>3, CleanedIs
<1>5. disk' = cleaned /\ durable' = IF cleaned = disk THEN durable ELSE cleaned
  BY <1>3 DEF Seed!LockProvision
<1>6. FilesSound(cleaned, served, fresh) /\ cleaned.made = disk.made
      /\ (Seed!Production(cleaned) <=> Seed!Production(disk))
  BY <1>2, <1>4 DEF SeedLeaves
<1>7. /\ FilesSound(disk', served', fresh') /\ FilesSound(durable', served', fresh')
      /\ disk'.made = disk.made /\ durable'.made = disk.made
      /\ (Seed!Production(disk') <=> Seed!Production(disk))
  BY <1>2, <1>5, <1>6, SeedParts
<1>8. CASE disk.state = Seed!Absent /\ lock' = p /\ proc' = [proc EXCEPT ![p].at = "pending"]
  <2>1. PICK q : q = [proc[p] EXCEPT !.at = "pending"]
    OBVIOUS
  <2>2. "pending" \in Writing /\ "pending" \in Holding
    BY DEF Writing, Holding
  <2>3. /\ q \in Program /\ q.at = "pending" /\ q.task = "provision" /\ ~q.production
        /\ q.record = proc[p].record
    BY <1>1, <1>2, <2>1, <2>2 DEF Program
  <2>4. proc' = [proc EXCEPT ![p] = q]
    BY <1>8, <2>1, SeedParts
  <2>5. Reserved(q.record, served, fresh)
    <3>1. Unused(q.record, served)
      BY <1>8, NoRecord, NoStateNoAnswer
    <3>2. 1 <= GenerationLimit
      BY SeedBounds
    <3> QED
      BY <1>2, <2>3, <3>1, <3>2 DEF Reserved
  <2>6. ProgramSound(p, q, disk', durable', lock', served', fresh')
    BY <1>2, <1>7, <1>8, <2>2, <2>3, <2>5 DEF ProgramSound
  <2>7. /\ lock' \in Processes \cup {"nobody"} /\ fresh' \in Nat /\ fresh <= fresh'
        /\ troubles' \in Nat /\ AnswersSound(served', fresh')
    BY <1>2, <1>8, SeedParts
  <2> QED
    BY <1>2, <1>7, <2>3, <2>4, <2>6, <2>7, SeedFrame
<1>9. CASE Seed!Exit(p)
  <2>1. troubles' \in Nat /\ UNCHANGED <<served, fresh>>
        /\ FilesSound(disk', served, fresh) /\ FilesSound(durable', served, fresh)
    BY <1>2, <1>7, SeedParts
  <2> QED
    BY <1>2, <1>7, <1>9, <2>1, ExitStep
<1> QED
  BY <1>8, <1>9 DEF Seed!LockProvision

\* A counter of a record.
LEMMA CounterIs ==
    ASSUME NEW field \in {"generation", "used"}, NEW r \in SeedRecord PROVE r[field] \in Nat
<1>1. CASE field = "generation"
  <2>1. r.generation \in Nat
    BY DEF SeedRecord
  <2> QED
    BY <1>1, <2>1
<1>2. CASE field = "used"
  <2>1. r.used \in Nat
    BY DEF SeedRecord
  <2> QED
    BY <1>2, <2>1
<1> QED
  BY <1>1, <1>2

\* The greatest counter of some records, or of those and one more.
LEMMA OneMoreCounter ==
    ASSUME NEW counter \in [SeedRecord -> Nat], NEW records \in SUBSET SeedRecord,
           \E m \in records : \A r \in records : counter[r] <= counter[m],
           NEW b \in SeedRecord, NEW more \in SUBSET {b}
    PROVE  \E m \in records \cup more : \A r \in records \cup more : counter[r] <= counter[m]
<1>1. PICK m \in records : \A r \in records : counter[r] <= counter[m]
  OBVIOUS
<1>2. CASE more = {}
  BY <1>1, <1>2
<1>3. CASE more = {b} /\ counter[b] <= counter[m]
  BY <1>1, <1>3
<1>4. CASE more = {b} /\ ~(counter[b] <= counter[m])
  <2>1. counter[b] \in Nat /\ counter[m] \in Nat /\ \A r \in records : counter[r] \in Nat
    OBVIOUS
  <2>2. \A r \in records \cup more : counter[r] <= counter[b]
    BY <1>1, <1>4, <2>1
  <2> QED
    BY <1>4, <2>2
<1> QED
  BY <1>2, <1>3, <1>4

\* A service that recovers starts from no less than any reservation that may have been
\* committed, the one of the state among them.
LEMMA HighestIs ==
    ASSUME NEW d \in SeedFiles, NEW field \in {"generation", "used"}
    PROVE  Seed!HighestOf(d, field) \in Nat /\ d.state[field] <= Seed!HighestOf(d, field)
<1>1. /\ d.state \in SeedRecord /\ d.witness \in SeedRecord /\ d.witnessNext \in SeedRecord
      /\ d.pending \in SeedRecord
  BY DEF SeedFiles
<1>2. PICK counter : counter = [r \in SeedRecord |-> r[field]]
  OBVIOUS
<1>3. counter \in [SeedRecord -> Nat] /\ \A r \in SeedRecord : counter[r] = r[field]
  BY <1>2, CounterIs
<1>4. PICK one \in SUBSET {d.witness} : one = {r \in {d.witness} : r.schema = 3}
  OBVIOUS
<1>5. PICK two \in SUBSET {d.witnessNext} : two = {r \in {d.witnessNext} : r.schema = 3}
  OBVIOUS
<1>6. PICK three \in SUBSET {d.pending} : three = {r \in {d.pending} : r.schema = 3}
  OBVIOUS
<1>7. PICK records : records = {d.state} \cup {r \in {d.witness, d.witnessNext, d.pending} :
                                                 r.schema = 3}
  OBVIOUS
<1>8. PICK first : first = {d.state} \cup one
  OBVIOUS
<1>9. PICK second : second = first \cup two
  OBVIOUS
<1>10. records = second \cup three
  BY <1>4, <1>5, <1>6, <1>7, <1>8, <1>9
<1>11. \E m \in first : \A r \in first : counter[r] <= counter[m]
  <2>1. \E m \in {d.state} : \A r \in {d.state} : counter[r] <= counter[m]
    BY <1>1, <1>3
  <2>2. {d.state} \in SUBSET SeedRecord
    BY <1>1
  <2> QED
    BY <1>1, <1>3, <1>8, <2>1, <2>2, OneMoreCounter
<1>12. \E m \in second : \A r \in second : counter[r] <= counter[m]
  <2>1. first \in SUBSET SeedRecord
    BY <1>1, <1>8
  <2> QED
    BY <1>1, <1>3, <1>9, <1>11, <2>1, OneMoreCounter
<1>13. \E m \in records : \A r \in records : counter[r] <= counter[m]
  <2>1. second \in SUBSET SeedRecord
    BY <1>1, <1>8, <1>9
  <2> QED
    BY <1>1, <1>3, <1>10, <1>12, <2>1, OneMoreCounter
<1>14. records \subseteq SeedRecord /\ d.state \in records
  BY <1>1, <1>7
<1>15. PICK n : n = CHOOSE x \in {r[field] : r \in records} :
                   \A r \in records : r[field] <= x
  OBVIOUS
<1>16. \E x \in {r[field] : r \in records} : \A r \in records : r[field] <= x
  <2>1. PICK m \in records : \A r \in records : counter[r] <= counter[m]
    BY <1>13
  <2>2. m[field] \in {r[field] : r \in records} /\ \A r \in records : r[field] <= m[field]
    BY <1>3, <1>14, <2>1
  <2> QED
    BY <2>2
<1>17. n \in {r[field] : r \in records} /\ \A r \in records : r[field] <= n
  BY <1>15, <1>16
<1>18. n \in Nat /\ d.state[field] <= n
  BY <1>14, <1>17, CounterIs
<1>19. Seed!HighestOf(d, field) = n
  BY <1>7, <1>15 DEF Seed!HighestOf
<1> QED
  BY <1>18, <1>19

\* What a service starts from: no less than the counters of the state.
LEMMA KnownIs ==
    ASSUME SeedInv, NEW recover \in BOOLEAN, NEW field \in {"generation", "used"}, NEW n,
           n = IF recover THEN Seed!HighestOf(disk, field) ELSE disk.state[field]
    PROVE  n \in Nat /\ disk.state[field] <= n
<1>1. disk \in SeedFiles /\ disk.state[field] \in Nat
  BY SeedParts, CounterIs
<1>2. CASE recover
  BY <1>1, <1>2, HighestIs
<1>3. CASE ~recover
  BY <1>1, <1>3
<1> QED
  BY <1>2, <1>3

\* A service gives fresh entropy: its record is ahead of all that was answered from.
LEMMA ServiceStep ==
    ASSUME SeedInv, NEW p \in Processes, NEW recover \in BOOLEAN, Seed!Service(p, recover)
    PROVE  SeedInv'
<1>1. PICK generation : generation = IF recover THEN Seed!HighestOf(disk, "generation")
                                     ELSE disk.state["generation"]
  OBVIOUS
<1>2. PICK usage : usage = IF recover THEN Seed!HighestOf(disk, "used") ELSE disk.state["used"]
  OBVIOUS
<1>3. generation \in Nat /\ disk.state.generation <= generation /\ usage \in Nat
  <2>1. generation \in Nat /\ disk.state["generation"] <= generation
    BY <1>1, KnownIs
  <2>2. usage \in Nat
    BY <1>2, KnownIs
  <2> QED
    BY <2>1, <2>2
<1>4. fresh' = fresh + 1 /\ fresh' \in Nat
  BY SeedParts DEF Seed!Service
<1>5. PICK r : r = Seed!Record(3, generation + 1, usage + 1, <<fresh', 0>>)
  OBVIOUS
<1>6. PICK at : at = IF recover THEN "revokeClean" ELSE "revoke"
  OBVIOUS
<1>7. PICK q : q = [at |-> at, task |-> "service", production |-> TRUE, record |-> r,
                    source |-> Seed!Absent]
  OBVIOUS
<1>8. /\ \A x \in Processes : proc[x].at = "exited"
      /\ disk.made /\ ~Seed!Exhausted(generation, usage) /\ lock' = p
      /\ proc' = [proc EXCEPT ![p] = q]
      /\ UNCHANGED <<disk, durable, served, troubles>>
  BY <1>1, <1>2, <1>5, <1>6, <1>7 DEF Seed!Service
<1>9. /\ r \in SeedRecord /\ r.schema = 3 /\ r.generation = generation + 1
      /\ r.seed = <<fresh', 0>>
  <2>1. <<fresh', 0>> \in Lineage /\ generation + 1 \in Nat /\ usage + 1 \in Nat
    BY <1>3, <1>4 DEF Lineage
  <2> QED
    BY <1>5, <2>1, RecordIs
<1>10. Reserved(r, served, fresh')
  <2>1. r.generation <= GenerationLimit
    BY <1>3, <1>8, <1>9, SeedBounds DEF Seed!Exhausted
  <2>2. ASSUME NEW i \in 1 .. Len(served) PROVE Ahead(r, served[i])
    <3>1. served[i] \in SeedRecord
      BY SeedParts, ElementOfSeq
    <3>2. served[i].generation \in Nat /\ served[i].seed[1] \in Nat
      BY <3>1 DEF SeedRecord, Lineage
    <3>3. served[i].seed[1] <= fresh
      BY SeedParts DEF AnswersSound
    <3>4. disk.state.generation \in Nat /\ disk.state.generation > served[i].generation
      BY SeedParts DEF Reserved, Unused, Ahead, SeedRecord
    <3>5. r.generation > served[i].generation
      BY <1>3, <1>9, <3>2, <3>4
    <3>6. r.seed[1] > served[i].seed[1]
      BY <1>4, <1>9, <3>2, <3>3, SeedParts
    <3> QED
      BY <3>5, <3>6 DEF Ahead
  <2>3. r.seed[1] <= fresh'
    BY <1>4, <1>9
  <2> QED
    BY <1>9, <2>1, <2>2, <2>3 DEF Reserved, Unused
<1>11. at \in {"revoke", "revokeClean"} /\ at \in Writing /\ at \in Holding
  BY <1>6 DEF Writing, Holding
<1>12. /\ q \in Program /\ q.at = at /\ q.task = "service" /\ q.production /\ q.record = r
  BY <1>7, <1>9, <1>11, NoRecord DEF Program
<1>13. ProgramSound(p, q, disk', durable', lock', served', fresh')
  BY <1>8, <1>9, <1>10, <1>11, <1>12 DEF ProgramSound
<1>14. /\ lock' \in Processes \cup {"nobody"} /\ troubles' \in Nat
       /\ disk'.made = disk.made /\ durable'.made = disk.made
  <2>1. /\ lock' = p /\ troubles' = troubles /\ disk' = disk /\ durable' = durable
    BY <1>8
  <2> QED
    BY <2>1, SeedParts
<1>15. /\ fresh' \in Nat /\ fresh <= fresh' /\ AnswersSound(served', fresh')
       /\ FilesSound(disk', served', fresh') /\ FilesSound(durable', served', fresh')
  BY <1>4, <1>8, MoreEntropyIs
<1>16. Seed!Production(disk') <=> Seed!Production(disk)
  BY <1>8
<1>17. \A x \in Processes : proc[x].task # "service"
  <2>1. ASSUME NEW x \in Processes PROVE proc[x].task # "service"
    <3>1. ProgramSound(x, proc[x], disk, durable, lock, served, fresh) /\ proc[x].at = "exited"
      BY <1>8, SeedParts
    <3> QED
      BY <3>1 DEF ProgramSound
  <2> QED
    BY <2>1
<1> QED
  BY <1>8, <1>12, <1>13, <1>14, <1>15, <1>16, <1>17, SeedFrame

\* A service revokes what is allowed, and removes what is in doubt.
LEMMA RevokeStep ==
    ASSUME SeedInv, NEW p \in Processes, Seed!Revoke(p) \/ Seed!Clean(p) PROVE SeedInv'
<1>1. proc[p].at \in {"revoke", "revokeClean", "clean"} /\ proc[p].at \in Writing
      /\ proc[p].at \in Holding
  BY DEF Seed!Revoke, Seed!Clean, Writing, Holding
<1>2. proc[p].task = "service" /\ disk.made
  <2>1. ProgramSound(p, proc[p], disk, durable, lock, served, fresh)
    BY SeedParts
  <2> QED
    BY <1>1, <2>1, WritingIs DEF ProgramSound
<1>3. ASSUME NEW e \in SeedFiles, e.made = disk.made, e.state = disk.state
      PROVE  SeedLeaves(p, e)
  BY <1>2, <1>3, SameState
<1>4. ASSUME NEW e, SeedLeaves(p, e), disk' = e, durable' = e, NEW step \in {"witness", "clean"},
             Seed!GoesTo(p, step)
      PROVE  SeedInv'
  <2>1. FilesSound(durable', served, fresh) /\ durable'.made = disk.made
        /\ SeedLeaves(p, disk')
    BY <1>4 DEF SeedLeaves
  <2>2. step \in Writing /\ step # "renameState" /\ step # "syncState"
    BY DEF Writing
  <2> QED
    BY <1>1, <1>2, <1>4, <2>1, <2>2, StageStep
<1>5. CASE Seed!Revoke(p)
  <2>1. PICK one : one = [disk EXCEPT !.trial = FALSE]
    OBVIOUS
  <2>2. PICK two : two = [one EXCEPT !.policy = "absent"]
    OBVIOUS
  <2>3. PICK done : done = [two EXCEPT !.policy = "autonomous"]
    OBVIOUS
  <2>4. PICK torn : torn = [two EXCEPT !.policy = "torn"]
    OBVIOUS
  <2>5. one \in SeedFiles /\ one.made = disk.made /\ one.state = disk.state
    BY <2>1, SeedParts DEF SeedFiles
  <2>6. two \in SeedFiles /\ two.made = disk.made /\ two.state = disk.state
    BY <2>2, <2>5 DEF SeedFiles
  <2>7. done \in SeedFiles /\ done.made = disk.made /\ done.state = disk.state
    BY <2>3, <2>6 DEF SeedFiles
  <2>8. torn \in SeedFiles /\ torn.made = disk.made /\ torn.state = disk.state
    BY <2>4, <2>6 DEF SeedFiles
  <2>9. /\ SeedLeaves(p, disk) /\ SeedLeaves(p, one) /\ SeedLeaves(p, two)
        /\ SeedLeaves(p, torn) /\ SeedLeaves(p, done)
    BY <1>2, <1>3, <2>5, <2>6, <2>7, <2>8, SameFiles
  <2>10. CASE /\ disk' = done /\ durable' = done
              /\ Seed!GoesTo(p, IF proc[p].at = "revoke" THEN "witness" ELSE "clean")
    <3>1. PICK step \in {"witness", "clean"} :
             step = IF proc[p].at = "revoke" THEN "witness" ELSE "clean"
      OBVIOUS
    <3> QED
      BY <1>4, <2>9, <2>10, <3>1
  <2>11. CASE Seed!FailsLeaving(p, {disk, one, two, torn, done})
    BY <1>1, <2>9, <2>11, FailureStep
  <2> QED
    BY <1>5, <2>1, <2>2, <2>3, <2>4, <2>10, <2>11 DEF Seed!Revoke
<1>6. CASE Seed!Clean(p)
  <2>1. PICK one : one = [disk EXCEPT !.attempt = FALSE]
    OBVIOUS
  <2>2. PICK two : two = [one EXCEPT !.pending = Seed!Absent]
    OBVIOUS
  <2>3. PICK done : done = [two EXCEPT !.witnessNext = Seed!Absent]
    OBVIOUS
  <2>4. one \in SeedFiles /\ one.made = disk.made /\ one.state = disk.state
    BY <2>1, SeedParts DEF SeedFiles
  <2>5. two \in SeedFiles /\ two.made = disk.made /\ two.state = disk.state
    BY <2>2, <2>4, NoRecord DEF SeedFiles
  <2>6. done \in SeedFiles /\ done.made = disk.made /\ done.state = disk.state
    BY <2>3, <2>5, NoRecord DEF SeedFiles
  <2>7. /\ SeedLeaves(p, disk) /\ SeedLeaves(p, one) /\ SeedLeaves(p, two)
        /\ SeedLeaves(p, done)
    BY <1>2, <1>3, <2>4, <2>5, <2>6, SameFiles
  <2>8. CASE disk' = done /\ durable' = done /\ Seed!GoesTo(p, "witness")
    BY <1>4, <2>7, <2>8
  <2>9. CASE Seed!FailsLeaving(p, {disk, one, two, done})
    BY <1>1, <2>7, <2>9, FailureStep
  <2> QED
    BY <1>6, <2>1, <2>2, <2>3, <2>8, <2>9 DEF Seed!Clean
<1> QED
  BY <1>5, <1>6

\* When no program runs, the files alone are to be sound.
LEMMA NobodyRuns ==
    ASSUME proc' \in [Processes -> Program],
           \A p \in Processes : proc'[p].at = "exited" /\ proc'[p].task = "none",
           lock' \in Processes \cup {"nobody"}, fresh' \in Nat, troubles' \in Nat,
           FilesSound(disk', served', fresh'), FilesSound(durable', served', fresh'),
           durable'.made = disk'.made, AnswersSound(served', fresh')
    PROVE  SeedInv'
<1>1. ASSUME NEW p \in Processes
      PROVE  ProgramSound(p, proc'[p], disk', durable', lock', served', fresh')
  <2>1. "exited" \notin Holding /\ "exited" \notin Writing
    BY DEF Holding, Writing
  <2> QED
    BY <2>1 DEF ProgramSound
<1>2. \A p, r \in Processes : proc'[p].task = "service" /\ r # p => proc'[r].at = "exited"
  OBVIOUS
<1> QED
  BY <1>1, <1>2 DEF SeedInv

\* A card is prepared before it is used: nothing was answered.
LEMMA PrepareStep ==
    ASSUME SeedInv, Seed!PrepareCard PROVE SeedInv'
<1>1. ~disk.made /\ fresh' = fresh + 1 /\ UNCHANGED <<lock, proc, served>> /\ durable' = disk'
  BY DEF Seed!PrepareCard
<1>2. disk = Seed!NoFiles
  BY <1>1, SeedParts DEF FilesSound
<1>3. disk.state = Seed!Absent
  BY <1>2 DEF Seed!NoFiles
<1>4. \A r : Unused(r, served)
  BY <1>3, NoRecord, NoStateNoAnswer
<1>5. troubles' \in Nat
  BY SeedParts DEF Seed!PrepareCard, Seed!Fault, Seed!NoFault
<1>6. PICK r \in SeedRecord : /\ r = Seed!Record(1, 1, 0, <<fresh + 1, 0>>) /\ r.schema = 1
                              /\ r.generation = 1 /\ r.seed = <<fresh + 1, 0>>
  <2>1. <<fresh + 1, 0>> \in Lineage
    BY SeedParts DEF Lineage
  <2> QED
    BY <2>1, RecordIs
<1>7. PICK made : made = [disk EXCEPT !.made = TRUE]
  OBVIOUS
<1>8. made \in SeedFiles /\ made.made = TRUE /\ made.state = Seed!Absent
  BY <1>3, <1>7, SeedParts DEF SeedFiles
<1>9. PICK torn : torn = [made EXCEPT !.pending = Seed!Torn]
  OBVIOUS
<1>10. PICK staged : staged = [made EXCEPT !.pending = r]
  OBVIOUS
<1>11. PICK prepared : prepared = [made EXCEPT !.state = r]
  OBVIOUS
<1>12. /\ torn \in SeedFiles /\ torn.made = TRUE /\ torn.state = Seed!Absent
       /\ staged \in SeedFiles /\ staged.made = TRUE /\ staged.state = Seed!Absent
       /\ prepared \in SeedFiles /\ prepared.made = TRUE /\ prepared.state = r
  BY <1>8, <1>9, <1>10, <1>11, NoRecord DEF SeedFiles
<1>13. disk' \in {made, torn, staged, prepared}
  BY <1>6, <1>7, <1>9, <1>10, <1>11 DEF Seed!PrepareCard
<1>14. disk' \in SeedFiles /\ disk'.made = TRUE /\ disk'.state \in {Seed!Absent, r}
  BY <1>8, <1>12, <1>13
<1>15. Reserved(disk'.state, served, fresh') /\ disk'.state.schema # -1
  <2>1. Seed!Absent.seed[1] = 0
    BY DEF Seed!Absent, Seed!Record
  <2>2. fresh \in Nat /\ r.seed[1] = fresh + 1
    BY <1>6, SeedParts
  <2>3. disk'.state \in SeedRecord /\ disk'.state.generation <= GenerationLimit
        /\ disk'.state.schema # -1
    BY <1>6, <1>14, NoRecord, SeedBounds
  <2>4. disk'.state.seed[1] <= fresh'
    BY <1>1, <1>14, <2>1, <2>2
  <2> QED
    BY <1>4, <2>3, <2>4 DEF Reserved
<1>16. FilesSound(disk', served', fresh')
  BY <1>1, <1>14, <1>15 DEF FilesSound
<1>17. \A p \in Processes : proc[p].at = "exited" /\ proc[p].task = "none"
  <2>1. ASSUME NEW p \in Processes PROVE proc[p].at = "exited" /\ proc[p].task = "none"
    <3>1. ProgramSound(p, proc[p], disk, durable, lock, served, fresh)
      BY SeedParts
    <3> QED
      BY <1>1, <3>1 DEF ProgramSound
  <2> QED
    BY <2>1
<1>18. fresh' \in Nat /\ AnswersSound(served', fresh')
  BY <1>1, MoreEntropyIs
<1> QED
  BY <1>1, <1>5, <1>16, <1>17, <1>18, SeedParts, NobodyRuns

\* A loss of power leaves what a process saw, or what was synced: both are sound.
LEMMA PowerLossStep ==
    ASSUME SeedInv, Seed!PowerLoss PROVE SeedInv'
<1>1. /\ disk' \in {disk, durable} /\ durable' = disk'
      /\ proc' = [p \in Processes |-> Seed!Exited] /\ lock' = "nobody"
      /\ UNCHANGED <<served, fresh>> /\ troubles' = troubles + 1
  BY DEF Seed!PowerLoss, Seed!Fault, Seed!Nobody
<1>2. /\ proc' \in [Processes -> Program]
      /\ \A p \in Processes : proc'[p].at = "exited" /\ proc'[p].task = "none"
  BY <1>1, NoRecord
<1>3. /\ FilesSound(disk', served', fresh') /\ FilesSound(durable', served', fresh')
      /\ AnswersSound(served', fresh') /\ fresh' \in Nat /\ troubles' \in Nat
  BY <1>1, SeedParts
<1> QED
  BY <1>1, <1>2, <1>3, NobodyRuns

\* A new card, a trial, or a card of the release before.
LEMMA SeedInit == ASSUME Seed!Init PROVE SeedInv
<1>1. /\ disk \in {Seed!NoFiles, Seed!Trial, Seed!Older(FALSE), Seed!Older(TRUE)}
      /\ durable = disk /\ lock = "nobody" /\ proc = [p \in Processes |-> Seed!Exited]
      /\ served = <<>> /\ fresh = 0 /\ troubles = 0
  BY DEF Seed!Init, Seed!Nobody
<1>2. /\ proc \in [Processes -> Program]
      /\ \A p \in Processes : proc[p].at = "exited" /\ proc[p].task = "none"
  BY <1>1, NoRecord
<1>3. <<0, 0>> \in Lineage
  BY DEF Lineage
<1>4. PICK trial \in SeedRecord : /\ trial = Seed!Record(1, 1, 0, <<0, 0>>) /\ trial.schema = 1
                                  /\ trial.generation = 1 /\ trial.seed = <<0, 0>>
  BY <1>3, RecordIs
<1>5. PICK older \in SeedRecord : /\ older = Seed!Record(2, 1, 1, <<0, 0>>) /\ older.schema = 2
                                  /\ older.generation = 1 /\ older.seed = <<0, 0>>
  BY <1>3, RecordIs
<1>6. PICK none : none = Seed!NoFiles
  OBVIOUS
<1>7. none \in SeedFiles /\ none.state = Seed!Absent
  BY <1>6, NoRecord DEF Seed!NoFiles, SeedFiles
<1>8. Seed!Trial \in SeedFiles /\ Seed!Trial.state = trial /\ Seed!Trial.made
  <2>1. Seed!Trial = [[[none EXCEPT !.made = TRUE] EXCEPT !.trial = TRUE] EXCEPT !.state = trial]
    BY <1>4, <1>6 DEF Seed!Trial
  <2> QED
    BY <1>7, <2>1 DEF SeedFiles
<1>9. ASSUME NEW attempt \in BOOLEAN
      PROVE  /\ Seed!Older(attempt) \in SeedFiles /\ Seed!Older(attempt).state = older
             /\ Seed!Older(attempt).made
  <2>1. Seed!Older(attempt) = [[[[none EXCEPT !.made = TRUE] EXCEPT !.policy = "v1"]
                                  EXCEPT !.attempt = attempt] EXCEPT !.state = older]
    BY <1>5, <1>6 DEF Seed!Older
  <2> QED
    BY <1>7, <2>1 DEF SeedFiles
<1>10. /\ disk \in SeedFiles /\ disk.state \in {Seed!Absent, trial, older}
       /\ disk.made \/ disk = Seed!NoFiles
  BY <1>1, <1>6, <1>7, <1>8, <1>9
<1>11. Reserved(disk.state, <<>>, 0) /\ disk.state.schema # -1
  <2>1. Seed!Absent.seed[1] = 0
    BY DEF Seed!Absent, Seed!Record
  <2>2. Unused(disk.state, <<>>)
    BY DEF Unused
  <2>3. disk.state.seed[1] <= 0
    BY <1>4, <1>5, <1>10, <2>1
  <2>4. disk.state \in SeedRecord /\ disk.state.generation <= GenerationLimit
        /\ disk.state.schema # -1
    BY <1>4, <1>5, <1>10, NoRecord, SeedBounds
  <2> QED
    BY <2>2, <2>3, <2>4 DEF Reserved
<1>12. FilesSound(disk, served, fresh)
  BY <1>1, <1>10, <1>11 DEF FilesSound
<1>13. AnswersSound(served, fresh)
  BY <1>1, EmptySeq DEF AnswersSound
<1>14. ASSUME NEW p \in Processes
       PROVE  ProgramSound(p, proc[p], disk, durable, lock, served, fresh)
  BY <1>1, ExitedSound
<1> QED
  BY <1>1, <1>2, <1>12, <1>13, <1>14 DEF SeedInv

\* Each step of the programs, and each crash, keeps the invariant.
LEMMA SeedStep == ASSUME SeedInv, Seed!Next \/ UNCHANGED seedVars PROVE SeedInv'
<1>1. CASE UNCHANGED seedVars
  BY <1>1 DEF seedVars, SeedInv
<1>2. ASSUME NEW p \in Processes, Seed!Step(p) PROVE SeedInv'
  <2>1. CASE Seed!WriteWitness(p) \/ Seed!WritePending(p)
    BY <2>1, WriteStep DEF Seed!WriteWitness, Seed!WritePending
  <2>2. CASE Seed!RenameWitness(p) \/ Seed!SyncWitness(p) \/ Seed!RenameState(p) \/ Seed!Commit(p)
    BY <2>2, RenameWitnessStep, SyncWitnessStep, RenameStateStep, CommitStep
  <2>3. CASE Seed!BeginServe(p) \/ Seed!Lock(p) \/ Seed!Rotate(p) \/ Seed!Stop(p)
    BY <2>3, BeginServeStep, BrokerStep
  <2>4. CASE Seed!Provision(p) \/ Seed!LockProvision(p) \/ Seed!Revoke(p) \/ Seed!Clean(p)
    BY <2>4, ProvisionStep, LockProvisionStep, RevokeStep
  <2>5. CASE \E recover \in BOOLEAN : Seed!Service(p, recover)
    BY <2>5, ServiceStep
  <2> QED
    BY <1>2, <2>1, <2>2, <2>3, <2>4, <2>5 DEF Seed!Step
<1>3. ASSUME NEW p \in Processes, Seed!Dies(p) PROVE SeedInv'
  <2>1. Seed!Exit(p) /\ UNCHANGED <<disk, durable, served, fresh>> /\ troubles' = troubles + 1
    BY <1>3 DEF Seed!Dies, Seed!Fault
  <2> QED
    BY <2>1, SeedParts, QuitStep
<1> QED
  BY <1>1, <1>2, <1>3, PrepareStep, PowerLossStep DEF Seed!Next

\* Outside a transaction, what shows that the last one is in doubt is touched by nothing but
\* a fault: a broker of production does not start, and there is no other of them.
LEMMA UncertainStays ==
    ASSUME SeedInv, Seed!Next \/ UNCHANGED seedVars, disk.state.schema = 3,
           Seed!Uncertain(disk), disk' # disk, lock = "nobody"
    PROVE  troubles' # troubles
<1>1. Seed!Production(disk) /\ disk.made /\ troubles \in Nat
  <2>1. disk # Seed!NoFiles
    BY NoRecord DEF Seed!NoFiles
  <2> QED
    BY <2>1, SeedParts DEF Seed!Production, FilesSound
<1>2. ASSUME NEW p \in Processes, Seed!Step(p) PROVE FALSE
  <2>1. proc[p].at \notin Holding
    BY SeedParts, SeedBounds
  <2>2. ProgramSound(p, proc[p], disk, durable, lock, served, fresh)
    BY SeedParts
  <2>3. proc[p].at # "provision"
    BY <1>1, <2>2 DEF ProgramSound
  <2>4. Seed!Lock(p)
    <3>1. ~(Seed!WriteWitness(p) \/ Seed!RenameWitness(p) \/ Seed!SyncWitness(p)
             \/ Seed!WritePending(p) \/ Seed!RenameState(p) \/ Seed!Commit(p)
             \/ Seed!Rotate(p) \/ Seed!Stop(p) \/ Seed!Revoke(p) \/ Seed!Clean(p))
      BY <2>1 DEF Seed!WriteWitness, Seed!RenameWitness, Seed!SyncWitness, Seed!WritePending,
         Seed!RenameState, Seed!Commit, Seed!Rotate, Seed!Stop, Seed!Revoke, Seed!Clean,
         Holding, Writing
    <3>2. ~(Seed!BeginServe(p) \/ Seed!Provision(p) \/ Seed!LockProvision(p))
      BY <2>3 DEF Seed!BeginServe, Seed!Provision, Seed!LockProvision
    <3>3. ~ \E recover \in BOOLEAN : Seed!Service(p, recover)
      BY DEF Seed!Service
    <3> QED
      BY <1>2, <3>1, <3>2, <3>3 DEF Seed!Step
  <2>5. Seed!Start(p) /\ proc[p].at = "lock"
    BY <2>4 DEF Seed!Lock
  <2>6. proc[p].production
    BY <1>1, <2>2, <2>5 DEF ProgramSound
  <2>7. ~Seed!Startable(disk)
    BY DEF Seed!Startable
  <2>8. disk' = disk
    BY <2>5, <2>6, <2>7 DEF Seed!Start
  <2> QED
    BY <2>8
<1>3. ASSUME NEW p \in Processes, Seed!Dies(p) PROVE troubles' # troubles
  <2>1. troubles' = troubles + 1
    BY <1>3 DEF Seed!Dies, Seed!Fault
  <2> QED
    BY <1>1, <2>1
<1>4. ~Seed!PrepareCard
  BY <1>1 DEF Seed!PrepareCard
<1>5. ASSUME Seed!PowerLoss PROVE troubles' # troubles
  <2>1. troubles' = troubles + 1
    BY <1>5 DEF Seed!PowerLoss, Seed!Fault
  <2> QED
    BY <1>1, <2>1
<1>6. ~ UNCHANGED seedVars
  BY DEF seedVars
<1> QED
  BY <1>2, <1>3, <1>4, <1>5, <1>6 DEF Seed!Next

\* What the runs check follows from the invariant.
LEMMA SeedIsSound ==
    ASSUME SeedInv
    PROVE  Seed!TypeOK /\ Seed!SeedServedOnce /\ Seed!PowerLossNeedsNoService
<1>1. Seed!TypeOK
  <2>1. ASSUME NEW p \in Processes, proc[p].at \in {"ready", "witness", "pending",
            "renameWitness", "syncWitness", "renameState", "syncState"}
        PROVE  lock = p
    BY <2>1, SeedParts DEF Holding, Writing
  <2>2. \A name \in {"state", "witness", "witnessNext", "pending"} : disk[name].schema \in -1 .. 3
    BY SeedParts DEF SeedFiles, SeedRecord
  <2>3. disk.state.generation <= GenerationLimit
    BY SeedParts DEF Reserved
  <2> QED
    BY <2>1, <2>2, <2>3, SeedParts DEF Seed!TypeOK, Seed!Nobody
<1>2. Seed!SeedServedOnce
  <2> SUFFICES ASSUME NEW i \in 1 .. Len(served), NEW j \in 1 .. Len(served), i < j
               PROVE  /\ served[i].seed # served[j].seed
                      /\ served[i].generation < served[j].generation
    BY DEF Seed!SeedServedOnce
  <2>1. served[i] \in SeedRecord /\ served[j] \in SeedRecord
    BY SeedParts, ElementOfSeq
  <2>2. /\ served[i].generation \in Nat /\ served[j].generation \in Nat
        /\ served[i].seed[1] \in Nat /\ served[j].seed[1] \in Nat
        /\ served[i].seed[2] \in Nat /\ served[j].seed[2] \in Nat
    BY <2>1 DEF SeedRecord, Lineage
  <2>3. Ahead(served[j], served[i])
    BY SeedParts DEF AnswersSound
  <2>4. served[i].generation < served[j].generation
    BY <2>2, <2>3 DEF Ahead
  <2>5. served[i].seed[1] # served[j].seed[1] \/ served[i].seed[2] # served[j].seed[2]
    BY <2>2, <2>3 DEF Ahead
  <2> QED
    BY <2>4, <2>5
<1>3. Seed!PowerLossNeedsNoService
  <2> SUFFICES ASSUME NEW p \in Processes, proc[p].at = "ready", proc[p].production
               PROVE  Seed!Startable(disk) /\ Seed!Startable(durable)
    BY DEF Seed!PowerLossNeedsNoService
  <2>1. ProgramSound(p, proc[p], disk, durable, lock, served, fresh)
    BY SeedParts
  <2>2. Transacted(proc[p], disk) /\ durable = disk
    BY <2>1 DEF ProgramSound, Holding
  <2>3. Seed!Startable(disk)
    BY <2>2 DEF Transacted, Seed!Startable, Seed!Readable, Seed!PolicyAllows, Seed!Uncertain,
       Seed!Production
  <2> QED
    BY <2>2, <2>3
<1> QED
  BY <1>1, <1>2, <1>3

-----------------------------------------------------------------------------
(* The panel (Panel).                                                        *)

TxStates == {"idle", "unchanged", "applying", "succeeded", "uncertain"} \cup Lcd!Failures
PanelTx == [state : TxStates, candidate : Nat, accepted : Int, result : Int]
PanelApp ==
    [selected : Nat, revision : 0 .. MaxRevision, edits : 1 .. MaxEdits,
     network : {"idle", "trying"}, prompt : 0 .. 2, available : BOOLEAN, code : BOOLEAN,
     tx : PanelTx]
Views == Lcd!TokenViews \cup {"home", "menu", "page", "system", "stopping", "stopFailed"}
Display ==
    [phase : {"idle", "key"}, view : Views, token : Int, draft : Nat, original : Nat,
     conflict : BOOLEAN, pending : BOOLEAN, webToken : Int, remote : BOOLEAN,
     ready : BOOLEAN, back : Views, works : {"both", "noKeys", "noDisplay"}]

\* A receipt is of a revision that was, and one of the revision of now is of the change
\* that was made last.
ReceiptSound(a) ==
    /\ a.tx.result <= a.revision
    /\ a.tx.state \in {"idle", "unchanged"} => a.tx.result = 0 - 1
    /\ a.tx.state = "succeeded" /\ a.tx.result = a.revision => a.selected = a.tx.candidate

\* A token that passes the check stands for m.
TokensSound(a, p, m) ==
    /\ ReceiptSound(a)
    /\ p.token <= a.revision /\ p.webToken <= a.revision
    /\ a.revision = p.token => a.selected = m

\* While the page's own change is under way, or has failed, and nothing else has changed,
\* its token may be renewed: it stands for what is selected.
OwnSound(a, p, m) ==
    (/\ p.pending /\ p.view \in Lcd!WebViews /\ p.webToken = a.tx.accepted
     /\ a.tx.state \in {"applying", "failed"} /\ a.tx.result = a.revision) => a.selected = m

\* The browser's prompt is on the panel as long as it is asked there; when it may be
\* answered, it is on the display, and was when any key that waits was pressed.
PromptSound(p, rest, drawn) ==
    /\ p.remote => p.view = "recover"
    /\ p.remote /\ p.ready => drawn /\ \A i \in 1 .. Len(rest) : rest[i]

\* An application a and a panel p whose token stands for m.
PanelSound(a, p, m) ==
    a \in PanelApp /\ p \in Display /\ m \in Nat /\ TokensSound(a, p, m) /\ OwnSound(a, p, m)

\* The panel with the keys that wait, and with what is on its display.
Watched ==
    /\ PanelSound(app, panel, meant)
    /\ keys \in Seq(BOOLEAN) /\ Len(keys) <= KeysMax /\ shown \in BOOLEAN
    /\ PromptSound(panel, keys, shown)

PanelInv == Watched /\ ~blind

\* The application a, some changes after b: nothing else is selected, and the receipt is
\* the same, none, or that of a change that was accepted since.
Later(a, b) ==
    /\ a.selected = b.selected /\ a.revision >= b.revision
    /\ \/ a.tx = b.tx
       \/ a.tx.result = 0 - 1 /\ a.tx.state # "succeeded"
       \/ /\ a.tx.state = "applying" /\ a.tx.accepted = a.revision
          /\ a.tx.result = a.revision /\ a.revision > b.revision

\* A receipt of before is not taken for one of now.
LEMMA LaterSound ==
    ASSUME NEW a \in PanelApp, NEW b \in PanelApp, NEW p \in Display, NEW m \in Nat,
           TokensSound(b, p, m), OwnSound(b, p, m), Later(a, b)
    PROVE  TokensSound(a, p, m) /\ OwnSound(a, p, m)
<1>1. /\ a.revision \in Int /\ b.revision \in Int /\ p.token \in Int /\ p.webToken \in Int
      /\ a.tx.result \in Int /\ a.tx.accepted \in Int /\ b.tx.result \in Int
      /\ a.revision >= 0
  BY DEF PanelApp, PanelTx, Display
<1>2. CASE a.tx = b.tx
  BY <1>1, <1>2 DEF Later, TokensSound, ReceiptSound, OwnSound
<1>3. CASE a.tx.result = 0 - 1 /\ a.tx.state # "succeeded"
  BY <1>1, <1>3 DEF Later, TokensSound, ReceiptSound, OwnSound
<1>4. CASE /\ a.tx.state = "applying" /\ a.tx.accepted = a.revision
           /\ a.tx.result = a.revision /\ a.revision > b.revision
  BY <1>1, <1>4 DEF Later, TokensSound, ReceiptSound, OwnSound
<1> QED
  BY <1>2, <1>3, <1>4 DEF Later

\* What is forgotten of the application is read no more.
LEMMA KeptAppIs ==
    ASSUME NEW a \in PanelApp, NEW p \in Display
    PROVE  LET b == Lcd!KeptApp(a, p)
           IN  /\ b \in PanelApp /\ b.revision = a.revision /\ b.selected = a.selected
               /\ b.tx = a.tx \/ (~p.pending /\ b.tx.result = 0 - 1)
<1> DEFINE b == Lcd!KeptApp(a, p)
<1>1. CASE p.pending
  BY <1>1 DEF Lcd!KeptApp
<1>2. CASE ~p.pending /\ (Lcd!Busy(a.tx) \/ Lcd!Reads(p))
  <2>1. b = [a EXCEPT !.tx.accepted = Lcd!NoToken, !.tx.result = Lcd!NoToken]
    BY <1>2 DEF Lcd!KeptApp
  <2>2. PICK t : t = [a.tx EXCEPT !.accepted = Lcd!NoToken, !.result = Lcd!NoToken]
    OBVIOUS
  <2>3. t \in PanelTx /\ t.result = 0 - 1
    <3>1. Lcd!NoToken \in Int /\ Lcd!NoToken = 0 - 1
      BY DEF Lcd!NoToken
    <3>2. a.tx \in PanelTx
      BY DEF PanelApp
    <3> QED
      BY <2>2, <3>1, <3>2 DEF PanelTx
  <2>4. b = [a EXCEPT !.tx = t]
    BY <2>1, <2>2 DEF PanelApp, PanelTx
  <2> QED
    BY <1>2, <2>3, <2>4 DEF PanelApp
<1>3. CASE ~p.pending /\ ~(Lcd!Busy(a.tx) \/ Lcd!Reads(p))
  <2>1. b = [a EXCEPT !.tx = Lcd!NoTransaction]
    BY <1>3 DEF Lcd!KeptApp
  <2>2. Lcd!NoTransaction \in PanelTx /\ Lcd!NoTransaction.result = 0 - 1
    BY DEF PanelTx, TxStates, Lcd!NoTransaction, Lcd!NoToken
  <2> QED
    BY <1>3, <2>1, <2>2 DEF PanelApp
<1> QED
  BY <1>1, <1>2, <1>3

\* Where a key leads is a view.
LEMMA ViewsAre ==
    /\ Lcd!TokenViews \subseteq Views
    /\ {"home", "menu", "page", "system", "stopping", "stopFailed"} \subseteq Views
    /\ \A n \in Lcd!Navigation : n[2] \in Views
    /\ \A n \in Lcd!Navigation : n[1] # "recover"
    /\ \A n \in Lcd!Navigation :
          n[2] \in Lcd!WebViews => n[1] \in Lcd!WebViews \/ Lcd!Renews(n[1], n[2])
  BY DEF Views, Lcd!Navigation, Lcd!TokenViews, Lcd!WebViews, Lcd!DraftViews, Lcd!Renews

\* What is forgotten of the panel is read no more.
LEMMA KeptPanelIs ==
    ASSUME NEW p \in Display
    PROVE  LET q == Lcd!KeptPanel(p)
           IN  /\ q \in Display /\ q.view = p.view /\ q.pending = p.pending
               /\ q.phase = p.phase /\ q.remote = p.remote
               /\ q.ready = (p.ready /\ p.remote)
               /\ q.token = IF p.view \in Lcd!TokenViews THEN p.token ELSE 0 - 1
               /\ q.webToken = IF p.pending THEN p.webToken ELSE 0 - 1
<1>1. PICK d : d = IF p.view \in Lcd!DraftViews THEN p.draft ELSE 0
  OBVIOUS
<1>2. PICK o : o = IF p.view = "editField" THEN p.original ELSE 0
  OBVIOUS
<1>3. PICK c : c = (p.conflict /\ Lcd!Reads(p))
  OBVIOUS
<1>4. PICK t : t = IF p.view \in Lcd!TokenViews THEN p.token ELSE Lcd!NoToken
  OBVIOUS
<1>5. PICK w : w = IF p.pending THEN p.webToken ELSE Lcd!NoToken
  OBVIOUS
<1>6. PICK r : r = (p.ready /\ p.remote)
  OBVIOUS
<1>7. PICK k : k = IF p.remote THEN p.back ELSE "home"
  OBVIOUS
<1>8. Lcd!KeptPanel(p) = [p EXCEPT !.draft = d, !.original = o, !.conflict = c, !.token = t,
                                   !.webToken = w, !.ready = r, !.back = k]
  BY <1>1, <1>2, <1>3, <1>4, <1>5, <1>6, <1>7 DEF Lcd!KeptPanel, Display
<1>9. /\ d \in Nat /\ o \in Nat /\ t \in Int /\ w \in Int /\ k \in Views
      /\ c \in BOOLEAN /\ r \in BOOLEAN
  <2>1. Lcd!NoToken \in Int
    BY DEF Lcd!NoToken
  <2>2. d \in Nat /\ o \in Nat /\ t \in Int /\ w \in Int
    BY <1>1, <1>2, <1>4, <1>5, <2>1 DEF Display
  <2>3. k \in Views
    BY <1>7, ViewsAre DEF Display
  <2>4. c \in BOOLEAN /\ r \in BOOLEAN
    BY <1>3, <1>6
  <2> QED
    BY <2>2, <2>3, <2>4
<1>10. t = (IF p.view \in Lcd!TokenViews THEN p.token ELSE 0 - 1)
       /\ w = (IF p.pending THEN p.webToken ELSE 0 - 1)
  BY <1>4, <1>5 DEF Lcd!NoToken
<1> QED
  BY <1>6, <1>8, <1>9, <1>10 DEF Display

\* What a step leaves is as sound as what it forgets from.
LEMMA PanelBecomes ==
    ASSUME NEW a, NEW p, NEW m, PanelSound(a, p, m), Lcd!Becomes(a, p, m)
    PROVE  /\ PanelSound(app', panel', meant')
           /\ panel'.view = p.view /\ panel'.remote = p.remote
           /\ panel'.ready = (p.ready /\ p.remote)
<1>1. a \in PanelApp /\ p \in Display /\ m \in Nat
  BY DEF PanelSound
<1>2. PICK b : b = Lcd!KeptApp(a, p)
  OBVIOUS
<1>3. PICK q : q = Lcd!KeptPanel(p)
  OBVIOUS
<1>4. PICK n : n = IF p.view \in Lcd!TokenViews THEN m ELSE 0
  OBVIOUS
<1>5. app' = b /\ panel' = q /\ meant' = n
  BY <1>2, <1>3, <1>4 DEF Lcd!Becomes
<1>6. /\ b \in PanelApp /\ b.revision = a.revision /\ b.selected = a.selected
      /\ b.tx = a.tx \/ (~p.pending /\ b.tx.result = 0 - 1)
  BY <1>1, <1>2, KeptAppIs
<1>7. /\ q \in Display /\ q.view = p.view /\ q.pending = p.pending
      /\ q.remote = p.remote /\ q.ready = (p.ready /\ p.remote)
      /\ q.token = IF p.view \in Lcd!TokenViews THEN p.token ELSE 0 - 1
      /\ q.webToken = IF p.pending THEN p.webToken ELSE 0 - 1
  BY <1>1, <1>3, KeptPanelIs
<1>8. /\ a.revision \in Nat /\ p.token \in Int /\ p.webToken \in Int /\ a.tx.result \in Int
  BY <1>1 DEF PanelApp, PanelTx, Display
<1>9. n \in Nat
  BY <1>1, <1>4
<1>10. TokensSound(b, q, n)
  <2>1. TokensSound(a, p, m)
    BY DEF PanelSound
  <2>2. q.token <= b.revision /\ (b.revision = q.token => b.selected = n)
    BY <1>4, <1>6, <1>7, <1>8, <2>1 DEF TokensSound, ReceiptSound
  <2>3. q.webToken <= b.revision
    BY <1>6, <1>7, <1>8, <2>1 DEF TokensSound, ReceiptSound
  <2>4. ReceiptSound(b)
    BY <1>6, <1>8, <2>1 DEF TokensSound, ReceiptSound
  <2> QED
    BY <2>2, <2>3, <2>4 DEF TokensSound, ReceiptSound
<1>11. OwnSound(b, q, n)
  <2>1. SUFFICES ASSUME q.pending, q.view \in Lcd!WebViews, q.webToken = b.tx.accepted,
                        b.tx.state \in {"applying", "failed"}, b.tx.result = b.revision
                 PROVE  b.selected = n
    BY DEF OwnSound
  <2>2. b.tx = a.tx /\ q.webToken = p.webToken /\ p.view \in Lcd!TokenViews
    BY <2>1, <1>6, <1>7 DEF Lcd!TokenViews
  <2> QED
    BY <2>1, <2>2, <1>4, <1>6, <1>7 DEF OwnSound, PanelSound
<1> QED
  BY <1>5, <1>6, <1>7, <1>9, <1>10, <1>11 DEF PanelSound

\* The keys that remain were pressed when all were.
LEMMA TailSound ==
    ASSUME NEW rest \in Seq(BOOLEAN), rest # <<>>
    PROVE  /\ Tail(rest) \in Seq(BOOLEAN) /\ Len(Tail(rest)) = Len(rest) - 1
           /\ \A i \in 1 .. Len(Tail(rest)) : Tail(rest)[i] = rest[i + 1]
  BY HeadTailProperties, LenProperties

\* With no key that waits, a display that shows the prompt may be answered.
LEMMA DrawnSound ==
    ASSUME NEW p, NEW a, NEW m, PanelSound(a, p, m), shown \in BOOLEAN,
           NEW rest \in Seq(BOOLEAN), Len(rest) <= KeysMax, PromptSound(p, rest, shown),
           NEW drawn \in BOOLEAN, NEW drained \in BOOLEAN, Lcd!Drawn(p, a, m, rest, drawn, drained)
    PROVE  Watched'
<1>1. PICK first : first = (drawn /\ p.remote /\ ~p.ready)
  OBVIOUS
<1>2. PICK b : b = IF first /\ ~drained THEN [a EXCEPT !.prompt = 0] ELSE a
  OBVIOUS
<1>3. PICK r : r = (p.ready \/ (first /\ drained))
  OBVIOUS
<1>4. PICK q : q = [p EXCEPT !.phase = "idle", !.ready = r]
  OBVIOUS
<1>5. /\ Lcd!Becomes(b, q, m) /\ shown' = (IF drawn THEN p.remote ELSE shown)
      /\ keys' = IF first THEN <<>> ELSE rest
  <2>1. q = [p EXCEPT !.phase = "idle", !.ready = @ \/ (first /\ drained)]
    BY <1>3, <1>4 DEF PanelSound, Display
  <2> QED
    BY <1>1, <1>2, <2>1 DEF Lcd!Drawn
<1>6. p \in Display /\ a \in PanelApp
  BY DEF PanelSound
<1>7. r \in BOOLEAN
  BY <1>3
<1>8. /\ q \in Display /\ q.view = p.view /\ q.remote = p.remote /\ q.ready = r
      /\ q.pending = p.pending /\ q.token = p.token /\ q.webToken = p.webToken
  BY <1>4, <1>6, <1>7 DEF Display
<1>9. b \in PanelApp /\ b.revision = a.revision /\ b.selected = a.selected /\ b.tx = a.tx
  BY <1>2, <1>6 DEF PanelApp
<1>10. PanelSound(b, q, m)
  BY <1>8, <1>9 DEF PanelSound, TokensSound, ReceiptSound, OwnSound
<1>11. /\ PanelSound(app', panel', meant') /\ panel'.view = p.view /\ panel'.remote = p.remote
       /\ panel'.ready = (r /\ p.remote)
  BY <1>5, <1>8, <1>10, PanelBecomes
<1>12. keys' \in Seq(BOOLEAN) /\ Len(keys') <= KeysMax
  <2>1. CASE first
    <3>1. keys' = <<>>
      BY <1>5, <2>1
    <3>2. <<>> \in Seq(BOOLEAN) /\ Len(<<>>) = 0 /\ KeysMax \in Nat
      BY ServicesAssumption DEF ServicesAssumption
    <3> QED
      BY <3>1, <3>2
  <2>2. CASE ~first
    BY <1>5, <2>2
  <2> QED
    BY <2>1, <2>2
<1>13. shown' \in BOOLEAN
  <2>1. p.remote \in BOOLEAN
    BY <1>6 DEF Display
  <2> QED
    BY <1>5, <2>1
<1>14. PromptSound(panel', keys', shown')
  <2>1. panel'.remote => panel'.view = "recover"
    BY <1>11 DEF PromptSound
  <2>2. ASSUME panel'.remote, panel'.ready
        PROVE  shown' /\ \A i \in 1 .. Len(keys') : keys'[i]
    <3>1. p.remote /\ r
      BY <2>2, <1>11
    <3>2. CASE first
      <4>1. keys' = <<>> /\ shown'
        BY <1>1, <1>5, <3>1, <3>2
      <4> QED
        BY <4>1
    <3>3. CASE ~first
      <4>1. p.ready
        BY <1>3, <3>1, <3>3
      <4>2. shown /\ \A i \in 1 .. Len(rest) : rest[i]
        BY <3>1, <4>1 DEF PromptSound
      <4>3. keys' = rest /\ shown'
        BY <1>5, <3>1, <3>3, <4>2
      <4> QED
        BY <4>2, <4>3
    <3> QED
      BY <3>2, <3>3
  <2> QED
    BY <2>1, <2>2 DEF PromptSound
<1> QED
  BY <1>11, <1>12, <1>13, <1>14 DEF Watched

\* The display is drawn, or it fails.
LEMMA DrawsSound ==
    ASSUME NEW p, NEW a, NEW m, PanelSound(a, p, m), shown \in BOOLEAN,
           NEW rest \in Seq(BOOLEAN), Len(rest) <= KeysMax, PromptSound(p, rest, shown),
           Lcd!Draws(p, a, m, rest)
    PROVE  Watched'
<1>1. PICK w : w = IF p.works = "both" THEN "noDisplay" ELSE p.works
  OBVIOUS
<1>2. PICK q : q = [p EXCEPT !.works = w]
  OBVIOUS
<1>3. p \in Display
  BY DEF PanelSound
<1>4. q = [p EXCEPT !.works = IF @ = "both" THEN "noDisplay" ELSE @]
  BY <1>1, <1>2, <1>3 DEF Display
<1>5. CASE \E drained \in Lcd!Drains : Lcd!Drawn(p, a, m, rest, TRUE, drained)
  <2>1. PICK drained \in Lcd!Drains : Lcd!Drawn(p, a, m, rest, TRUE, drained)
    BY <1>5
  <2>2. drained \in BOOLEAN
    BY DEF Lcd!Drains
  <2> QED
    BY <2>1, <2>2, DrawnSound
<1>6. CASE Lcd!Drawn(q, a, m, rest, FALSE, FALSE)
  <2>1. w \in {"both", "noKeys", "noDisplay"}
    BY <1>1, <1>3 DEF Display
  <2>2. /\ q \in Display /\ q.view = p.view /\ q.remote = p.remote /\ q.ready = p.ready
        /\ q.pending = p.pending /\ q.token = p.token /\ q.webToken = p.webToken
    BY <1>2, <1>3, <2>1 DEF Display
  <2>3. PanelSound(a, q, m)
    BY <2>2 DEF PanelSound, TokensSound, ReceiptSound, OwnSound
  <2>4. PromptSound(q, rest, shown)
    BY <2>2 DEF PromptSound
  <2> QED
    BY <1>6, <2>3, <2>4, DrawnSound
<1> QED
  BY <1>4, <1>5, <1>6 DEF Lcd!Draws

\* A key that is read leaves what is sound, when its tokens are, or are renewed.
LEMMA ActsSound ==
    ASSUME Watched, NEW a \in PanelApp, NEW p \in Display, NEW loads \in BOOLEAN,
           Lcd!Acts(p, a, loads),
           ReceiptSound(a), p.webToken <= a.revision,
           \/ loads \/ Lcd!Renews(panel.view, p.view)
           \/ TokensSound(a, p, meant) /\ OwnSound(a, p, meant),
           p.remote => panel.remote /\ p.view = "recover",
           p.ready = panel.ready
    PROVE  Watched'
<1>1. PICK renewed : renewed = (loads \/ Lcd!Renews(panel.view, p.view))
  OBVIOUS
<1>2. PICK q : q = IF renewed THEN [p EXCEPT !.token = a.revision] ELSE p
  OBVIOUS
<1>3. PICK m : m = IF renewed THEN a.selected ELSE meant
  OBVIOUS
<1>4. Lcd!Answerable /\ Lcd!Draws(q, a, m, Tail(keys))
  BY <1>1, <1>2, <1>3 DEF Lcd!Acts
<1>5. keys # <<>> /\ (panel.remote => panel.ready)
  BY <1>4 DEF Lcd!Answerable
<1>6. a.revision \in Int /\ a.selected \in Nat /\ meant \in Nat
  BY DEF Watched, PanelSound, PanelApp
<1>7. /\ q \in Display /\ q.view = p.view /\ q.remote = p.remote /\ q.ready = p.ready
      /\ q.pending = p.pending /\ q.webToken = p.webToken
      /\ renewed => q.token = a.revision
  BY <1>2, <1>6 DEF Display
<1>8. PanelSound(a, q, m)
  <2>1. CASE renewed
    BY <1>3, <1>6, <1>7, <2>1 DEF PanelSound, TokensSound, ReceiptSound, OwnSound
  <2>2. CASE ~renewed
    <3>1. q = p /\ m = meant
      BY <1>2, <1>3, <2>2
    <3> QED
      BY <1>1, <1>6, <2>2, <3>1 DEF PanelSound
  <2> QED
    BY <2>1, <2>2
<1>9. /\ Tail(keys) \in Seq(BOOLEAN) /\ Len(Tail(keys)) = Len(keys) - 1
      /\ \A i \in 1 .. Len(Tail(keys)) : Tail(keys)[i] = keys[i + 1]
  BY <1>5, TailSound DEF Watched
<1>10. Len(Tail(keys)) <= KeysMax /\ shown \in BOOLEAN
  BY <1>9, LenProperties, ServicesAssumption DEF Watched, ServicesAssumption
<1>11. PromptSound(q, Tail(keys), shown)
  <2>1. q.remote => q.view = "recover"
    BY <1>7
  <2>2. ASSUME q.remote PROVE shown /\ \A i \in 1 .. Len(Tail(keys)) : Tail(keys)[i]
    <3>1. shown /\ \A i \in 1 .. Len(keys) : keys[i]
      BY <1>5, <1>7, <2>2 DEF Watched, PromptSound
    <3>2. ASSUME NEW i \in 1 .. Len(Tail(keys)) PROVE Tail(keys)[i]
      <4>1. Tail(keys)[i] = keys[i + 1]
        BY <1>9
      <4>2. i + 1 \in 1 .. Len(keys)
        BY <1>9, LenProperties DEF Watched
      <4> QED
        BY <3>1, <4>1, <4>2
    <3> QED
      BY <3>1, <3>2
  <2> QED
    BY <2>1, <2>2 DEF PromptSound
<1> QED
  BY <1>4, <1>8, <1>9, <1>10, <1>11, DrawsSound

\* A key that touches neither the page's tokens nor its own change.
LEMMA KeySound ==
    ASSUME Watched, NEW a \in PanelApp, NEW p \in Display, NEW loads \in BOOLEAN,
           Lcd!Acts(p, a, loads), Later(a, app),
           p.token = panel.token, p.webToken = panel.webToken, p.pending = panel.pending,
           p.ready = panel.ready, p.remote => panel.remote /\ p.view = "recover",
           loads \/ Lcd!Renews(panel.view, p.view)
             \/ (p.view \in Lcd!WebViews => panel.view \in Lcd!WebViews)
    PROVE  Watched'
<1>1. app \in PanelApp /\ panel \in Display /\ meant \in Nat
      /\ TokensSound(app, panel, meant) /\ OwnSound(app, panel, meant)
  BY DEF Watched, PanelSound
<1>2. TokensSound(a, panel, meant) /\ OwnSound(a, panel, meant)
  BY <1>1, LaterSound
<1>3. TokensSound(a, p, meant)
  BY <1>2 DEF TokensSound, ReceiptSound
<1>4. (p.view \in Lcd!WebViews => panel.view \in Lcd!WebViews) => OwnSound(a, p, meant)
  BY <1>2 DEF OwnSound
<1>5. ReceiptSound(a) /\ p.webToken <= a.revision
  BY <1>3 DEF TokensSound, ReceiptSound
<1> QED
  BY <1>3, <1>4, <1>5, ActsSound

\* What a request leaves of the application.
LEMMA RequestsSound ==
    ASSUME NEW b \in PanelApp, b.revision < MaxRevision, NEW c \in Nat,
           NEW r \in Lcd!Requests(b, c)
    PROVE  /\ r[1] \in PanelApp /\ Later(r[1], b)
           /\ r[2] => /\ r[1].tx.accepted = r[1].tx.result /\ r[1].tx.accepted <= r[1].revision
                      /\ r[1].tx.state \in {"unchanged", "applying"}
<1>1. b.revision \in 0 .. MaxRevision /\ MaxRevision \in Nat /\ b.tx \in PanelTx
  BY ServicesAssumption DEF PanelApp, ServicesAssumption
<1>2. Lcd!NoToken = 0 - 1 /\ Lcd!NoToken \in Int
  BY DEF Lcd!NoToken
<1>3. CASE r = <<b, FALSE>>
  <2>1. r[1] = b /\ ~r[2]
    BY <1>3
  <2> QED
    BY <1>1, <2>1 DEF Later
<1>4. ASSUME NEW state \in {"unchanged", "failed"}, NEW told \in BOOLEAN,
             r = <<[b EXCEPT !.tx = Lcd!Transaction(state, 0, Lcd!NoToken)], told>>,
             state = "unchanged" <=> told
      PROVE  /\ r[1] \in PanelApp /\ Later(r[1], b)
             /\ r[2] => /\ r[1].tx.accepted = r[1].tx.result
                        /\ r[1].tx.accepted <= r[1].revision
                        /\ r[1].tx.state \in {"unchanged", "applying"}
  <2>1. PICK t : t = Lcd!Transaction(state, 0, Lcd!NoToken)
    OBVIOUS
  <2>2. /\ t \in PanelTx /\ t.state = state /\ t.result = 0 - 1 /\ t.accepted = 0 - 1
    BY <1>2, <2>1 DEF Lcd!Transaction, PanelTx, TxStates, Lcd!Failures
  <2>3. r[1] = [b EXCEPT !.tx = t] /\ (r[2] <=> told)
    BY <1>4, <2>1
  <2>4. r[1] \in PanelApp /\ r[1].tx = t /\ r[1].revision = b.revision
        /\ r[1].selected = b.selected
    BY <2>2, <2>3 DEF PanelApp
  <2> QED
    BY <1>1, <1>4, <2>2, <2>3, <2>4 DEF Later
<1>5. ASSUME r = <<[Lcd!Advanced(b) EXCEPT !.tx =
                       Lcd!Transaction("applying", c, b.revision + 1)], TRUE>>
      PROVE  /\ r[1] \in PanelApp /\ Later(r[1], b)
             /\ r[1].tx.accepted = r[1].tx.result /\ r[1].tx.accepted <= r[1].revision
             /\ r[1].tx.state \in {"unchanged", "applying"}
  <2>1. PICK v : v = b.revision + 1
    OBVIOUS
  <2>2. PICK t : t = Lcd!Transaction("applying", c, v)
    OBVIOUS
  <2>3. v \in 0 .. MaxRevision /\ v > b.revision /\ v \in Int
    BY <1>1, <2>1
  <2>4. t \in PanelTx /\ t.state = "applying" /\ t.result = v /\ t.accepted = v
    BY <2>2, <2>3 DEF Lcd!Transaction, PanelTx, TxStates
  <2>5. r[1] = [b EXCEPT !.revision = v, !.tx = t]
    BY <1>5, <2>1, <2>2 DEF Lcd!Advanced, PanelApp
  <2>6. r[1] \in PanelApp /\ r[1].tx = t /\ r[1].revision = v /\ r[1].selected = b.selected
    BY <2>3, <2>4, <2>5 DEF PanelApp
  <2>7. v >= b.revision /\ v <= v
    BY <1>1, <2>1
  <2> QED
    BY <2>3, <2>4, <2>6, <2>7 DEF Later
<1>6. \/ r = <<b, FALSE>>
      \/ r = <<[b EXCEPT !.tx = Lcd!Transaction("unchanged", 0, Lcd!NoToken)], TRUE>>
      \/ r = <<[b EXCEPT !.tx = Lcd!Transaction("failed", 0, Lcd!NoToken)], FALSE>>
      \/ r = <<[Lcd!Advanced(b) EXCEPT !.tx =
                   Lcd!Transaction("applying", c, b.revision + 1)], TRUE>>
  <2>1. CASE Lcd!Refused(b)
    BY <2>1 DEF Lcd!Requests
  <2>2. CASE ~Lcd!Refused(b) /\ c = b.selected
    BY <2>2 DEF Lcd!Requests
  <2>3. CASE ~Lcd!Refused(b) /\ c # b.selected
    BY <2>3 DEF Lcd!Requests
  <2> QED
    BY <2>1, <2>2, <2>3
<1>7. CASE r = <<[b EXCEPT !.tx = Lcd!Transaction("unchanged", 0, Lcd!NoToken)], TRUE>>
  BY <1>7, <1>4
<1>8. CASE r = <<[b EXCEPT !.tx = Lcd!Transaction("failed", 0, Lcd!NoToken)], FALSE>>
  BY <1>8, <1>4
<1> QED
  BY <1>3, <1>5, <1>6, <1>7, <1>8

\* Between two steps of the panel.
LEMMA OthersSound ==
    ASSUME PanelInv, NEW a, PanelSound(a, panel, meant), Lcd!Others(a)
    PROVE  PanelInv'
<1>1. /\ PanelSound(app', panel', meant') /\ panel'.view = panel.view
      /\ panel'.remote = panel.remote /\ panel'.ready = (panel.ready /\ panel.remote)
  BY PanelBecomes DEF Lcd!Others
<1>2. keys' = keys /\ shown' = shown /\ blind' = blind
  BY DEF Lcd!Others
<1> QED
  BY <1>1, <1>2 DEF PanelInv, Watched, PromptSound

\* An application of which nothing else is selected.
LEMMA LaterOthers ==
    ASSUME PanelInv, NEW a \in PanelApp, Later(a, app), Lcd!Others(a)
    PROVE  PanelInv'
<1>1. app \in PanelApp /\ panel \in Display /\ meant \in Nat
      /\ TokensSound(app, panel, meant) /\ OwnSound(app, panel, meant)
  BY DEF PanelInv, Watched, PanelSound
<1>2. PanelSound(a, panel, meant)
  BY <1>1, LaterSound DEF PanelSound
<1> QED
  BY <1>2, OthersSound

\* A change ends: it is what is selected then, and its receipt is renewed with the revision,
\* or is old.
LEMMA EndSound ==
    ASSUME PanelInv, NEW state \in {"succeeded", "uncertain"} \cup Lcd!Failures,
           Lcd!TransactionEnds(state)
    PROVE  PanelInv'
<1>1. /\ app \in PanelApp /\ panel \in Display /\ meant \in Nat
      /\ TokensSound(app, panel, meant) /\ OwnSound(app, panel, meant)
  BY DEF PanelInv, Watched, PanelSound
<1>2. /\ app.tx.state = "applying" /\ app.revision < MaxRevision
  BY DEF Lcd!TransactionEnds, Lcd!Busy, Lcd!Room
<1>3. /\ app.revision \in 0 .. MaxRevision /\ MaxRevision \in Nat /\ app.tx \in PanelTx
      /\ app.tx.candidate \in Nat /\ app.tx.result \in Int
      /\ panel.token \in Int /\ panel.webToken \in Int
  BY <1>1, ServicesAssumption DEF PanelApp, PanelTx, Display, ServicesAssumption
<1>4. state \in TxStates
  BY DEF TxStates
<1>5. PICK v : v = app.revision + 1
  OBVIOUS
<1>6. v \in 0 .. MaxRevision /\ v > app.revision
  BY <1>2, <1>3, <1>5
<1>7. PICK t : t = [app.tx EXCEPT !.state = state]
  OBVIOUS
<1>8. /\ t \in PanelTx /\ t.state = state /\ t.result = app.tx.result
      /\ t.accepted = app.tx.accepted /\ t.candidate = app.tx.candidate
  BY <1>3, <1>4, <1>7 DEF PanelTx
<1>9. CASE state \in Lcd!Failures
  <2>1. Lcd!Others([app EXCEPT !.tx = t])
    <3>1. [app EXCEPT !.tx.state = state] = [app EXCEPT !.tx = t]
      BY <1>1, <1>7 DEF PanelApp
    <3>2. Lcd!Others([app EXCEPT !.tx.state = state])
      BY <1>9 DEF Lcd!TransactionEnds
    <3> QED
      BY <3>1, <3>2
  <2>2. PICK a : a = [app EXCEPT !.tx = t]
    OBVIOUS
  <2>3. a \in PanelApp /\ a.tx = t /\ a.revision = app.revision /\ a.selected = app.selected
    BY <1>1, <1>8, <2>2 DEF PanelApp
  <2>4. state \in {"failed", "rollbackFailed"}
    BY <1>9 DEF Lcd!Failures
  <2>5. TokensSound(a, panel, meant) /\ OwnSound(a, panel, meant)
    BY <1>1, <1>2, <1>8, <2>3, <2>4 DEF TokensSound, ReceiptSound, OwnSound
  <2> QED
    BY <1>1, <2>1, <2>2, <2>3, <2>5, OthersSound DEF PanelSound
<1>10. ASSUME state \notin Lcd!Failures, NEW u \in PanelTx, u.state = state,
              u.candidate = app.tx.candidate, u.result <= v,
              Lcd!Others([app EXCEPT !.tx = u, !.revision = v, !.selected = app.tx.candidate])
       PROVE  PanelInv'
  <2>1. PICK a : a = [app EXCEPT !.tx = u, !.revision = v, !.selected = app.tx.candidate]
    OBVIOUS
  <2>2. a \in PanelApp /\ a.tx = u /\ a.revision = v /\ a.selected = app.tx.candidate
    BY <1>1, <1>3, <1>6, <2>1, <1>10 DEF PanelApp
  <2>3. state \in {"succeeded", "uncertain"}
    BY <1>10
  <2>4. TokensSound(a, panel, meant)
    BY <1>1, <1>3, <1>6, <1>10, <2>2 DEF TokensSound, ReceiptSound
  <2>5. OwnSound(a, panel, meant)
    BY <1>10, <2>2, <2>3 DEF OwnSound
  <2> QED
    BY <1>1, <1>10, <2>1, <2>2, <2>4, <2>5, OthersSound DEF PanelSound
<1>11. PICK a : a = [Lcd!Advanced(app) EXCEPT !.tx.state = state, !.selected = app.tx.candidate]
  OBVIOUS
<1>12. a = [app EXCEPT !.tx = t, !.revision = v, !.selected = app.tx.candidate]
  BY <1>1, <1>5, <1>7, <1>11 DEF PanelApp, Lcd!Advanced
<1>13. a.revision = v /\ a.tx = t
  BY <1>1, <1>12 DEF PanelApp
<1>14. CASE state \notin Lcd!Failures /\ Lcd!Checked(app, app.tx.result)
  <2>1. PICK u : u = [t EXCEPT !.result = v]
    OBVIOUS
  <2>2. u \in PanelTx /\ u.state = state /\ u.candidate = app.tx.candidate /\ u.result = v
    BY <1>3, <1>6, <1>8, <2>1 DEF PanelTx
  <2>3. [a EXCEPT !.tx.result = a.revision]
          = [app EXCEPT !.tx = u, !.revision = v, !.selected = app.tx.candidate]
    BY <1>1, <1>12, <1>13, <2>1 DEF PanelApp
  <2>4. Lcd!Others([app EXCEPT !.tx = u, !.revision = v, !.selected = app.tx.candidate])
    BY <1>11, <1>14, <2>3 DEF Lcd!TransactionEnds
  <2>5. u.result <= v
    BY <1>6, <2>2
  <2> QED
    BY <1>10, <1>14, <2>2, <2>4, <2>5
<1>15. CASE state \notin Lcd!Failures /\ ~Lcd!Checked(app, app.tx.result)
  <2>1. Lcd!Others([app EXCEPT !.tx = t, !.revision = v, !.selected = app.tx.candidate])
    BY <1>11, <1>12, <1>15 DEF Lcd!TransactionEnds
  <2>2. t.result <= v
    BY <1>1, <1>3, <1>6, <1>8 DEF TokensSound, ReceiptSound
  <2> QED
    BY <1>10, <1>15, <1>8, <2>1, <2>2
<1> QED
  BY <1>9, <1>14, <1>15

\* The network, the browser and its prompt, and a key that is pressed.
LEMMA OutsideSound ==
    ASSUME PanelInv,
           Lcd!NetworkMoves \/ Lcd!BrowserWrites \/ Lcd!BrowserRecovers \/ Lcd!PromptExpires
             \/ Lcd!Press
    PROVE  PanelInv'
<1>1. /\ app \in PanelApp /\ panel \in Display /\ meant \in Nat
      /\ app.revision \in 0 .. MaxRevision /\ MaxRevision \in Nat
      /\ app.edits \in 1 .. MaxEdits /\ MaxEdits \in Nat
  BY ServicesAssumption DEF PanelInv, Watched, PanelSound, PanelApp, ServicesAssumption
<1>2. CASE Lcd!NetworkMoves
  <2>1. PICK n : n = IF app.network = "idle" THEN "trying" ELSE "idle"
    OBVIOUS
  <2>2. PICK v : v = app.revision + 1
    OBVIOUS
  <2>3. PICK a : a = [app EXCEPT !.revision = v, !.network = n]
    OBVIOUS
  <2>4. v \in 0 .. MaxRevision /\ v >= app.revision /\ n \in {"idle", "trying"}
    BY <1>1, <1>2, <2>1, <2>2 DEF Lcd!NetworkMoves, Lcd!Room
  <2>5. Lcd!Others(a)
    <3>1. [Lcd!Advanced(app) EXCEPT !.network = IF @ = "idle" THEN "trying" ELSE "idle"] = a
      BY <1>1, <2>1, <2>2, <2>3 DEF Lcd!Advanced, PanelApp
    <3> QED
      BY <1>2, <3>1 DEF Lcd!NetworkMoves
  <2>6. a \in PanelApp /\ a.tx = app.tx /\ a.selected = app.selected /\ a.revision = v
    BY <1>1, <2>3, <2>4 DEF PanelApp
  <2> QED
    BY <2>4, <2>5, <2>6, LaterOthers DEF Later
<1>3. CASE Lcd!BrowserWrites
  <2>1. PICK b : b = [app EXCEPT !.edits = @ + 1]
    OBVIOUS
  <2>2. /\ b \in PanelApp /\ b.revision = app.revision /\ b.selected = app.selected
        /\ b.tx = app.tx
    BY <1>1, <1>3, <2>1 DEF Lcd!BrowserWrites, PanelApp
  <2>3. PICK r \in Lcd!Requests(b, Lcd!Fresh) : Lcd!Others(r[1])
    BY <1>3, <2>1 DEF Lcd!BrowserWrites
  <2>4. app.revision < MaxRevision /\ Lcd!Fresh \in Nat
    BY <1>1, <1>3 DEF Lcd!BrowserWrites, Lcd!Room, Lcd!Fresh
  <2>5. r[1] \in PanelApp /\ Later(r[1], b)
    BY <2>2, <2>4, RequestsSound
  <2>6. Later(r[1], app)
    BY <2>2, <2>5 DEF Later
  <2> QED
    BY <2>3, <2>5, <2>6, LaterOthers
<1>4. CASE Lcd!BrowserRecovers \/ Lcd!PromptExpires
  <2>1. PICK n \in 0 .. 2 : Lcd!Others([app EXCEPT !.prompt = n])
    BY <1>4 DEF Lcd!BrowserRecovers, Lcd!PromptExpires
  <2>2. PICK a : a = [app EXCEPT !.prompt = n]
    OBVIOUS
  <2>3. a \in PanelApp /\ a.tx = app.tx /\ a.selected = app.selected
        /\ a.revision = app.revision
    BY <1>1, <2>2 DEF PanelApp
  <2>4. Later(a, app)
    BY <1>1, <2>3 DEF Later
  <2> QED
    BY <2>1, <2>2, <2>3, <2>4, LaterOthers
<1>5. CASE Lcd!Press
  <2>1. /\ keys \in Seq(BOOLEAN) /\ Len(keys) < KeysMax /\ shown \in BOOLEAN
        /\ keys' = Append(keys, shown) /\ KeysMax \in Nat
    BY <1>5, ServicesAssumption DEF PanelInv, Watched, Lcd!Press, ServicesAssumption
  <2>2. keys' \in Seq(BOOLEAN) /\ Len(keys') = Len(keys) + 1
        /\ \A i \in 1 .. Len(keys) : keys'[i] = keys[i]
    BY <2>1, AppendProperties
  <2>3. keys'[Len(keys) + 1] = shown
    BY <2>1, AppendProperties
  <2>4. Len(keys') <= KeysMax /\ Len(keys) \in Nat
    BY <2>1, <2>2, LenProperties
  <2>5. ASSUME panel.remote, panel.ready
        PROVE  shown /\ \A i \in 1 .. Len(keys') : keys'[i]
    <3>1. shown /\ \A i \in 1 .. Len(keys) : keys[i]
      BY <2>5 DEF PanelInv, Watched, PromptSound
    <3>2. ASSUME NEW i \in 1 .. Len(keys') PROVE keys'[i]
      <4>1. CASE i \in 1 .. Len(keys)
        BY <2>2, <3>1, <4>1
      <4>2. CASE i = Len(keys) + 1
        BY <2>3, <3>1, <4>2
      <4> QED
        BY <2>2, <2>4, <4>1, <4>2
    <3> QED
      BY <3>1, <3>2
  <2>6. /\ app' = app /\ panel' = panel /\ shown' = shown /\ meant' = meant /\ blind' = blind
    BY <1>5 DEF Lcd!Press
  <2> QED
    BY <2>2, <2>4, <2>5, <2>6 DEF PanelInv, Watched, PromptSound
<1> QED
  BY <1>2, <1>3, <1>4, <1>5

\* What became of the page's own change.
LEMMA WebResultIs ==
    ASSUME PanelSound(app, panel, meant)
    PROVE  LET r == Lcd!WebResult(panel)
           IN  /\ r[1] \in Display /\ r[1].view = panel.view /\ r[1].remote = panel.remote
               /\ r[1].ready = panel.ready /\ r[1].back = panel.back
               /\ r[1].webToken = panel.webToken
               /\ r[1].pending => panel.pending
               /\ r[2] \in BOOLEAN
               /\ ~r[2] => r[1].token = panel.token
               /\ r[2] => /\ ~r[1].pending /\ r[1].token = app.tx.result
                          /\ app.tx.result = app.revision
                          /\ panel.pending /\ panel.view \in Lcd!WebViews
                          /\ panel.webToken = app.tx.accepted
                          /\ app.tx.state \notin {"applying", "uncertain", "rollbackFailed"}
<1> DEFINE r == Lcd!WebResult(panel)
<1>1. panel \in Display /\ app.tx.result \in Int /\ panel.pending \in BOOLEAN
  BY DEF PanelSound, PanelApp, PanelTx, Display
<1>2. PICK done : done = [panel EXCEPT !.pending = FALSE]
  OBVIOUS
<1>3. /\ done \in Display /\ done.view = panel.view /\ done.remote = panel.remote
      /\ done.ready = panel.ready /\ done.back = panel.back /\ done.token = panel.token
      /\ done.webToken = panel.webToken /\ ~done.pending
  BY <1>1, <1>2 DEF Display
<1>4. PICK refused : refused = [done EXCEPT !.conflict = TRUE]
  OBVIOUS
<1>5. /\ refused \in Display /\ refused.view = panel.view /\ refused.remote = panel.remote
      /\ refused.ready = panel.ready /\ refused.back = panel.back
      /\ refused.token = panel.token /\ refused.webToken = panel.webToken /\ ~refused.pending
  BY <1>3, <1>4 DEF Display
<1>6. PICK again : again = [done EXCEPT !.token = app.tx.result]
  OBVIOUS
<1>7. /\ again \in Display /\ again.view = panel.view /\ again.remote = panel.remote
      /\ again.ready = panel.ready /\ again.back = panel.back
      /\ again.token = app.tx.result /\ again.webToken = panel.webToken /\ ~again.pending
  BY <1>1, <1>3, <1>6 DEF Display
<1>8. CASE ~panel.pending \/ panel.view \notin Lcd!WebViews
  <2>1. r = <<panel, FALSE>> \/ r = <<done, FALSE>>
    BY <1>2, <1>8 DEF Lcd!WebResult
  <2>2. CASE r = <<panel, FALSE>>
    BY <1>1, <2>2
  <2>3. CASE r = <<done, FALSE>>
    BY <1>3, <2>3
  <2> QED
    BY <2>1, <2>2, <2>3
<1>9. CASE panel.pending /\ panel.view \in Lcd!WebViews /\ panel.webToken # app.tx.accepted
  <2>1. r = <<refused, FALSE>>
    BY <1>2, <1>4, <1>9 DEF Lcd!WebResult
  <2> QED
    BY <1>5, <2>1
<1>10. CASE /\ panel.pending /\ panel.view \in Lcd!WebViews
            /\ panel.webToken = app.tx.accepted /\ Lcd!Busy(app.tx)
  <2>1. r = <<panel, FALSE>>
    BY <1>10 DEF Lcd!WebResult
  <2> QED
    BY <1>1, <2>1
<1>11. CASE /\ panel.pending /\ panel.view \in Lcd!WebViews
            /\ panel.webToken = app.tx.accepted /\ ~Lcd!Busy(app.tx)
  <2>1. r = IF \/ app.tx.state \in {"uncertain", "rollbackFailed"}
               \/ ~Lcd!Checked(app, app.tx.result)
            THEN <<refused, FALSE>> ELSE <<again, TRUE>>
    BY <1>2, <1>4, <1>6, <1>11 DEF Lcd!WebResult
  <2>2. CASE \/ app.tx.state \in {"uncertain", "rollbackFailed"}
             \/ ~Lcd!Checked(app, app.tx.result)
    BY <1>5, <2>1, <2>2
  <2>3. CASE ~(\/ app.tx.state \in {"uncertain", "rollbackFailed"}
               \/ ~Lcd!Checked(app, app.tx.result))
    <3>1. r = <<again, TRUE>>
      BY <2>1, <2>3
    <3>2. /\ app.tx.state \notin {"applying", "uncertain", "rollbackFailed"}
          /\ app.tx.result = app.revision
      BY <1>11, <2>3 DEF Lcd!Busy, Lcd!Checked
    <3> QED
      BY <1>7, <1>11, <3>1, <3>2
  <2> QED
    BY <2>2, <2>3
<1> QED
  BY <1>8, <1>9, <1>10, <1>11

\* The step begins: a token that is renewed stands for what the page's own change has
\* selected, or has left selected.
LEMMA OwnRenewed ==
    ASSUME PanelSound(app, panel, meant), NEW r, r = Lcd!WebResult(panel), NEW m,
           m = IF r[2] /\ app.tx.state = "succeeded" THEN app.tx.candidate ELSE meant
    PROVE  m \in Nat /\ TokensSound(app, r[1], m) /\ OwnSound(app, r[1], m)
<1>1. /\ app \in PanelApp /\ panel \in Display /\ meant \in Nat
      /\ TokensSound(app, panel, meant) /\ OwnSound(app, panel, meant)
  BY DEF PanelSound
<1>2. /\ app.tx.candidate \in Nat /\ app.tx.result \in Int /\ app.revision \in Int
      /\ app.revision >= 0 /\ app.tx.state \in TxStates
  BY <1>1 DEF PanelApp, PanelTx
<1>3. m \in Nat
  BY <1>1, <1>2
<1>4. CASE r[2]
  <2>1. /\ ~r[1].pending /\ r[1].token = app.revision /\ r[1].webToken = panel.webToken
        /\ app.tx.result = app.revision
        /\ panel.pending /\ panel.view \in Lcd!WebViews
        /\ panel.webToken = app.tx.accepted
        /\ app.tx.state \notin {"applying", "uncertain", "rollbackFailed"}
    BY <1>4, WebResultIs
  <2>2. app.tx.state \in {"succeeded", "failed"}
    BY <1>1, <1>2, <2>1 DEF TokensSound, ReceiptSound, TxStates, Lcd!Failures
  <2>3. app.selected = m
    BY <1>1, <1>4, <2>1, <2>2 DEF TokensSound, ReceiptSound, OwnSound
  <2> QED
    BY <1>1, <1>2, <1>3, <2>1, <2>3 DEF TokensSound, OwnSound
<1>5. CASE ~r[2]
  <2>1. /\ r[1].token = panel.token /\ r[1].webToken = panel.webToken
        /\ r[1].pending => panel.pending
        /\ r[1].view = panel.view /\ m = meant
    BY <1>5, WebResultIs
  <2> QED
    BY <1>1, <1>3, <2>1 DEF TokensSound, OwnSound
<1> QED
  BY <1>4, <1>5

\* The prompt of the browser comes on the panel, or goes.
LEMMA BeginSound ==
    ASSUME PanelInv, Lcd!Begin
    PROVE  PanelInv'
<1>1. PanelSound(app, panel, meant) /\ PromptSound(panel, keys, shown)
  BY DEF PanelInv, Watched
<1>2. PICK r : r = Lcd!WebResult(panel)
  OBVIOUS
<1>3. PICK p : p = r[1]
  OBVIOUS
<1>4. PICK m : m = IF r[2] /\ app.tx.state = "succeeded" THEN app.tx.candidate ELSE meant
  OBVIOUS
<1>5. PICK safe : safe = (/\ p.view \in {"home", "menu", "system", "web"} /\ p.works = "both"
                          /\ app.network = "idle" /\ ~Lcd!Busy(app.tx))
  OBVIOUS
<1>6. PICK on : on = (p.remote /\ app.prompt # 0)
  OBVIOUS
<1>7. PICK v : v = IF p.remote /\ app.prompt = 0 THEN p.back ELSE p.view
  OBVIOUS
<1>8. PICK q : q = [p EXCEPT !.phase = "key", !.remote = on, !.view = v]
  OBVIOUS
<1>9. PICK a : a = [app EXCEPT !.available = safe]
  OBVIOUS
<1>10. /\ p \in Display /\ p.view = panel.view /\ p.remote = panel.remote
       /\ p.ready = panel.ready /\ app \in PanelApp
  BY <1>1, <1>2, <1>3, WebResultIs DEF PanelSound
<1>11. m \in Nat /\ TokensSound(app, p, m) /\ OwnSound(app, p, m)
  BY <1>1, <1>2, <1>3, <1>4, OwnRenewed
<1>12. q = [p EXCEPT !.phase = "key", !.remote = @ /\ app.prompt # 0,
                     !.view = IF p.remote /\ app.prompt = 0 THEN p.back ELSE @]
  BY <1>6, <1>7, <1>8, <1>10 DEF Display
<1>13. on \in BOOLEAN /\ safe \in BOOLEAN
  BY <1>5, <1>6
<1>14. v \in Views
  BY <1>7, <1>10 DEF Display
<1>15. /\ q \in Display /\ q.view = v /\ q.remote = on /\ q.ready = p.ready
       /\ q.pending = p.pending /\ q.token = p.token /\ q.webToken = p.webToken
  BY <1>8, <1>10, <1>13, <1>14 DEF Display
<1>16. /\ a \in PanelApp /\ a.revision = app.revision /\ a.selected = app.selected
       /\ a.tx = app.tx
  BY <1>9, <1>10, <1>13 DEF PanelApp
<1>17. p.remote => panel.view = "recover"
  BY <1>1, <1>10 DEF PromptSound
<1>18. v \in Lcd!WebViews => p.view \in Lcd!WebViews
  BY <1>7, <1>10, <1>17 DEF Lcd!WebViews
<1>19. on => v = "recover"
  BY <1>6, <1>7, <1>10, <1>17
<1>20. safe => ~p.remote /\ ~on
  BY <1>5, <1>6, <1>10, <1>17
<1>21. ASSUME NEW b \in PanelApp, b.revision = app.revision, b.selected = app.selected,
              b.tx = app.tx, NEW d \in Display, d.pending = p.pending, d.token = p.token,
              d.webToken = p.webToken,
              d.view \in Lcd!WebViews => p.view \in Lcd!WebViews \/ ~p.pending
       PROVE  PanelSound(b, d, m)
  BY <1>11, <1>21 DEF PanelSound, TokensSound, ReceiptSound, OwnSound
<1>22. CASE app.prompt # 1 /\ Lcd!Becomes(a, q, m) /\ UNCHANGED keys
  <2>1. PanelSound(a, q, m)
    BY <1>15, <1>16, <1>18, <1>21
  <2>2. /\ PanelSound(app', panel', meant') /\ panel'.view = v /\ panel'.remote = on
        /\ panel'.ready = (p.ready /\ on)
    BY <1>15, <1>22, <2>1, PanelBecomes
  <2>3. UNCHANGED <<shown, blind>> /\ keys' = keys
    BY <1>22 DEF Lcd!Begin
  <2>4. PromptSound(panel', keys', shown')
    BY <1>1, <1>6, <1>10, <1>19, <2>2, <2>3 DEF PromptSound
  <2> QED
    BY <2>2, <2>3, <2>4 DEF PanelInv, Watched
<1>23. ASSUME NEW b, b = [a EXCEPT !.prompt = 2], NEW d,
              d = [q EXCEPT !.back = q.view, !.view = "recover", !.remote = TRUE,
                            !.ready = FALSE],
              app.prompt = 1, safe, keys' = <<>>, Lcd!Becomes(b, d, m)
       PROVE  PanelInv'
  <2>1. /\ b \in PanelApp /\ b.revision = app.revision /\ b.selected = app.selected
        /\ b.tx = app.tx
    BY <1>16, <1>23 DEF PanelApp
  <2>2. /\ d \in Display /\ d.view = "recover" /\ d.remote /\ ~d.ready
        /\ d.pending = p.pending /\ d.token = p.token /\ d.webToken = p.webToken
    <3>1. "recover" \in Views
      BY DEF Views, Lcd!TokenViews, Lcd!WebViews
    <3> QED
      BY <1>15, <1>23, <3>1 DEF Display
  <2>3. p.view \in Lcd!WebViews \/ ~p.pending
    BY <1>2, <1>3 DEF Lcd!WebResult
  <2>4. PanelSound(b, d, m)
    BY <2>1, <2>2, <2>3, <1>21
  <2>5. /\ PanelSound(app', panel', meant') /\ panel'.view = "recover"
        /\ ~panel'.ready
    BY <1>23, <2>2, <2>4, PanelBecomes
  <2>6. UNCHANGED <<shown, blind>>
    BY DEF Lcd!Begin
  <2>7. keys' \in Seq(BOOLEAN) /\ Len(keys') <= KeysMax
    BY <1>23, ServicesAssumption DEF ServicesAssumption
  <2> QED
    BY <2>5, <2>6, <2>7 DEF PanelInv, Watched, PromptSound
<1>24. ASSUME NEW b, b = [a EXCEPT !.prompt = 0], keys' = IF safe THEN <<>> ELSE keys,
              Lcd!Becomes(b, q, m)
       PROVE  PanelInv'
  <2>1. /\ b \in PanelApp /\ b.revision = app.revision /\ b.selected = app.selected
        /\ b.tx = app.tx
    BY <1>16, <1>24 DEF PanelApp
  <2>2. PanelSound(b, q, m)
    BY <1>15, <1>18, <1>21, <2>1
  <2>3. /\ PanelSound(app', panel', meant') /\ panel'.view = v /\ panel'.remote = on
        /\ panel'.ready = (p.ready /\ on)
    BY <1>15, <1>24, <2>2, PanelBecomes
  <2>4. UNCHANGED <<shown, blind>>
    BY DEF Lcd!Begin
  <2>5. CASE safe
    <3>1. keys' \in Seq(BOOLEAN) /\ Len(keys') <= KeysMax
      BY <1>24, <2>5, ServicesAssumption DEF ServicesAssumption
    <3>2. ~panel'.remote
      BY <1>20, <2>3, <2>5
    <3> QED
      BY <2>3, <2>4, <3>1, <3>2 DEF PanelInv, Watched, PromptSound
  <2>6. CASE ~safe
    <3>1. keys' = keys
      BY <1>24, <2>6
    <3>2. PromptSound(panel', keys', shown')
      BY <1>1, <1>6, <1>10, <1>19, <2>3, <2>4, <3>1 DEF PromptSound
    <3> QED
      BY <2>3, <2>4, <3>1, <3>2 DEF PanelInv, Watched
  <2> QED
    BY <2>5, <2>6
<1>25. ASSUME NEW b, b = [a EXCEPT !.code = FALSE], NEW d, d = [q EXCEPT !.view = "code"],
              safe, UNCHANGED keys, Lcd!Becomes(b, d, m)
       PROVE  PanelInv'
  <2>1. /\ b \in PanelApp /\ b.revision = app.revision /\ b.selected = app.selected
        /\ b.tx = app.tx
    BY <1>16, <1>25 DEF PanelApp
  <2>2. /\ d \in Display /\ ~d.remote /\ d.pending = p.pending /\ d.token = p.token
        /\ d.webToken = p.webToken
    <3>1. "code" \in Views
      BY DEF Views, Lcd!TokenViews, Lcd!WebViews
    <3> QED
      BY <1>15, <1>20, <1>25, <3>1 DEF Display
  <2>3. p.view \in Lcd!WebViews \/ ~p.pending
    BY <1>2, <1>3 DEF Lcd!WebResult
  <2>4. PanelSound(b, d, m)
    BY <2>1, <2>2, <2>3, <1>21
  <2>5. PanelSound(app', panel', meant') /\ ~panel'.remote
    BY <1>25, <2>2, <2>4, PanelBecomes
  <2>6. UNCHANGED <<shown, blind, keys>>
    BY <1>25 DEF Lcd!Begin
  <2> QED
    BY <2>5, <2>6 DEF PanelInv, Watched, PromptSound
<1>26. \/ app.prompt # 1 /\ Lcd!Becomes(a, q, m) /\ UNCHANGED keys
       \/ /\ app.prompt = 1 /\ safe /\ keys' = <<>>
          /\ Lcd!Becomes([a EXCEPT !.prompt = 2],
                         [q EXCEPT !.back = q.view, !.view = "recover", !.remote = TRUE,
                                   !.ready = FALSE], m)
       \/ /\ keys' = IF safe THEN <<>> ELSE keys
          /\ Lcd!Becomes([a EXCEPT !.prompt = 0], q, m)
       \/ /\ safe /\ UNCHANGED keys
          /\ Lcd!Becomes([a EXCEPT !.code = FALSE], [q EXCEPT !.view = "code"], m)
  BY <1>2, <1>3, <1>4, <1>5, <1>9, <1>12 DEF Lcd!Begin
<1> QED
  BY <1>22, <1>23, <1>24, <1>25, <1>26

\* Where the user goes, and what he loads, edits or is refused.
LEMMA GoesSound ==
    ASSUME PanelInv,
           Lcd!Navigate \/ Lcd!LoadDraft \/ Lcd!OpenNetwork \/ Lcd!EditDraft \/ Lcd!Invalid
             \/ Lcd!Shutdown
    PROVE  PanelInv'
<1>1. /\ Watched /\ ~blind /\ app \in PanelApp /\ panel \in Display
      /\ app.edits \in 1 .. MaxEdits /\ MaxEdits \in Nat /\ app.selected \in Nat
      /\ panel.remote => panel.view = "recover"
  BY ServicesAssumption
  DEF PanelInv, Watched, PanelSound, PanelApp, PromptSound, ServicesAssumption
<1>2. Later(app, app)
  BY <1>1 DEF Later, PanelApp
<1>3. ~blind'
  BY <1>1 DEF Lcd!Navigate, Lcd!LoadDraft, Lcd!OpenNetwork, Lcd!EditDraft, Lcd!Invalid,
              Lcd!Shutdown
<1>4. ASSUME NEW a \in PanelApp, Later(a, app), NEW loads \in BOOLEAN, NEW p, NEW v \in Views,
             NEW d \in Nat, NEW o \in Nat, NEW c \in BOOLEAN,
             p = [panel EXCEPT !.draft = d, !.original = o, !.conflict = c, !.view = v],
             Lcd!Acts(p, a, loads), panel.view # "recover",
             loads \/ Lcd!Renews(panel.view, v)
               \/ (v \in Lcd!WebViews => panel.view \in Lcd!WebViews)
      PROVE  Watched'
  <2>1. /\ p \in Display /\ p.view = v /\ p.token = panel.token /\ p.webToken = panel.webToken
        /\ p.pending = panel.pending /\ p.ready = panel.ready /\ p.remote = panel.remote
    BY <1>1, <1>4 DEF Display
  <2>2. ~p.remote
    BY <1>1, <1>4, <2>1
  <2> QED
    BY <1>1, <1>4, <2>1, <2>2, KeySound
<1>5. panel.draft \in Nat /\ panel.original \in Nat /\ panel.conflict \in BOOLEAN
      /\ panel.view \in Views
  BY <1>1 DEF Display
<1>6. CASE Lcd!Navigate
  <2>1. PICK n \in Lcd!Navigation :
          n[1] = panel.view /\ Lcd!Acts([panel EXCEPT !.view = n[2]], app, FALSE)
    BY <1>6 DEF Lcd!Navigate
  <2>2. PICK v : v = n[2]
    OBVIOUS
  <2>3. /\ v \in Views /\ panel.view # "recover"
        /\ v \in Lcd!WebViews => panel.view \in Lcd!WebViews \/ Lcd!Renews(panel.view, v)
    BY <2>1, <2>2, ViewsAre
  <2>4. PICK p : p = [panel EXCEPT !.view = v]
    OBVIOUS
  <2>5. p = [panel EXCEPT !.draft = panel.draft, !.original = panel.original,
                          !.conflict = panel.conflict, !.view = v]
    BY <1>1, <2>4 DEF Display
  <2>6. Lcd!Acts(p, app, FALSE)
    BY <2>1, <2>2, <2>4
  <2> QED
    BY <1>1, <1>2, <1>3, <1>4, <1>5, <2>3, <2>5, <2>6 DEF PanelInv
<1>7. CASE Lcd!LoadDraft
  <2>1. PICK v \in {"configPorts", "ntpEdit"} :
          /\ panel.view \in {"menu", "configFields", "system"}
          /\ Lcd!Acts(Lcd!Loaded(v), app, TRUE)
    BY <1>7 DEF Lcd!LoadDraft
  <2>2. PICK p : p = Lcd!Loaded(v)
    OBVIOUS
  <2>3. p = [panel EXCEPT !.draft = app.selected, !.original = panel.original,
                          !.conflict = FALSE, !.view = v]
    BY <1>1, <2>2 DEF Lcd!Loaded, Display
  <2>4. v \in Views
    BY DEF Views, Lcd!TokenViews, Lcd!DraftViews
  <2> QED
    BY <1>1, <1>2, <1>3, <1>4, <1>5, <2>1, <2>2, <2>3, <2>4 DEF PanelInv
<1>8. CASE Lcd!OpenNetwork
  <2>1. panel.view = "network" /\ Lcd!Acts([panel EXCEPT !.view = "networkEdit"], app, FALSE)
    BY <1>8 DEF Lcd!OpenNetwork
  <2>2. PICK p : p = [panel EXCEPT !.view = "networkEdit"]
    OBVIOUS
  <2>3. p = [panel EXCEPT !.draft = panel.draft, !.original = panel.original,
                          !.conflict = panel.conflict, !.view = "networkEdit"]
    BY <1>1, <2>2 DEF Display
  <2>4. "networkEdit" \in Views /\ "networkEdit" \notin Lcd!WebViews
    BY DEF Views, Lcd!TokenViews, Lcd!DraftViews, Lcd!WebViews
  <2> QED
    BY <1>1, <1>2, <1>3, <1>4, <1>5, <2>1, <2>2, <2>3, <2>4 DEF PanelInv
<1>9. CASE Lcd!EditDraft
  <2>1. CASE /\ panel.view = "configFields"
             /\ Lcd!Acts([panel EXCEPT !.original = panel.draft, !.view = "editField"],
                         app, FALSE)
    <3>1. PICK p : p = [panel EXCEPT !.original = panel.draft, !.view = "editField"]
      OBVIOUS
    <3>2. p = [panel EXCEPT !.draft = panel.draft, !.original = panel.draft,
                            !.conflict = panel.conflict, !.view = "editField"]
      BY <1>1, <3>1 DEF Display
    <3>3. "editField" \in Views /\ "editField" \notin Lcd!WebViews
      BY DEF Views, Lcd!TokenViews, Lcd!DraftViews, Lcd!WebViews
    <3> QED
      BY <1>1, <1>2, <1>3, <1>4, <1>5, <2>1, <3>1, <3>2, <3>3 DEF PanelInv
  <2>2. CASE /\ panel.view \in {"editField", "ntpEdit"} /\ app.edits < MaxEdits
             /\ Lcd!Acts([panel EXCEPT !.draft = Lcd!Fresh], [app EXCEPT !.edits = @ + 1], FALSE)
    <3>1. PICK e : e = Lcd!Fresh
      OBVIOUS
    <3>2. e \in Nat /\ e \in 1 .. MaxEdits /\ e = app.edits + 1
      BY <1>1, <2>2, <3>1 DEF Lcd!Fresh
    <3>3. PICK p : p = [panel EXCEPT !.draft = e]
      OBVIOUS
    <3>4. p = [panel EXCEPT !.draft = e, !.original = panel.original,
                            !.conflict = panel.conflict, !.view = panel.view]
      BY <1>1, <3>3 DEF Display
    <3>5. PICK a : a = [app EXCEPT !.edits = @ + 1]
      OBVIOUS
    <3>6. a \in PanelApp /\ Later(a, app)
      BY <1>1, <1>2, <3>2, <3>5 DEF PanelApp, Later
    <3> QED
      BY <1>1, <1>3, <1>4, <1>5, <2>2, <3>1, <3>2, <3>3, <3>4, <3>5, <3>6 DEF PanelInv
  <2>3. CASE /\ panel.view = "editField"
             /\ Lcd!Acts([panel EXCEPT !.draft = panel.original, !.view = "configFields"],
                         app, FALSE)
    <3>1. PICK p : p = [panel EXCEPT !.draft = panel.original, !.view = "configFields"]
      OBVIOUS
    <3>2. p = [panel EXCEPT !.draft = panel.original, !.original = panel.original,
                            !.conflict = panel.conflict, !.view = "configFields"]
      BY <1>1, <3>1 DEF Display
    <3>3. "configFields" \in Views /\ "configFields" \notin Lcd!WebViews
      BY DEF Views, Lcd!TokenViews, Lcd!DraftViews, Lcd!WebViews
    <3> QED
      BY <1>1, <1>2, <1>3, <1>4, <1>5, <2>3, <3>1, <3>2, <3>3 DEF PanelInv
  <2> QED
    BY <1>9, <2>1, <2>2, <2>3 DEF Lcd!EditDraft
<1>10. CASE Lcd!Invalid
  <2>1. PICK v \in {"applyResult", "networkResult", "ntpResult"} :
          /\ panel.view \in {"configFields", "networkEdit", "ntpEdit"}
          /\ Lcd!Acts([panel EXCEPT !.conflict = TRUE, !.view = v], app, FALSE)
    <3>1. PICK u \in {<<"configFields", "applyResult">>, <<"networkEdit", "networkResult">>,
                      <<"ntpEdit", "ntpResult">>} :
            /\ panel.view = u[1]
            /\ Lcd!Acts([panel EXCEPT !.conflict = TRUE, !.view = u[2]], app, FALSE)
      BY <1>10 DEF Lcd!Invalid
    <3>2. PICK x : x = u[2]
      OBVIOUS
    <3>3. x \in {"applyResult", "networkResult", "ntpResult"}
          /\ u[1] \in {"configFields", "networkEdit", "ntpEdit"}
      BY <3>2
    <3>4. Lcd!Acts([panel EXCEPT !.conflict = TRUE, !.view = x], app, FALSE)
      BY <3>1, <3>2
    <3> QED
      BY <3>1, <3>3, <3>4
  <2>2. PICK p : p = [panel EXCEPT !.conflict = TRUE, !.view = v]
    OBVIOUS
  <2>3. p = [panel EXCEPT !.draft = panel.draft, !.original = panel.original,
                          !.conflict = TRUE, !.view = v]
    BY <1>1, <2>2 DEF Display
  <2>4. v \in Views /\ v \notin Lcd!WebViews
    BY DEF Views, Lcd!TokenViews, Lcd!DraftViews, Lcd!WebViews
  <2> QED
    BY <1>1, <1>2, <1>3, <1>4, <1>5, <2>1, <2>2, <2>3, <2>4 DEF PanelInv
<1>11. CASE Lcd!Shutdown
  <2>1. PICK v \in {"stopping", "stopFailed"} :
          panel.view = "shutdown" /\ Lcd!Acts([panel EXCEPT !.view = v], app, FALSE)
    BY <1>11 DEF Lcd!Shutdown
  <2>2. PICK p : p = [panel EXCEPT !.view = v]
    OBVIOUS
  <2>3. p = [panel EXCEPT !.draft = panel.draft, !.original = panel.original,
                          !.conflict = panel.conflict, !.view = v]
    BY <1>1, <2>2 DEF Display
  <2>4. v \in Views /\ v \notin Lcd!WebViews
    BY ViewsAre DEF Lcd!WebViews
  <2> QED
    BY <1>1, <1>2, <1>3, <1>4, <1>5, <2>1, <2>2, <2>3, <2>4 DEF PanelInv
<1> QED
  BY <1>6, <1>7, <1>8, <1>9, <1>10, <1>11

\* A draft, the network or the time is applied: whoever changes the configuration holds the
\* revision of now.
LEMMA AppliesSound ==
    ASSUME PanelInv, Lcd!Apply \/ Lcd!ApplyNetwork \/ Lcd!SetTime
    PROVE  PanelInv'
<1>1. /\ Watched /\ ~blind /\ app \in PanelApp /\ panel \in Display
      /\ app.revision \in 0 .. MaxRevision /\ MaxRevision \in Nat
      /\ panel.remote => panel.view = "recover"
      /\ panel.draft \in Nat /\ panel.conflict \in BOOLEAN
  BY ServicesAssumption
  DEF PanelInv, Watched, PanelSound, PanelApp, Display, PromptSound, ServicesAssumption
<1>2. Later(app, app)
  BY <1>1 DEF Later, PanelApp
<1>3. ~blind' /\ app.revision < MaxRevision
  <2>1. CASE Lcd!Apply
    <3>1. Lcd!Room /\ blind' = blind
      BY <2>1 DEF Lcd!Apply
    <3> QED
      BY <1>1, <3>1 DEF Lcd!Room
  <2>2. CASE Lcd!ApplyNetwork
    BY <1>1, <2>2 DEF Lcd!ApplyNetwork, Lcd!Room
  <2>3. CASE Lcd!SetTime
    BY <1>1, <2>3 DEF Lcd!SetTime, Lcd!Room
  <2> QED
    BY <2>1, <2>2, <2>3
<1>4. ASSUME NEW a \in PanelApp, Later(a, app), NEW p, NEW c \in BOOLEAN,
             NEW v \in {"applyResult", "ntpResult", "networkResult", "page"},
             p = [panel EXCEPT !.conflict = c, !.view = v],
             Lcd!Acts(p, a, FALSE), panel.view # "recover"
      PROVE  Watched'
  <2>1. v \in Views /\ v \notin Lcd!WebViews
    BY DEF Views, Lcd!TokenViews, Lcd!DraftViews, Lcd!WebViews
  <2>2. /\ p \in Display /\ p.view = v /\ p.token = panel.token /\ p.webToken = panel.webToken
        /\ p.pending = panel.pending /\ p.ready = panel.ready /\ p.remote = panel.remote
    BY <1>1, <1>4, <2>1 DEF Display
  <2>3. ~p.remote
    BY <1>1, <1>4, <2>2
  <2> QED
    BY <1>1, <1>4, <2>1, <2>2, <2>3, KeySound
<1>5. PICK w : w = app.revision + 1
  OBVIOUS
<1>6. w \in 0 .. MaxRevision /\ w >= app.revision
  BY <1>1, <1>3, <1>5
<1>7. CASE Lcd!Apply
  <2>1. PICK v \in {"applyResult", "ntpResult"} :
          /\ panel.view \in {"applyConfirm", "ntpConfirm"}
          /\ IF Lcd!Checked(app, panel.token)
             THEN \E r \in Lcd!Requests(app, panel.draft) :
                     Lcd!Acts([panel EXCEPT !.view = v], r[1], FALSE)
             ELSE Lcd!Acts([panel EXCEPT !.conflict = TRUE, !.view = v], app, FALSE)
    <3>1. PICK u \in {<<"applyConfirm", "applyResult">>, <<"ntpConfirm", "ntpResult">>} :
            /\ panel.view = u[1]
            /\ IF Lcd!Checked(app, panel.token)
               THEN \E r \in Lcd!Requests(app, panel.draft) :
                       Lcd!Acts([panel EXCEPT !.view = u[2]], r[1], FALSE)
               ELSE Lcd!Acts([panel EXCEPT !.conflict = TRUE, !.view = u[2]], app, FALSE)
      BY <1>7 DEF Lcd!Apply
    <3>2. PICK x : x = u[2]
      OBVIOUS
    <3>3. x \in {"applyResult", "ntpResult"} /\ u[1] \in {"applyConfirm", "ntpConfirm"}
      BY <3>2
    <3>4. IF Lcd!Checked(app, panel.token)
          THEN \E r \in Lcd!Requests(app, panel.draft) :
                  Lcd!Acts([panel EXCEPT !.view = x], r[1], FALSE)
          ELSE Lcd!Acts([panel EXCEPT !.conflict = TRUE, !.view = x], app, FALSE)
      BY <3>1, <3>2
    <3> QED
      BY <3>1, <3>3, <3>4
  <2>2. CASE Lcd!Checked(app, panel.token)
    <3>1. PICK r \in Lcd!Requests(app, panel.draft) :
            Lcd!Acts([panel EXCEPT !.view = v], r[1], FALSE)
      BY <2>1, <2>2
    <3>2. r[1] \in PanelApp /\ Later(r[1], app)
      BY <1>1, <1>3, RequestsSound
    <3>3. PICK p : p = [panel EXCEPT !.view = v]
      OBVIOUS
    <3>4. p = [panel EXCEPT !.conflict = panel.conflict, !.view = v]
      BY <1>1, <3>3 DEF Display
    <3> QED
      BY <1>1, <1>3, <1>4, <2>1, <3>1, <3>2, <3>3, <3>4 DEF PanelInv
  <2>3. CASE ~Lcd!Checked(app, panel.token)
    BY <1>1, <1>2, <1>3, <1>4, <2>1, <2>3 DEF PanelInv
  <2> QED
    BY <2>2, <2>3
<1>8. CASE Lcd!ApplyNetwork
  <2>1. PICK ok : ok = (/\ Lcd!Checked(app, panel.token) /\ app.network = "idle"
                        /\ ~Lcd!Busy(app.tx))
    OBVIOUS
  <2>2. PICK a : a = IF ok THEN [app EXCEPT !.revision = w, !.network = "trying"] ELSE app
    OBVIOUS
  <2>3. PICK c : c = ~ok
    OBVIOUS
  <2>4. /\ panel.view = "networkConfirm"
        /\ Lcd!Acts([panel EXCEPT !.conflict = c, !.view = "networkResult"], a, FALSE)
    <3>1. a = IF ok THEN [Lcd!Advanced(app) EXCEPT !.network = "trying"] ELSE app
      BY <1>1, <1>5, <2>2 DEF Lcd!Advanced, PanelApp
    <3> QED
      BY <1>8, <2>1, <2>3, <3>1 DEF Lcd!ApplyNetwork
  <2>5. a \in PanelApp /\ Later(a, app)
    <3>1. CASE ok
      <4>1. /\ a \in PanelApp /\ a.tx = app.tx /\ a.selected = app.selected
            /\ a.revision = w
        BY <1>1, <1>6, <2>2, <3>1 DEF PanelApp
      <4> QED
        BY <1>6, <4>1 DEF Later
    <3>2. CASE ~ok
      BY <1>1, <1>2, <2>2, <3>2
    <3> QED
      BY <3>1, <3>2
  <2>6. c \in BOOLEAN
    BY <2>3
  <2> QED
    BY <1>1, <1>3, <1>4, <2>4, <2>5, <2>6 DEF PanelInv
<1>9. CASE Lcd!SetTime
  <2>1. PICK set \in BOOLEAN :
          /\ panel.view = "timeConfirm"
          /\ Lcd!Acts([panel EXCEPT !.view = "page"],
                      IF set /\ Lcd!Checked(app, panel.token) THEN Lcd!Advanced(app) ELSE app,
                      FALSE)
    BY <1>9 DEF Lcd!SetTime
  <2>2. PICK a : a = IF set /\ Lcd!Checked(app, panel.token) THEN Lcd!Advanced(app) ELSE app
    OBVIOUS
  <2>3. a \in PanelApp /\ Later(a, app)
    <3>1. CASE a = Lcd!Advanced(app)
      <4>1. a = [app EXCEPT !.revision = w]
        BY <1>1, <1>5, <3>1 DEF Lcd!Advanced, PanelApp
      <4>2. /\ a \in PanelApp /\ a.tx = app.tx /\ a.selected = app.selected
            /\ a.revision = w
        BY <1>1, <1>6, <4>1 DEF PanelApp
      <4> QED
        BY <1>6, <4>2 DEF Later
    <3>2. CASE a = app
      BY <1>1, <1>2, <3>2
    <3> QED
      BY <2>2, <3>1, <3>2
  <2>4. PICK p : p = [panel EXCEPT !.view = "page"]
    OBVIOUS
  <2>5. p = [panel EXCEPT !.conflict = panel.conflict, !.view = "page"]
    BY <1>1, <2>4 DEF Display
  <2> QED
    BY <1>1, <1>3, <1>4, <2>1, <2>2, <2>3, <2>4, <2>5 DEF PanelInv
<1> QED
  BY <1>7, <1>8, <1>9

\* The page's own change: its receipt is of the revision that it makes.
LEMMA ToggleSound ==
    ASSUME PanelInv, Lcd!Toggle
    PROVE  PanelInv'
<1>1. /\ Watched /\ ~blind /\ app \in PanelApp /\ panel \in Display /\ meant \in Nat
      /\ TokensSound(app, panel, meant) /\ OwnSound(app, panel, meant)
      /\ app.revision \in 0 .. MaxRevision /\ MaxRevision \in Nat
      /\ app.edits \in 1 .. MaxEdits /\ MaxEdits \in Nat
      /\ panel.remote => panel.view = "recover"
      /\ panel.webToken \in Int /\ panel.conflict \in BOOLEAN /\ panel.pending \in BOOLEAN
  BY ServicesAssumption
  DEF PanelInv, Watched, PanelSound, PanelApp, Display, PromptSound, ServicesAssumption
<1>2. /\ ~blind' /\ panel.view \in {"web", "backlight"} /\ app.revision < MaxRevision
      /\ app.edits < MaxEdits
      /\ ~(panel.view = "web" /\ panel.pending)
  BY <1>1 DEF Lcd!Toggle, Lcd!Room
<1>3. ~panel.remote
  BY <1>1, <1>2
<1>4. CASE ~Lcd!Checked(app, panel.token)
  <2>1. Lcd!Acts([panel EXCEPT !.conflict = TRUE], app, FALSE)
    BY <1>4 DEF Lcd!Toggle
  <2>2. PICK p : p = [panel EXCEPT !.conflict = TRUE]
    OBVIOUS
  <2>3. /\ p \in Display /\ p.view = panel.view /\ p.token = panel.token
        /\ p.webToken = panel.webToken /\ p.pending = panel.pending
        /\ p.ready = panel.ready /\ p.remote = panel.remote
    BY <1>1, <2>2 DEF Display
  <2>4. Later(app, app)
    BY <1>1 DEF Later
  <2> QED
    BY <1>1, <1>2, <1>3, <2>1, <2>2, <2>3, <2>4, KeySound DEF PanelInv
<1>5. CASE Lcd!Checked(app, panel.token)
  <2>1. PICK b : b = [app EXCEPT !.edits = @ + 1]
    OBVIOUS
  <2>2. /\ b \in PanelApp /\ b.revision = app.revision /\ b.selected = app.selected
        /\ b.tx = app.tx
    BY <1>1, <1>2, <2>1 DEF PanelApp
  <2>3. PICK web : web = (panel.view = "web")
    OBVIOUS
  <2>4. PICK r \in Lcd!Requests(b, Lcd!Fresh) :
          Lcd!Acts([panel EXCEPT !.conflict = ~web /\ ~r[2], !.pending = web /\ r[2],
                                 !.webToken = IF web /\ r[2] THEN r[1].tx.accepted ELSE @],
                   r[1], FALSE)
    BY <1>5, <2>1, <2>3 DEF Lcd!Toggle
  <2>5. Lcd!Fresh \in Nat
    BY <1>1 DEF Lcd!Fresh
  <2>6. /\ r[1] \in PanelApp /\ Later(r[1], b)
        /\ r[2] => /\ r[1].tx.accepted = r[1].tx.result /\ r[1].tx.accepted <= r[1].revision
                   /\ r[1].tx.state \in {"unchanged", "applying"}
    BY <1>2, <2>2, <2>5, RequestsSound
  <2>7. Later(r[1], app)
    BY <2>2, <2>6 DEF Later
  <2>8. TokensSound(r[1], panel, meant) /\ OwnSound(r[1], panel, meant)
    BY <1>1, <2>6, <2>7, LaterSound
  <2>9. PICK c : c = (~web /\ ~r[2])
    OBVIOUS
  <2>10. PICK e : e = (web /\ r[2])
    OBVIOUS
  <2>11. PICK t : t = IF e THEN r[1].tx.accepted ELSE panel.webToken
    OBVIOUS
  <2>12. PICK p : p = [panel EXCEPT !.conflict = c, !.pending = e, !.webToken = t]
    OBVIOUS
  <2>13. p = [panel EXCEPT !.conflict = ~web /\ ~r[2], !.pending = web /\ r[2],
                           !.webToken = IF web /\ r[2] THEN r[1].tx.accepted ELSE @]
    BY <1>1, <2>9, <2>10, <2>11, <2>12 DEF Display
  <2>14. t \in Int /\ r[1].tx.accepted \in Int
    BY <1>1, <2>6, <2>11 DEF PanelApp, PanelTx
  <2>15. c \in BOOLEAN /\ e \in BOOLEAN
    BY <2>9, <2>10
  <2>16. /\ p \in Display /\ p.view = panel.view /\ p.token = panel.token
         /\ p.webToken = t /\ p.pending = e
         /\ p.ready = panel.ready /\ p.remote = panel.remote
    BY <1>1, <2>12, <2>14, <2>15 DEF Display
  <2>17. t <= r[1].revision
    BY <2>6, <2>8, <2>10, <2>11 DEF TokensSound
  <2>18. TokensSound(r[1], p, meant)
    BY <2>8, <2>16, <2>17 DEF TokensSound
  <2>19. r[1].selected = meant
    BY <1>1, <1>5, <2>7 DEF Lcd!Checked, TokensSound, Later
  <2>20. OwnSound(r[1], p, meant)
    BY <2>19 DEF OwnSound
  <2>21. ReceiptSound(r[1])
    BY <2>18 DEF TokensSound
  <2>22. Lcd!Acts(p, r[1], FALSE)
    BY <2>4, <2>13
  <2>23. ~p.remote
    BY <1>3, <2>16
  <2> QED
    BY <1>1, <1>2, <2>6, <2>16, <2>17, <2>18, <2>20, <2>21, <2>22, <2>23, ActsSound
    DEF PanelInv
<1> QED
  BY <1>4, <1>5

\* Who answers the browser's prompt pressed the key while it was on the display.
LEMMA AnswerSound ==
    ASSUME PanelInv, Lcd!Answer
    PROVE  PanelInv'
<1>1. /\ Watched /\ ~blind /\ app \in PanelApp /\ panel \in Display
      /\ PromptSound(panel, keys, shown) /\ keys \in Seq(BOOLEAN)
      /\ panel.view = "recover"
  BY DEF PanelInv, Watched, PanelSound, Lcd!Answer
<1>2. PICK free : free = [app EXCEPT !.prompt = 0]
  OBVIOUS
<1>3. free \in PanelApp /\ Later(free, app) /\ Later(app, app)
  <2>1. /\ free \in PanelApp /\ free.tx = app.tx /\ free.selected = app.selected
        /\ free.revision = app.revision
    BY <1>1, <1>2 DEF PanelApp
  <2>2. app.revision \in Int
    BY <1>1 DEF PanelApp
  <2> QED
    BY <2>1, <2>2 DEF Later
<1>4. "recover" \in Lcd!WebViews
  BY DEF Lcd!WebViews
<1>5. ASSUME NEW a \in PanelApp, Later(a, app), NEW v \in Views, NEW remote \in BOOLEAN,
             remote => panel.remote /\ v = "recover",
             Lcd!Acts([panel EXCEPT !.view = v, !.remote = remote], a, FALSE)
      PROVE  Watched'
  <2>1. PICK p : p = [panel EXCEPT !.view = v, !.remote = remote]
    OBVIOUS
  <2>2. /\ p \in Display /\ p.view = v /\ p.token = panel.token /\ p.webToken = panel.webToken
        /\ p.pending = panel.pending /\ p.ready = panel.ready /\ p.remote = remote
    BY <1>1, <2>1, <1>5 DEF Display
  <2> QED
    BY <1>1, <1>4, <1>5, <2>1, <2>2, KeySound
<1>6. ASSUME Lcd!Acts([panel EXCEPT !.view = IF panel.remote THEN panel.back ELSE "web",
                                    !.remote = FALSE],
                      IF panel.remote THEN [app EXCEPT !.prompt = 0] ELSE app, FALSE)
      PROVE  Watched'
  <2>1. PICK v : v = IF panel.remote THEN panel.back ELSE "web"
    OBVIOUS
  <2>2. PICK a : a = IF panel.remote THEN free ELSE app
    OBVIOUS
  <2>3. v \in Views
    <3>1. "web" \in Views
      BY DEF Views, Lcd!TokenViews, Lcd!WebViews
    <3> QED
      BY <1>1, <2>1, <3>1 DEF Display
  <2>4. a \in PanelApp /\ Later(a, app)
    BY <1>1, <1>3, <2>2
  <2>5. Lcd!Acts([panel EXCEPT !.view = v, !.remote = FALSE], a, FALSE)
    BY <1>2, <1>6, <2>1, <2>2
  <2> QED
    BY <1>5, <2>3, <2>4, <2>5
<1>7. ASSUME NEW ok \in BOOLEAN,
             Lcd!Acts(IF ok THEN [panel EXCEPT !.view = "code", !.remote = FALSE] ELSE panel,
                      [app EXCEPT !.prompt = 0], FALSE),
             blind' = (blind \/ (panel.remote /\ ~keys[1]))
      PROVE  Watched' /\ ~blind'
  <2>1. Watched'
    <3>1. CASE ok
      <4>1. "code" \in Views
        BY DEF Views, Lcd!TokenViews, Lcd!WebViews
      <4>2. Lcd!Acts([panel EXCEPT !.view = "code", !.remote = FALSE], free, FALSE)
        BY <1>2, <1>7, <3>1
      <4> QED
        BY <1>3, <1>5, <4>1, <4>2
    <3>2. CASE ~ok
      <4>1. Lcd!Acts(panel, free, FALSE)
        BY <1>2, <1>7, <3>2
      <4>2. panel.remote => panel.view = "recover"
        BY <1>1
      <4> QED
        BY <1>1, <1>3, <4>1, <4>2, KeySound
    <3> QED
      BY <3>1, <3>2
  <2>2. Lcd!Answerable
    BY <1>7 DEF Lcd!Acts
  <2>3. keys # <<>> /\ (panel.remote => panel.ready)
    BY <2>2 DEF Lcd!Answerable
  <2>4. 1 \in 1 .. Len(keys)
    BY <1>1, <2>3, LenProperties, EmptySeq
  <2>5. panel.remote => keys[1]
    BY <1>1, <2>3, <2>4 DEF PromptSound
  <2> QED
    BY <1>1, <1>7, <2>1, <2>5
<1>8. CASE /\ Lcd!Acts([panel EXCEPT !.view = IF panel.remote THEN panel.back ELSE "web",
                                      !.remote = FALSE],
                        IF panel.remote THEN [app EXCEPT !.prompt = 0] ELSE app, FALSE)
           /\ UNCHANGED blind
  BY <1>1, <1>6, <1>8 DEF PanelInv
<1>9. CASE /\ \E ok \in BOOLEAN :
                 Lcd!Acts(IF ok THEN [panel EXCEPT !.view = "code", !.remote = FALSE] ELSE panel,
                          [app EXCEPT !.prompt = 0], FALSE)
           /\ blind' = (blind \/ (panel.remote /\ ~keys[1]))
  <2>1. PICK ok \in BOOLEAN :
          Lcd!Acts(IF ok THEN [panel EXCEPT !.view = "code", !.remote = FALSE] ELSE panel,
                   [app EXCEPT !.prompt = 0], FALSE)
    BY <1>9
  <2> QED
    BY <1>7, <1>9, <2>1 DEF PanelInv
<1> QED
  BY <1>8, <1>9 DEF Lcd!Answer

\* A key without a meaning, none, or a keypad that fails.
LEMMA OtherKeySound ==
    ASSUME PanelInv, Lcd!OtherKey
    PROVE  PanelInv'
<1>1. /\ PanelSound(app, panel, meant) /\ keys \in Seq(BOOLEAN) /\ Len(keys) <= KeysMax
      /\ shown \in BOOLEAN /\ PromptSound(panel, keys, shown) /\ ~blind /\ ~blind'
      /\ panel \in Display /\ KeysMax \in Nat
  BY ServicesAssumption
  DEF PanelInv, Watched, PanelSound, Lcd!OtherKey, ServicesAssumption
<1>2. CASE Lcd!Draws(panel, app, meant, keys)
  BY <1>1, <1>2, DrawsSound DEF PanelInv
<1>3. CASE keys # <<>> /\ Lcd!Draws(panel, app, meant, Tail(keys))
  <2>1. /\ Tail(keys) \in Seq(BOOLEAN) /\ Len(Tail(keys)) = Len(keys) - 1
        /\ \A i \in 1 .. Len(Tail(keys)) : Tail(keys)[i] = keys[i + 1]
    BY <1>1, <1>3, TailSound
  <2>2. Len(Tail(keys)) <= KeysMax
    BY <1>1, <2>1, LenProperties
  <2>3. ASSUME panel.remote, panel.ready, NEW i \in 1 .. Len(Tail(keys)) PROVE Tail(keys)[i]
    <3>1. \A k \in 1 .. Len(keys) : keys[k]
      BY <1>1, <2>3 DEF PromptSound
    <3>2. i + 1 \in 1 .. Len(keys) /\ Tail(keys)[i] = keys[i + 1]
      BY <1>1, <2>1, <2>3, LenProperties
    <3> QED
      BY <3>1, <3>2
  <2>4. PromptSound(panel, Tail(keys), shown)
    BY <1>1, <2>3 DEF PromptSound
  <2> QED
    BY <1>1, <1>3, <2>1, <2>2, <2>4, DrawsSound DEF PanelInv
<1>4. CASE Lcd!Draws([panel EXCEPT !.works = "noKeys"], app, meant, keys)
  <2>1. PICK p : p = [panel EXCEPT !.works = "noKeys"]
    OBVIOUS
  <2>2. /\ p \in Display /\ p.view = panel.view /\ p.token = panel.token
        /\ p.webToken = panel.webToken /\ p.pending = panel.pending
        /\ p.ready = panel.ready /\ p.remote = panel.remote
    BY <1>1, <2>1 DEF Display
  <2>3. PanelSound(app, p, meant) /\ PromptSound(p, keys, shown)
    BY <1>1, <2>2 DEF PanelSound, TokensSound, OwnSound, PromptSound
  <2> QED
    BY <1>1, <1>4, <2>1, <2>3, DrawsSound DEF PanelInv
<1> QED
  BY <1>2, <1>3, <1>4 DEF Lcd!OtherKey

\* The panel starts at home, with no token and no key.
LEMMA PanelInit ==
    ASSUME Lcd!Init
    PROVE  PanelInv
<1>1. PICK code \in BOOLEAN :
        app = [selected |-> 1, revision |-> 0, edits |-> 1, network |-> "idle", prompt |-> 0,
               available |-> FALSE, code |-> code, tx |-> Lcd!NoTransaction]
  BY DEF Lcd!Init
<1>2. PICK t : t = 0 - 1
  OBVIOUS
<1>3. t \in Int /\ t < 0 /\ Lcd!NoToken = t
  BY <1>2 DEF Lcd!NoToken
<1>4. Lcd!NoTransaction = [state |-> "idle", candidate |-> 0, accepted |-> t, result |-> t]
  BY <1>3 DEF Lcd!NoTransaction
<1>5. Lcd!NoTransaction \in PanelTx
  BY <1>3, <1>4 DEF PanelTx, TxStates
<1>6. app \in PanelApp
  <2>1. 0 \in 0 .. MaxRevision /\ 1 \in 1 .. MaxEdits
    BY ServicesAssumption DEF ServicesAssumption
  <2> QED
    BY <1>1, <1>5, <2>1 DEF PanelApp
<1>7. panel = [phase |-> "idle", view |-> "home", token |-> t, draft |-> 0,
               original |-> 0, conflict |-> FALSE, pending |-> FALSE, webToken |-> t,
               remote |-> FALSE, ready |-> FALSE, back |-> "home", works |-> "both"]
  BY <1>3 DEF Lcd!Init
<1>8. panel \in Display
  BY <1>3, <1>7, ViewsAre DEF Display
<1>9. TokensSound(app, panel, meant)
  BY <1>1, <1>2, <1>3, <1>4, <1>7 DEF TokensSound, ReceiptSound
<1>10. OwnSound(app, panel, meant)
  BY <1>7 DEF OwnSound
<1>11. /\ meant = 0 /\ keys = <<>> /\ shown = FALSE /\ blind = FALSE /\ KeysMax \in Nat
  BY ServicesAssumption DEF Lcd!Init, ServicesAssumption
<1>12. PanelSound(app, panel, meant)
  BY <1>6, <1>8, <1>9, <1>10, <1>11 DEF PanelSound
<1>13. PromptSound(panel, keys, shown)
  BY <1>7 DEF PromptSound
<1>14. keys \in Seq(BOOLEAN) /\ Len(keys) <= KeysMax /\ shown \in BOOLEAN /\ ~blind
  <2>1. keys = <<>> /\ KeysMax \in Nat
    BY <1>11
  <2>2. keys \in Seq(BOOLEAN) /\ Len(keys) <= KeysMax
    BY <2>1
  <2>3. shown \in BOOLEAN /\ ~blind
    BY <1>11
  <2> QED
    BY <2>2, <2>3
<1> QED
  BY <1>12, <1>13, <1>14 DEF PanelInv, Watched

\* Every step of the panel, the browser and the application keeps the invariant.
LEMMA PanelStep ==
    ASSUME PanelInv, Lcd!Next \/ UNCHANGED panelVars
    PROVE  PanelInv'
<1>1. CASE UNCHANGED panelVars
  <2>1. /\ app' = app /\ panel' = panel /\ keys' = keys /\ shown' = shown
        /\ meant' = meant /\ blind' = blind
    BY <1>1 DEF panelVars
  <2> QED
    BY <2>1 DEF PanelInv, Watched, PanelSound, TokensSound, ReceiptSound, OwnSound, PromptSound
<1>2. CASE Lcd!Next
  BY <1>2, EndSound, OutsideSound, BeginSound, GoesSound, AppliesSound, ToggleSound,
     AnswerSound, OtherKeySound DEF Lcd!Next
<1> QED
  BY <1>1, <1>2

\* What the invariant says to the user.
LEMMA PanelIsSound ==
    ASSUME PanelInv
    PROVE  Lcd!TypeOK /\ Lcd!TokenIsCurrent /\ Lcd!RecoveryIsSeen
<1>1. Lcd!TypeOK
  <2>1. keys \in Seq(BOOLEAN) /\ Len(keys) \in Nat /\ Len(keys) <= KeysMax /\ KeysMax \in Nat
    BY LenProperties, ServicesAssumption DEF PanelInv, Watched, ServicesAssumption
  <2>2. keys \in [1 .. Len(keys) -> BOOLEAN]
    BY <2>1, LenProperties
  <2>3. Len(keys) \in 0 .. KeysMax
    BY <2>1
  <2>4. keys \in UNION {[1 .. n -> BOOLEAN] : n \in 0 .. KeysMax}
    BY <2>2, <2>3
  <2>5. panel \in Display /\ app \in PanelApp
    BY DEF PanelInv, Watched, PanelSound
  <2>6. app.tx.state \in TxStates
    BY <2>5 DEF PanelApp, PanelTx
  <2> QED
    BY <2>4, <2>5, <2>6 DEF Lcd!TypeOK, Display, PanelApp, TxStates
<1>2. Lcd!TokenIsCurrent
  BY DEF Lcd!TokenIsCurrent, Lcd!Checked, PanelInv, Watched, PanelSound, TokensSound
<1>3. Lcd!RecoveryIsSeen
  BY DEF Lcd!RecoveryIsSeen, PanelInv, Watched, PromptSound
<1> QED
  BY <1>1, <1>2, <1>3

-----------------------------------------------------------------------------
(* Theorems.                                                                 *)

\* A step of Services is one of a part, or leaves it as it is.
LEMMA Others ==
    ASSUME [Next]_vars
    PROVE  /\ Time!Next \/ UNCHANGED timeVars
           /\ Web!Next \/ UNCHANGED webVars
           /\ Uart!Next \/ UNCHANGED uartVars
           /\ Seed!Next \/ UNCHANGED seedVars
           /\ Lcd!Next \/ UNCHANGED panelVars
  BY DEF Next, ServesUart, ServesSeed, ServesTime, ServesPanel, ServesLease, ServesOwner,
         ServesBindings, ServesWeb, vars

\* The state of the clock and of its helper is sound in every behaviour (TimeSync).
THEOREM ClockInvariance == Spec => []ClockInv
<1>1. Init => ClockInv
  BY ClockInit DEF Init
<1>2. ClockInv /\ [Next]_vars => ClockInv'
  BY ClockStep, Others
<1> QED
  BY <1>1, <1>2, PTL DEF Spec

\* What the application tells of the clock is what was done to it, no helper is left
\* behind, and a test of the server ends (TimeSync).
THEOREM ClockIsTrue == Spec => []ClockIsTold
<1>1. ClockInv => ClockIsTold
  BY DEF ClockInv, Sound, Truthful, Minded, Bounded, NtpType, Told, ClockIsTold,
         Time!TypeOK, Time!TrustIsTrue, Time!HelperIsMinded, Time!TestIsBounded
<1> QED
  BY <1>1, ClockInvariance, PTL

\* The state of the web gateway is sound in every behaviour (WebGateway).
THEOREM WebInvariance == Spec => []WebInv
<1>1. Init => WebInv
  BY WebInit DEF Init
<1>2. WebInv /\ [Next]_vars => WebInv'
  BY WebStep, Others
<1> QED
  BY <1>1, <1>2, PTL DEF Spec

\* A session stands on the password that is stored, and an answer goes to the connection
\* that asked for it (WebGateway).
THEOREM SessionsHold == Spec => []SessionsAreSound
<1>1. WebInv => SessionsAreSound
  <2> SUFFICES ASSUME WebInv PROVE SessionsAreSound
    OBVIOUS
  <2>1. Web!TypeOK
    BY AllSound DEF WebInv, Web!TypeOK, Web!Commits, AccountType, GateType, BrokerType, ConfigType
  <2>2. Web!SessionIsSound
    BY AllSound DEF Web!SessionIsSound, Trusted, Web!Commits
  <2>3. Web!AnswerReachesAsker
    BY AllSound DEF Web!AnswerReachesAsker, Asked
  <2> QED
    BY <2>1, <2>2, <2>3 DEF SessionsAreSound
<1> QED
  BY <1>1, WebInvariance, PTL

\* A broker that failed is not started again by the web gateway (WebGateway).
THEOREM FailureStays == Spec => Web!FailureIsFinal
<1>1. WebInv /\ [Next]_vars =>
        [broker.process = Web!None /\ broker'.process # Web!None => ~broker.failed]_(Web!webVars)
  BY WebStep, Others DEF Web!webVars, webVars
<1> QED
  BY <1>1, WebInvariance, PTL DEF Web!FailureIsFinal, Spec

\* The line of a port is sound in every behaviour (UartBackend).
THEOREM UartInvariance == Spec => []UartInv
<1>1. Init => UartInv
  BY UartInit DEF Init
<1>2. UartInv /\ [Next]_vars => UartInv'
  BY UartStep, Others
<1> QED
  BY <1>1, <1>2, PTL DEF Spec

\* No byte that waited on the line at a recovery is in the answer to a later request, and a
\* port that serves has its line set as it is configured (UartBackend).
THEOREM LineHolds == Spec => []LineIsClean
<1>1. UartInv => LineIsClean
  <2> SUFFICES ASSUME UartInv PROVE LineIsClean
    OBVIOUS
  <2>1. Uart!TypeOK
    BY UartParts DEF Uart!TypeOK, UartInv, LineInv, WellSet, Operation
  <2>2. Uart!AnswerIsFresh
    <3>1. uart.active.rx \in Seq(LineBytes(recoveries))
      BY UartParts DEF Operation
    <3>2. \A i \in DOMAIN uart.active.rx : uart.active.rx[i] \in LineBytes(recoveries)
      BY <3>1, ElementOfSeq, LenProperties
    <3> QED
      BY <3>2 DEF Uart!AnswerIsFresh, LineBytes
  <2>3. Uart!LineFits
    BY UartParts DEF Uart!LineFits, WellSet
  <2> QED
    BY <2>1, <2>2, <2>3 DEF LineIsClean
<1> QED
  BY <1>1, UartInvariance, PTL

\* A stop that reports no error has set the line back to what the open found
\* (UartBackend).
THEOREM StopSets == Spec => Uart!StopRestores
<1>1. UartInv /\ [Next]_vars =>
        [phase = "stopping" /\ phase' = "stopped" /\ uart.opened =>
           /\ hardware'.termios = uart.saved.termios /\ hardware'.mode = uart.saved.mode
           /\ uart.saved.termios \in SpecialSettings
                => hardware'.special = uart.saved.special]_(Uart!uartVars)
  BY StopSetsBack, Others DEF Uart!uartVars, uartVars
<1> QED
  BY <1>1, UartInvariance, PTL DEF Uart!StopRestores, Spec

\* The files of the seed, what a loss of power leaves of them, and the programs that work
\* on them are sound in every behaviour (RngSeed).
THEOREM SeedInvariance == Spec => []SeedInv
<1>1. Init => SeedInv
  BY SeedInit DEF Init
<1>2. SeedInv /\ [Next]_vars => SeedInv'
  BY SeedStep, Others
<1> QED
  BY <1>1, <1>2, PTL DEF Spec

\* No seed is served twice, also after a loss of power at any step of a reservation, and a
\* loss of power alone asks for no service (RngSeed).
THEOREM SeedNeverTwice == Spec => []SeedHolds
<1>1. SeedInv => SeedHolds
  BY SeedIsSound DEF SeedHolds
<1> QED
  BY <1>1, SeedInvariance, PTL

\* While nobody holds the lock, the files of an uncertain seed change only by a loss of power
\* or a failure (RngSeed).
THEOREM UncertainKept == Spec => Seed!UncertainIsKept
<1>1. SeedInv /\ [Next]_vars =>
        [(/\ disk.state.schema = 3 /\ Seed!Uncertain(disk) /\ disk' # disk
          /\ lock = Seed!Nobody) => troubles' # troubles]_(Seed!rngVars)
  BY UncertainStays, Others DEF Seed!rngVars, seedVars, Seed!Nobody
<1> QED
  BY <1>1, SeedInvariance, PTL DEF Seed!UncertainIsKept, Spec

\* The panel, its keys and the application it shares the configuration with are sound in
\* every behaviour (Panel).
THEOREM PanelInvariance == Spec => []PanelInv
<1>1. Init => PanelInv
  BY PanelInit DEF Init
<1>2. PanelInv /\ [Next]_vars => PanelInv'
  BY PanelStep, Others
<1> QED
  BY <1>1, <1>2, PTL DEF Spec

\* A token of the panel that passes the check stands for the configuration that is
\* selected, and who confirms a recovery has seen the prompt (Panel).
THEOREM PanelHolds == Spec => []PanelIsTrue
<1>1. PanelInv => PanelIsTrue
  BY PanelIsSound DEF PanelIsTrue
<1> QED
  BY <1>1, PanelInvariance, PTL

\* A port that is stopped has its line set as it was found, an uncertain write of the seed
\* is never taken for a certain one, and a broker that failed is not started again
\* (UartBackend, RngSeed, WebGateway).
THEOREM NothingForgotten == Spec => NothingIsForgotten
  BY StopSets, UncertainKept, FailureStays, PTL DEF NothingIsForgotten
=============================================================================
