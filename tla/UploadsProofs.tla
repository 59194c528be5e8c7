---------------------------- MODULE UploadsProofs ----------------------------
(***************************************************************************)
(* Theorems about the uploads and the rate limit that counts them: any     *)
(* owners, files, limits and windows, any number of accept calls at once,  *)
(* and a disk that a redeployment may empty at any moment.                 *)
(***************************************************************************)
EXTENDS Uploads, SumLemmas

-----------------------------------------------------------------------------
(* The inductive invariant, part by part.                                   *)

\* The counters of the limit, and who was let through in which minute.
RateType ==
  /\ counters \in [Keys -> [count: Nat, expiresAt: Nat]]
  /\ minute \in Minutes
  /\ admitted \in [Keys -> [Minutes -> Nat]]

\* The minutes of the window that starts in m.
WindowAt(m) == {n \in Minutes: m <= n /\ n < m + Window}

\* The counter of a key holds the calls since it last ran out: nothing was let
\* through later than the call it last heard, and a window that goes past that
\* call holds no more than was counted, for the calls before ran out.
Counted(k) ==
  /\ counters[k].expiresAt <= minute + Window
  /\ \A n \in Minutes: n + Window > counters[k].expiresAt => admitted[k][n] = 0
  /\ \A m \in Minutes: m + Window + Window > counters[k].expiresAt => AdmittedIn(k, WindowAt(m)) <= counters[k].count
LimitHolds(k) == \A m \in Minutes: AdmittedIn(k, WindowAt(m)) <= Limit[k]
RateInv == RateType /\ \A k \in Keys: Counted(k) /\ LimitHolds(k)

\* A call past the inspection has a name of its own: its content is on the
\* disk under it and, once it is saved, in the row as well.
CallStands(c) ==
  LET call == calls[c] IN
  /\ call.at = "counted" => call.id = None
  /\ call.at \in {"written", "saved"} =>
       /\ call.id \in Ids \ {None} /\ disk[call.id] = call.content
       /\ rows[call.id] # None <=> call.at = "saved"
       /\ \A d \in Calls \ {c}: calls[d] # Idle => calls[d].id # call.id

\* What is on the disk passed the inspection, and a row says what was written.
KeptStands(i) ==
  /\ disk[i] # None => Inspect(disk[i])
  /\ rows[i] # None => Inspect(rows[i].content) /\ disk[i] \in {rows[i].content, None}

FilesInv ==
  /\ UploadsTypeOK /\ DiskIsAccountedFor
  /\ \A c \in Calls: CallStands(c)
  /\ \A i \in Ids: KeptStands(i)

-----------------------------------------------------------------------------
(* The rate limit.                                                          *)


\* What a set of minutes let through is a number; of quiet minutes, zero.
LEMMA AdmittedNat ==
  ASSUME RateType, NEW k \in Keys, NEW S \in SUBSET Minutes
  PROVE  /\ Summable([n \in S |-> admitted[k][n]])
         /\ AdmittedIn(k, S) \in Nat
         /\ (\A n \in S: admitted[k][n] = 0) => AdmittedIn(k, S) = 0
  <1> DEFINE f == [n \in S |-> admitted[k][n]]
  <1>1. IsFiniteSet(Minutes)
    BY RateLimitAssumption, FS_Interval DEF Minutes
  <1>2. Summable(f) /\ \A n \in DOMAIN f: f[n] >= 0
    BY <1>1, FS_Subset DEF Summable, RateType
  <1>3. (\A n \in S: admitted[k][n] = 0) => \A n \in DOMAIN f: f[n] = 0
    OBVIOUS
  <1>4. AdmittedIn(k, S) = SumFunction(f)
    BY DEF AdmittedIn
  <1> HIDE DEF f
  <1>5. SumFunction(f) \in Int /\ SumFunction(f) >= 0
    BY <1>2, SumInt, SumSign
  <1>6. (\A n \in DOMAIN f: f[n] = 0) => SumFunction(f) = 0
    BY <1>2, SumSign
  <1>7. Summable([n \in S |-> admitted[k][n]])
    BY <1>2 DEF f
  <1>. QED
    BY <1>3, <1>4, <1>5, <1>6, <1>7

\* One call more or none is let through, in the minute it is.
LEMMA AdmitAdds ==
  ASSUME RateType, NEW k \in Keys, NEW yes \in BOOLEAN, Admit(k, yes), NEW S \in SUBSET Minutes
  PROVE  AdmittedIn(k, S)' = AdmittedIn(k, S) + (IF yes /\ minute \in S THEN 1 ELSE 0)
  <1>1. /\ admitted[k] \in [Minutes -> Nat] /\ minute \in Minutes
        /\ admitted' = IF yes THEN [admitted EXCEPT ![k][minute] = @ + 1] ELSE admitted
    BY DEF Admit, RateType
  <1> DEFINE f == [n \in S |-> admitted[k][n]]
             g == [n \in S |-> admitted'[k][n]]
  <1>2. Summable(f) /\ AdmittedIn(k, S) = SumFunction(f) /\ AdmittedIn(k, S)' = SumFunction(g)
    BY AdmittedNat DEF AdmittedIn
  <1>3. DOMAIN f = S /\ DOMAIN g = S /\ \A n \in S: f[n] = admitted[k][n] /\ g[n] = admitted'[k][n]
    OBVIOUS
  <1> HIDE DEF f, g
  <1>4. SumFunction(f) \in Int
    BY <1>2, SumInt
  <1>5. CASE yes /\ minute \in S
    <2>1. admitted'[k] = [admitted[k] EXCEPT ![minute] = @ + 1]
      BY <1>1, <1>5 DEF RateType
    <2>2. g[minute] = f[minute] + 1 /\ f[minute] \in Nat /\ \A n \in S \ {minute}: g[n] = f[n]
      BY <1>1, <1>3, <1>5, <2>1
    <2>3. SumFunction(g) = SumFunction(f) - f[minute] + g[minute]
      BY <1>2, <1>3, <1>5, <2>2, SumChange
    <2>. QED
      BY <1>2, <1>4, <1>5, <2>2, <2>3
  <1>6. CASE ~(yes /\ minute \in S)
    <2>1. \A n \in S: admitted'[k][n] = admitted[k][n]
      BY <1>1, <1>6 DEF RateType
    <2>2. SumFunction(f) = SumFunction(g)
      BY <1>2, <1>3, <2>1, SumAgree DEF Summable
    <2>. QED
      BY <1>2, <1>4, <1>6, <2>2
  <1>. QED
    BY <1>5, <1>6

\* What a counted call does to the keys.
LEMMA ConsumeDoes ==
  ASSUME RateType, NEW k \in Keys, NEW heard \in BOOLEAN, Consume(k, heard)
  PROVE  /\ RateType' /\ minute' = minute
         /\ counters'[k] = [count |-> Incr(k), expiresAt |-> minute + Window]
         /\ \A j \in Keys: j # k => counters'[j] = counters[j] /\ admitted'[j] = admitted[j]
         /\ \A n \in Minutes: n # minute => admitted'[k][n] = admitted[k][n]
  <1>1. counters[k].count \in Nat /\ Incr(k) \in Nat /\ minute \in Minutes /\ minute \in Nat /\ Window \in Nat
    BY RateLimitAssumption DEF RateType, Incr, Minutes
  <1>2. /\ counters' = [counters EXCEPT ![k] = [count |-> Incr(k), expiresAt |-> minute + Window]]
        /\ minute' = minute
        /\ admitted' = [admitted EXCEPT ![k][minute] = @ + 1] \/ admitted' = admitted
    BY DEF Consume, Count, Admit
  <1>3. [count |-> Incr(k), expiresAt |-> minute + Window] \in [count: Nat, expiresAt: Nat]
    BY <1>1
  <1>4. admitted' \in [Keys -> [Minutes -> Nat]]
    <2> DEFINE row == [admitted[k] EXCEPT ![minute] = @ + 1]
    <2>1. row \in [Minutes -> Nat]
      BY <1>1 DEF RateType
    <2>2. admitted' = [admitted EXCEPT ![k] = row] \/ admitted' = admitted
      BY <1>2
    <2> HIDE DEF row
    <2>. QED
      BY <2>1, <2>2 DEF RateType
  <1>5. counters' \in [Keys -> [count: Nat, expiresAt: Nat]]
    BY <1>2, <1>3 DEF RateType
  <1>6. /\ \A j \in Keys: j # k => counters'[j] = counters[j] /\ admitted'[j] = admitted[j]
        /\ \A n \in Minutes: n # minute => admitted'[k][n] = admitted[k][n]
    BY <1>1, <1>2 DEF RateType
  <1>. QED
    BY <1>2, <1>4, <1>5, <1>6 DEF RateType

\* The invariant of a key that a step leaves as it is.
LEMMA KeyStands ==
  ASSUME RateInv, NEW k \in Keys, counters'[k] = counters[k], admitted'[k] = admitted[k],
         minute' \in Nat, minute <= minute'
  PROVE  Counted(k)' /\ LimitHolds(k)'
  <1>1. \A S: AdmittedIn(k, S)' = AdmittedIn(k, S)
    BY DEF AdmittedIn
  <1>2. counters[k].expiresAt \in Nat /\ minute \in Nat /\ Window \in Nat
    BY RateLimitAssumption DEF RateInv, RateType, Minutes
  <1>3. \A m: WindowAt(m)' = WindowAt(m)
    BY DEF WindowAt
  <1>. QED
    BY <1>1, <1>2, <1>3 DEF RateInv, Counted, LimitHolds

LEMMA ConsumeKeeps ==
  ASSUME RateInv, NEW k \in Keys, NEW heard \in BOOLEAN, Consume(k, heard)
  PROVE  RateInv'
  <1>0. RateType /\ Counted(k) /\ LimitHolds(k)
    BY DEF RateInv
  <1>1. /\ RateType' /\ minute' = minute
        /\ counters'[k] = [count |-> Incr(k), expiresAt |-> minute + Window]
        /\ \A j \in Keys: j # k => counters'[j] = counters[j] /\ admitted'[j] = admitted[j]
        /\ \A n \in Minutes: n # minute => admitted'[k][n] = admitted[k][n]
    BY <1>0, ConsumeDoes
  <1> DEFINE yes == heard /\ Allowed(k)
             sum(m) == AdmittedIn(k, WindowAt(m))
             expires == counters[k].expiresAt
             count == counters[k].count
  <1>2. \A m \in Minutes: WindowAt(m) \in SUBSET Minutes
    BY DEF WindowAt
  <1>3. \A m \in Minutes: /\ sum(m) \in Nat
                          /\ sum(m)' = sum(m) + (IF yes /\ minute \in WindowAt(m) THEN 1 ELSE 0)
    <2>1. Admit(k, yes) /\ yes \in BOOLEAN
      BY DEF Consume, Allowed
    <2> SUFFICES ASSUME NEW m \in Minutes
                 PROVE  /\ AdmittedIn(k, WindowAt(m)) \in Nat
                        /\ AdmittedIn(k, WindowAt(m))' = AdmittedIn(k, WindowAt(m))
                             + (IF yes /\ minute \in WindowAt(m) THEN 1 ELSE 0)
      OBVIOUS
    <2>2. PICK S \in SUBSET Minutes: S = WindowAt(m)
      BY <1>2
    <2>3. WindowAt(m)' = S
      BY <2>2 DEF WindowAt
    <2>4. AdmittedIn(k, WindowAt(m))' = AdmittedIn(k, S)'
      BY <2>3 DEF AdmittedIn
    <2> HIDE DEF yes
    <2>. QED
      BY <1>0, <2>1, <2>2, <2>4, AdmittedNat, AdmitAdds
  <1>4. /\ \A n \in Minutes: n \in Nat
        /\ expires \in Nat /\ count \in Nat /\ minute \in Minutes /\ Window \in Nat \ {0} /\ Limit[k] \in Nat
    BY <1>0, RateLimitAssumption DEF RateType, Minutes
  <1>5. \A m \in Minutes: minute \in WindowAt(m) <=> m <= minute /\ minute < m + Window
    BY <1>4 DEF WindowAt
  <1>6. \A m \in Minutes: m + Window > minute => sum(m) + 1 <= Incr(k)
    <2> SUFFICES ASSUME NEW m \in Minutes, m + Window > minute PROVE sum(m) + 1 <= Incr(k)
      OBVIOUS
    <2>1. CASE expires > minute
      <3>1. m + Window + Window > expires
        BY <1>0, <1>4 DEF Counted
      <3>2. sum(m) <= count
        BY <1>0, <3>1 DEF Counted
      <3>3. Incr(k) = count + 1
        BY <2>1 DEF Incr
      <3> HIDE DEF sum, count
      <3>. QED
        BY <1>3, <1>4, <3>2, <3>3
    <2>2. CASE ~(expires > minute)
      <3>1. \A n \in WindowAt(m): admitted[k][n] = 0
        <4> SUFFICES ASSUME NEW n \in Minutes, m <= n PROVE admitted[k][n] = 0
          BY DEF WindowAt
        <4>1. n + Window > expires
          BY <1>4, <2>2
        <4>. QED
          BY <1>0, <4>1 DEF Counted
      <3>2. sum(m) = 0
        BY <1>0, <1>2, <3>1, AdmittedNat
      <3>3. Incr(k) = 1
        BY <2>2 DEF Incr
      <3>. QED
        BY <3>2, <3>3
    <2>. QED
      BY <2>1, <2>2
  <1>7. Counted(k)'
    <2>1. counters'[k].expiresAt = minute + Window /\ counters'[k].count = Incr(k)
      BY <1>1
    <2>2. ASSUME NEW n \in Minutes, n + Window > minute + Window PROVE admitted'[k][n] = 0
      <3>1. n # minute /\ n + Window > expires
        BY <1>0, <1>4, <2>2 DEF Counted
      <3>. QED
        BY <1>0, <1>1, <3>1 DEF Counted
    <2>3. ASSUME NEW m \in Minutes, m + Window + Window > minute + Window PROVE sum(m)' <= Incr(k)
      <3>1. m + Window > minute
        BY <1>4, <2>3
      <3>2. sum(m) + 1 <= Incr(k) /\ sum(m) \in Nat /\ Incr(k) \in Nat
        BY <1>3, <1>4, <1>6, <3>1 DEF Incr
      <3> HIDE DEF sum, yes
      <3>. QED
        BY <1>3, <3>2
    <2>4. minute' + Window = minute + Window /\ minute + Window \in Nat
      BY <1>1, <1>4
    <2>. QED
      BY <2>1, <2>2, <2>3, <2>4 DEF Counted
  <1>8. LimitHolds(k)'
    <2> SUFFICES ASSUME NEW m \in Minutes PROVE sum(m)' <= Limit[k]
      BY DEF LimitHolds
    <2>1. sum(m) <= Limit[k]
      BY <1>0 DEF LimitHolds
    <2>2. CASE yes /\ minute \in WindowAt(m)
      <3>1. sum(m) + 1 <= Incr(k) /\ Incr(k) <= Limit[k] /\ Incr(k) \in Nat
        BY <1>4, <1>5, <1>6, <2>2 DEF Allowed, Incr
      <3> HIDE DEF sum, yes
      <3>. QED
        BY <1>3, <1>4, <2>2, <3>1
    <2>3. CASE ~(yes /\ minute \in WindowAt(m))
      <3> HIDE DEF sum, yes
      <3>. QED
        BY <1>3, <2>1, <2>3
    <2>. QED
      BY <2>2, <2>3
  <1>9. \A j \in Keys: j # k => Counted(j)' /\ LimitHolds(j)'
    <2>1. minute' \in Nat /\ minute <= minute'
      BY <1>1, <1>4
    <2>. QED
      BY <1>1, <2>1, KeyStands
  <1>. QED
    BY <1>1, <1>7, <1>8, <1>9 DEF RateInv


\* The rate limit on its own: a counted call, the clock, anything else.
RateStep ==
  \/ \E k \in Keys, heard \in BOOLEAN: Consume(k, heard)
  \/ Tick
  \/ UNCHANGED rateVars

LEMMA RateKept ==
  ASSUME RateInv, RateStep
  PROVE  RateInv'
  <1>1. CASE \E k \in Keys, heard \in BOOLEAN: Consume(k, heard)
    BY <1>1, ConsumeKeeps
  <1>2. CASE Tick \/ UNCHANGED rateVars
    <2>1. counters' = counters /\ admitted' = admitted /\ minute' \in Minutes /\ minute <= minute'
      BY <1>2, RateLimitAssumption DEF Tick, rateVars, RateInv, RateType, Minutes
    <2>2. minute' \in Nat /\ RateType'
      BY <2>1, RateLimitAssumption DEF RateInv, RateType, Minutes
    <2>. QED
      BY <2>1, <2>2, KeyStands DEF RateInv
  <1>. QED
    BY <1>1, <1>2 DEF RateStep

LEMMA RateStarts == RateInit => RateInv
  <1> SUFFICES ASSUME RateInit PROVE RateInv
    OBVIOUS
  <1>1. RateType /\ minute = 0
    BY RateLimitAssumption DEF RateInit, RateType, Minutes
  <1>2. \A k \in Keys, m \in Minutes: AdmittedIn(k, WindowAt(m)) = 0
    <2> SUFFICES ASSUME NEW k \in Keys, NEW m \in Minutes PROVE AdmittedIn(k, WindowAt(m)) = 0
      OBVIOUS
    <2>1. WindowAt(m) \in SUBSET Minutes /\ \A n \in WindowAt(m): admitted[k][n] = 0
      BY DEF RateInit, WindowAt
    <2>. QED
      BY <1>1, <2>1, AdmittedNat
  <1>3. \A k \in Keys: counters[k].count = 0 /\ counters[k].expiresAt = 0 /\ Limit[k] \in Nat
    BY RateLimitAssumption DEF RateInit
  <1>4. \A k \in Keys, n \in Minutes: admitted[k][n] = 0
    BY DEF RateInit
  <1>5. \A k \in Keys: Counted(k) /\ LimitHolds(k)
    BY <1>1, <1>2, <1>3, <1>4, RateLimitAssumption DEF Counted, LimitHolds
  <1>. QED
    BY <1>1, <1>5 DEF RateInv

LEMMA NextCounts ==
  ASSUME [Next]_vars
  PROVE  RateStep
  BY UploadsAssumption DEF Next, CountUpload, WriteFile, SaveRow, AuditUpload, Die, Redeploy, RateStep, vars

\* No window of the limiter's length, wherever it starts, lets more than the
\* limit of a user's uploads through, whatever replies are lost: the expiry
\* that every call moves on makes the counter hold all of a burst.
THEOREM LimitsAreKept == Spec => []WindowsHold
  <1>1. Init => RateInv
    BY RateStarts DEF Init, UploadsInit
  <1>2. RateInv /\ [Next]_vars => RateInv'
    BY NextCounts, RateKept
  <1>3. RateInv => WindowsHold
    BY DEF RateInv, LimitHolds, WindowsHold, WindowAt
  <1>. QED
    BY <1>1, <1>2, <1>3, PTL DEF Spec



-----------------------------------------------------------------------------
(* The files.                                                               *)

Accepting == [at: {"counted", "written", "saved"}, owner: Owners, content: Photos, id: Ids \cup {None}]
Put(c, x) == calls' = [calls EXCEPT ![c] = x]

LEMMA CallIs ==
  ASSUME UploadsTypeOK, NEW c \in Calls
  PROVE  /\ calls[c] = Idle \/ calls[c] \in Accepting
         /\ calls[c].at \in {"counted", "written", "saved"} => calls[c] \in Accepting
         /\ calls[c] # Idle => calls[c].at \in {"counted", "written", "saved"}
         /\ Idle.at = "idle"
  BY DEF UploadsTypeOK, Accepting, Idle

\* The other calls stand when a step leaves their files alone and takes none
\* of their names.
LEMMA OthersStand ==
  ASSUME FilesInv, NEW c \in Calls, NEW x, Put(c, x),
         \A d \in Calls \ {c}: calls[d].at \in {"written", "saved"} =>
           /\ disk'[calls[d].id] = disk[calls[d].id]
           /\ rows'[calls[d].id] # None <=> rows[calls[d].id] # None
           /\ x = Idle \/ x.id # calls[d].id
  PROVE  \A d \in Calls \ {c}: CallStands(d)'
  <1>1. calls'[c] = x /\ \A d \in Calls \ {c}: calls'[d] = calls[d]
    BY DEF FilesInv, UploadsTypeOK, Put
  <1> SUFFICES ASSUME NEW d \in Calls \ {c} PROVE CallStands(d)'
    OBVIOUS
  <1>2. CallStands(d)
    BY DEF FilesInv
  <1>. QED
    BY <1>1, <1>2 DEF CallStands

\* A name made for a file is not None and nobody's yet.
NewName(c, i) ==
  /\ rows[i] = None /\ disk[i] = None
  /\ \A d \in Calls: calls[d] # Idle => calls[d].id # i

LEMMA CountKeeps ==
  ASSUME FilesInv, counters' \in [Keys -> [count: Nat, expiresAt: Nat]],
         NEW c \in Calls, NEW o \in Owners, NEW f \in Photos, NEW heard \in BOOLEAN, CountUpload(c, o, f, heard)
  PROVE  FilesInv'
  <1> DEFINE x == [at |-> "counted", owner |-> o, content |-> f, id |-> None]
  <1>1. /\ calls[c] = Idle
        /\ calls' = calls \/ Put(c, x)
        /\ UNCHANGED <<disk, rows, audits, died>>
    BY DEF CountUpload, Put
  <1>2. x \in Accepting /\ x.at = "counted" /\ x.id = None
    BY DEF Accepting
  <1> HIDE DEF x
  <1>3. CASE calls' = calls
    BY <1>1, <1>3 DEF FilesInv, UploadsTypeOK, DiskIsAccountedFor, CallStands, KeptStands
  <1>4. CASE Put(c, x)
    <2>1. calls'[c] = x /\ \A d \in Calls \ {c}: calls'[d] = calls[d]
      BY <1>4 DEF FilesInv, UploadsTypeOK, Put
    <2>2. UploadsTypeOK'
      BY <1>1, <1>2, <1>4 DEF FilesInv, UploadsTypeOK, Put, Accepting
    <2>3. DiskIsAccountedFor'
      <3>0. calls[c].at = "idle"
        BY <1>1, CallIs DEF FilesInv
      <3>1. \A d \in Calls: calls[d].at = "written" => calls'[d] = calls[d]
        BY <2>1, <3>0
      <3>. QED
        BY <1>1, <3>1 DEF FilesInv, DiskIsAccountedFor
    <2>4. \A d \in Calls \ {c}: CallStands(d)'
      <3>1. \A d \in Calls \ {c}: calls[d].at \in {"written", "saved"} => x.id # calls[d].id
        BY <1>2 DEF FilesInv, CallStands
      <3>. QED
        BY <1>1, <1>4, <3>1, OthersStand
    <2>5. CallStands(c)'
      BY <1>2, <2>1 DEF CallStands
    <2>6. \A i \in Ids: KeptStands(i)'
      BY <1>1 DEF FilesInv, KeptStands
    <2>. QED
      BY <2>2, <2>3, <2>4, <2>5, <2>6 DEF FilesInv
  <1>. QED
    BY <1>1, <1>3, <1>4

\* A call that ends, done, refused or dead, leaves the files; what it wrote
\* without a row is accounted for by its owner in died.
LEMMA EndKeeps ==
  ASSUME FilesInv, counters' = counters, NEW c \in Calls, Put(c, Idle), UNCHANGED <<disk, rows>>,
         audits' \subseteq Ids, died' \subseteq Owners, died \subseteq died', calls[c].at = "written" => died' # {}
  PROVE  FilesInv'
  <1>1. calls'[c] = Idle /\ \A d \in Calls \ {c}: calls'[d] = calls[d]
    BY DEF FilesInv, UploadsTypeOK, Put
  <1>2. UploadsTypeOK'
    BY DEF FilesInv, UploadsTypeOK, Put
  <1>3. DiskIsAccountedFor'
    <2> SUFFICES ASSUME NEW i \in Ids, disk[i] # None, rows[i] = None, died' = {}
                 PROVE  \E d \in Calls: calls'[d].at = "written" /\ calls'[d].id = i
      BY DEF DiskIsAccountedFor
    <2>1. PICK d \in Calls: calls[d].at = "written" /\ calls[d].id = i
      BY DEF FilesInv, DiskIsAccountedFor
    <2>. QED
      BY <1>1, <2>1
  <1>4. \A d \in Calls \ {c}: CallStands(d)'
    BY OthersStand
  <1>5. CallStands(c)'
    BY <1>1 DEF CallStands, Idle
  <1>6. \A i \in Ids: KeptStands(i)'
    BY DEF FilesInv, KeptStands
  <1>. QED
    BY <1>2, <1>3, <1>4, <1>5, <1>6 DEF FilesInv

LEMMA WriteKeeps ==
  ASSUME FilesInv, NEW c \in Calls, WriteFile(c)
  PROVE  FilesInv'
  <1>1. /\ calls[c].at = "counted" /\ calls[c] \in Accepting /\ calls[c] # Idle /\ calls[c].id = None
        /\ UNCHANGED <<counters, rows, audits, died>>
    BY CallIs DEF WriteFile, FilesInv, CallStands, rateVars
  <1>2. CASE ~Inspect(calls[c].content)
    <2>1. Put(c, Idle) /\ disk' = disk
      BY <1>2 DEF WriteFile, Put
    <2>. QED
      BY <1>1, <2>1, EndKeeps DEF FilesInv, UploadsTypeOK
  <1>3. CASE Inspect(calls[c].content)
    <2>0. PICK i \in Ids: /\ NewName(c, i) /\ disk' = [disk EXCEPT ![i] = calls[c].content]
                          /\ calls' = [calls EXCEPT ![c].at = "written", ![c].id = i]
      BY <1>3 DEF WriteFile, NewName
    <2> DEFINE x == [calls[c] EXCEPT !.at = "written", !.id = i]
    <2>1. /\ x \in Accepting /\ x.at = "written" /\ x.id = i /\ x.content = calls[c].content
          /\ i # None
      BY <1>1, <2>0 DEF Accepting, NewName
    <2>2. Put(c, x)
      BY <2>0 DEF Put
    <2> HIDE DEF x
    <2>3. calls'[c] = x /\ \A d \in Calls \ {c}: calls'[d] = calls[d]
      BY <2>2 DEF FilesInv, UploadsTypeOK, Put
    <2>4. /\ disk'[i] = calls[c].content /\ calls[c].content \in Photos
          /\ \A j \in Ids: j # i => disk'[j] = disk[j]
      BY <1>1, <2>0 DEF FilesInv, UploadsTypeOK, Accepting
    <2>5. UploadsTypeOK'
      BY <1>1, <2>0, <2>1, <2>2, <2>4 DEF FilesInv, UploadsTypeOK, Put, Accepting
    <2>6. DiskIsAccountedFor'
      <3> SUFFICES ASSUME NEW j \in Ids, disk'[j] # None, rows[j] = None, died = {}
                   PROVE  \E d \in Calls: calls'[d].at = "written" /\ calls'[d].id = j
        BY <1>1 DEF DiskIsAccountedFor
      <3>1. CASE j = i
        BY <2>1, <2>3, <3>1
      <3>2. CASE j # i
        <4>1. PICK d \in Calls: calls[d].at = "written" /\ calls[d].id = j
          BY <2>4, <3>2 DEF FilesInv, DiskIsAccountedFor
        <4>. QED
          BY <1>1, <2>3, <4>1
      <3>. QED
        BY <3>1, <3>2
    <2>7. \A d \in Calls \ {c}: CallStands(d)'
      <3>1. \A d \in Calls \ {c}: calls[d].at \in {"written", "saved"} => calls[d].id \in Ids /\ calls[d].id # i
        BY <2>0, CallIs DEF FilesInv, CallStands, NewName
      <3>. QED
        BY <1>1, <2>1, <2>2, <2>4, <3>1, OthersStand
    <2>8. CallStands(c)'
      <3>1. \A d \in Calls \ {c}: calls'[d] # Idle => calls'[d].id # i
        BY <2>0, <2>3 DEF NewName
      <3>. QED
        BY <1>1, <2>0, <2>1, <2>3, <2>4, <3>1 DEF CallStands, NewName
    <2>9. \A j \in Ids: KeptStands(j)'
      BY <1>1, <1>3, <2>0, <2>4 DEF FilesInv, KeptStands, NewName
    <2>. QED
      BY <2>5, <2>6, <2>7, <2>8, <2>9 DEF FilesInv
  <1>. QED
    BY <1>2, <1>3


LEMMA SaveKeeps ==
  ASSUME FilesInv, NEW c \in Calls, SaveRow(c)
  PROVE  FilesInv'
  <1>1. /\ calls[c].at = "written" /\ calls[c] \in Accepting /\ calls[c] # Idle
        /\ UNCHANGED <<counters, disk, audits, died>>
    BY CallIs DEF SaveRow, FilesInv, rateVars
  <1>0. PICK i \in Ids, row \in Row:
          /\ i = calls[c].id /\ row = [ownerId |-> calls[c].owner, content |-> calls[c].content]
          /\ disk[i] = calls[c].content /\ rows[i] = None /\ i # None
    <2> DEFINE new == [ownerId |-> calls[c].owner, content |-> calls[c].content]
    <2>1. new \in Row
      BY <1>1 DEF Accepting, Row
    <2>2. /\ calls[c].id \in Ids /\ disk[calls[c].id] = calls[c].content
          /\ rows[calls[c].id] = None /\ calls[c].id # None
      BY <1>1 DEF FilesInv, CallStands
    <2> HIDE DEF new
    <2>3. \E row \in Row: row = new
      BY <2>1
    <2>. QED
      BY <2>2, <2>3 DEF new
  <1> DEFINE x == [calls[c] EXCEPT !.at = "saved"]
  <1>2. x \in Accepting /\ x.at = "saved" /\ x.id = i /\ x.content = calls[c].content
    BY <1>0, <1>1 DEF Accepting
  <1>3. Put(c, x) /\ rows' = [rows EXCEPT ![i] = row]
    BY <1>0 DEF SaveRow, Put
  <1> HIDE DEF x
  <1>4. calls'[c] = x /\ \A d \in Calls \ {c}: calls'[d] = calls[d]
    BY <1>3 DEF FilesInv, UploadsTypeOK, Put
  <1>5. rows'[i] = row /\ row # None /\ \A j \in Ids: j # i => rows'[j] = rows[j]
    BY <1>3, UploadsAssumption DEF FilesInv, UploadsTypeOK
  <1>6. UploadsTypeOK'
    BY <1>1, <1>2, <1>3 DEF FilesInv, UploadsTypeOK, Put, Accepting
  <1>7. DiskIsAccountedFor'
    <2> SUFFICES ASSUME NEW j \in Ids, disk[j] # None, rows'[j] = None, died = {}
                 PROVE  \E d \in Calls: calls'[d].at = "written" /\ calls'[d].id = j
      BY <1>1 DEF DiskIsAccountedFor
    <2>1. j # i /\ rows[j] = None
      BY <1>5
    <2>2. PICK d \in Calls: calls[d].at = "written" /\ calls[d].id = j
      BY <2>1 DEF FilesInv, DiskIsAccountedFor
    <2>. QED
      BY <1>0, <1>4, <2>1, <2>2
  <1>8. \A d \in Calls \ {c}: calls[d].at \in {"written", "saved"} => calls[d].id \in Ids /\ calls[d].id # i
    <2>1. \A d \in Calls \ {c}: calls[d] # Idle => calls[d].id # i
      BY <1>0, <1>1 DEF FilesInv, CallStands
    <2>. QED
      BY <2>1, CallIs DEF FilesInv, CallStands
  <1>9. \A d \in Calls \ {c}: CallStands(d)'
    BY <1>1, <1>2, <1>3, <1>5, <1>8, OthersStand
  <1>10. CallStands(c)'
    <2>1. \A d \in Calls \ {c}: calls'[d] # Idle => calls'[d].id # i
      BY <1>0, <1>1, <1>4 DEF FilesInv, CallStands
    <2>. QED
      BY <1>0, <1>1, <1>2, <1>4, <1>5, <2>1 DEF CallStands
  <1>11. \A j \in Ids: KeptStands(j)'
    <2>1. Inspect(row.content) /\ disk[i] = row.content
      <3>1. disk[i] # None
        BY <1>0, <1>1, UploadsAssumption DEF Accepting
      <3>. QED
        BY <1>0, <3>1 DEF FilesInv, KeptStands
    <2>. QED
      BY <1>1, <1>5, <2>1 DEF FilesInv, KeptStands
  <1>. QED
    BY <1>6, <1>7, <1>9, <1>10, <1>11 DEF FilesInv

LEMMA FilesStep ==
  ASSUME RateInv', FilesInv, [Next]_vars
  PROVE  FilesInv'
  <1>0. counters' \in [Keys -> [count: Nat, expiresAt: Nat]]
    BY DEF RateInv, RateType
  <1>1. ASSUME NEW c \in Calls, NEW o \in Owners, NEW f \in Photos, NEW heard \in BOOLEAN, CountUpload(c, o, f, heard)
        PROVE  FilesInv'
    BY <1>0, <1>1, CountKeeps
  <1>2. ASSUME NEW c \in Calls, WriteFile(c) \/ SaveRow(c) PROVE FilesInv'
    BY <1>2, WriteKeeps, SaveKeeps
  <1>3. ASSUME NEW c \in Calls, AuditUpload(c) PROVE FilesInv'
    <2>1. calls[c].at = "saved" /\ calls[c].id \in Ids /\ audits' \subseteq Ids
      BY <1>3 DEF AuditUpload, FilesInv, CallStands, UploadsTypeOK
    <2>2. /\ Put(c, Idle) /\ counters' = counters /\ died' = died /\ UNCHANGED <<disk, rows>>
          /\ died \subseteq Owners
      BY <1>3 DEF AuditUpload, Put, rateVars, FilesInv, UploadsTypeOK
    <2>. QED
      BY <2>1, <2>2, EndKeeps
  <1>4. ASSUME NEW c \in Calls, Die(c) PROVE FilesInv'
    <2>1. /\ Put(c, Idle) /\ counters' = counters /\ UNCHANGED <<disk, rows, audits>> /\ calls[c].owner \in Owners
      BY <1>4, CallIs DEF Die, Put, rateVars, FilesInv, Accepting
    <2>2. died' = died \/ died' = died \cup {calls[c].owner}
      BY <1>4 DEF Die
    <2>3. calls[c].at = "written" => died' # {}
      BY <1>4 DEF Die
    <2>4. died \subseteq Owners /\ audits \subseteq Ids
      BY DEF FilesInv, UploadsTypeOK
    <2>. QED
      BY <2>1, <2>2, <2>3, <2>4, EndKeeps
  <1>5. CASE Redeploy
    <2>1. /\ disk' = [i \in Ids |-> None] /\ calls' = [c \in Calls |-> Idle] /\ UNCHANGED <<counters, rows, audits>>
          /\ died' \subseteq Owners
      BY <1>5, CallIs DEF Redeploy, rateVars, FilesInv, UploadsTypeOK, Accepting
    <2>2. UploadsTypeOK'
      BY <2>1 DEF FilesInv, UploadsTypeOK
    <2>3. DiskIsAccountedFor'
      BY <2>1 DEF DiskIsAccountedFor
    <2>4. \A c \in Calls: CallStands(c)'
      BY <2>1 DEF CallStands, Idle
    <2>5. \A i \in Ids: KeptStands(i)'
      BY <2>1 DEF FilesInv, KeptStands
    <2>. QED
      BY <2>2, <2>3, <2>4, <2>5 DEF FilesInv
  <1>6. CASE UNCHANGED uploadVars
    <2>1. UploadsTypeOK'
      BY <1>0, <1>6 DEF uploadVars, FilesInv, UploadsTypeOK
    <2>2. DiskIsAccountedFor' /\ (\A c \in Calls: CallStands(c)') /\ \A i \in Ids: KeptStands(i)'
      BY <1>6 DEF uploadVars, FilesInv, DiskIsAccountedFor, CallStands, KeptStands
    <2>. QED
      BY <2>1, <2>2 DEF FilesInv
  <1>. QED
    BY <1>1, <1>2, <1>3, <1>4, <1>5, <1>6 DEF Next, vars

LEMMA FilesStart == Init => FilesInv
  <1> SUFFICES ASSUME Init PROVE FilesInv
    OBVIOUS
  <1>1. RateInv
    BY RateStarts DEF Init, UploadsInit
  <1>2. UploadsTypeOK
    BY <1>1 DEF Init, UploadsInit, UploadsTypeOK, RateInv, RateType
  <1>. QED
    BY <1>2 DEF Init, UploadsInit, FilesInv, DiskIsAccountedFor, CallStands, KeptStands, Idle

LEMMA UploadsHold == Spec => [](RateInv /\ FilesInv)
  <1>1. Init => RateInv /\ FilesInv
    BY RateStarts, FilesStart DEF Init, UploadsInit
  <1>2. RateInv /\ FilesInv /\ [Next]_vars => (RateInv /\ FilesInv)'
    BY NextCounts, RateKept, FilesStep
  <1>. QED
    BY <1>1, <1>2, PTL DEF Spec

\* Under every interleaving of uploads, deaths and redeployments, what is kept
\* is a photo that was inspected and is what it says it is, and content
\* without a row is that of a call about to make the row or of one that died.
THEOREM OnlyInspectedIsKept == Spec => []UploadsInv
  <1>1. FilesInv => UploadsInv
    <2> SUFFICES ASSUME FilesInv PROVE OnlyPhotosKept
      BY DEF FilesInv, UploadsInv
    <2>1. \A f: Inspect(f) =>
            /\ f.size = "usable"
            /\ \E x \in Formats: f.head = x /\ f.declared = MimeTypeOf[x] /\ f.extension \in ExtensionsOf[x]
      BY DEF Inspect, Bounded, Truthful
    <2>. QED
      BY <2>1 DEF OnlyPhotosKept, FilesInv, KeptStands
  <1>. QED
    BY <1>1, UploadsHold, PTL

\* A row appears when its content is on the disk and never changes; the
\* content is never replaced, only lost.
THEOREM ReadsAreTrue == Spec => ReadsGiveWhatWasAccepted
  <1> DEFINE Kept == \A i \in Ids:
               /\ rows[i] = None /\ rows'[i] # None => disk'[i] = rows'[i].content
               /\ rows[i] # None => rows'[i] = rows[i] /\ disk'[i] \in {disk[i], None}
  <1>1. ASSUME FilesInv, [Next]_vars PROVE Kept
    <2>1. ASSUME NEW c \in Calls, WriteFile(c) PROVE Kept
      <3>1. CASE disk' = disk /\ rows' = rows
        BY <3>1
      <3>2. CASE ~(disk' = disk /\ rows' = rows)
        <4>1. PICK i \in Ids: rows[i] = None /\ disk' = [disk EXCEPT ![i] = calls[c].content] /\ rows' = rows
          BY <2>1, <3>2 DEF WriteFile
        <4>. QED
          BY <1>1, <4>1 DEF FilesInv, UploadsTypeOK
      <3>. QED
        BY <3>1, <3>2
    <2>2. ASSUME NEW c \in Calls, SaveRow(c) PROVE Kept
      <3>1. PICK i \in Ids: /\ i = calls[c].id /\ disk[i] = calls[c].content /\ rows[i] = None
        BY <1>1, <2>2 DEF SaveRow, FilesInv, CallStands
      <3>2. /\ rows' = [rows EXCEPT ![i] = [ownerId |-> calls[c].owner, content |-> calls[c].content]]
            /\ disk' = disk
        BY <2>2, <3>1 DEF SaveRow
      <3>. QED
        BY <1>1, <3>1, <3>2 DEF FilesInv, UploadsTypeOK
    <2>3. CASE Redeploy
      BY <2>3 DEF Redeploy
    <2>4. CASE UNCHANGED <<disk, rows>>
      BY <2>4
    <2>. QED
      BY <1>1, <2>1, <2>2, <2>3, <2>4 DEF Next, CountUpload, AuditUpload, Die, uploadVars, vars
  <1>. QED
    BY <1>1, UploadsHold, PTL DEF Spec, ReadsGiveWhatWasAccepted
=============================================================================
