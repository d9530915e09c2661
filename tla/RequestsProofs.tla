---------------------------- MODULE RequestsProofs ----------------------------
(***************************************************************************)
(* What the handlers make of a request, for requests of any length, any    *)
(* paths and any width of the integers.                                    *)
(*                                                                         *)
(* The loop over the capabilities is a fold: that it has a value after     *)
(* every turn, and what that value says of the capabilities so far, is     *)
(* shown by the least turn for which it were not so.                       *)
(***************************************************************************)
EXTENDS Requests, Counting

LEMMA MaxOf ==
  ASSUME NEW S \in SUBSET Nat, S # {}, NEW b \in Nat, \A n \in S : n <= b
  PROVE  Max(S) \in S /\ \A n \in S : n <= Max(S)
<1>1. PICK n \in S : \A m \in S : m <= n
  BY Greatest
<1>2. \A m \in S : n >= m
  <2> SUFFICES ASSUME NEW m \in S PROVE n >= m
    OBVIOUS
  <2>1. m \in Nat /\ n \in Nat /\ m <= n
    BY <1>1
  <2> QED BY <2>1
<1>3. Max(S) \in S /\ \A m \in S : Max(S) >= m
  BY <1>2 DEF Max
<1>4. ASSUME NEW m \in S PROVE m <= Max(S)
  <2>1. m \in Nat /\ Max(S) \in Nat /\ Max(S) >= m
    BY <1>3
  <2> QED BY <2>1
<1> QED BY <1>3, <1>4

LEMMA MinOf ==
  ASSUME NEW S \in SUBSET Nat, S # {}
  PROVE  Min(S) \in S /\ \A n \in S : Min(S) <= n
BY Least DEF Min

-------------------------------------------------------------------------------
(* The loop over the capabilities, as a function of the turns taken.       *)

(* What it starts with.                                                    *)
Start(r) ==
  [ok         |-> r.fs_type \in Filesystems \cup {None},
   configs    |-> <<>>,
   filesystem |-> IF r.fs_type \in Filesystems THEN FilesystemOf[r.fs_type] ELSE None]

(* The function that the fold takes its value from, for indices in D.      *)
IsLoop(loop, r, D) ==
  loop = [s \in SUBSET D |->
            IF s = {} THEN Start(r)
            ELSE AddCapability(loop[s \ {Max(s)}], r.capabilities[Max(s)])]

LEMMA ParsedIsLoop ==
  ASSUME NEW r
  PROVE  Parsed(r) = (CHOOSE loop : IsLoop(loop, r, DOMAIN r.capabilities))[DOMAIN r.capabilities]
BY Zenon DEF Parsed, FoldLeft, MapThenFoldSet, Start, IsLoop

LEMMA MaxTo ==
  ASSUME NEW n \in Nat, NEW s \in SUBSET (1..n), s # {}
  PROVE  /\ Max(s) \in s /\ Max(s) \in 1..n
         /\ n \in s => Max(s) = n
<1>1. s \in SUBSET Nat /\ \A m \in s : m <= n
  OBVIOUS
<1>2. Max(s) \in s /\ \A m \in s : m <= Max(s)
  BY <1>1, MaxOf
<1>3. Max(s) \in 1..n
  BY <1>2
<1>4. n \in s => n <= Max(s)
  BY <1>2
<1> QED BY <1>2, <1>3, <1>4

LEMMA LoopGrows ==
  ASSUME NEW r, NEW n \in Nat \ {0}, NEW g, IsLoop(g, r, 1..(n - 1))
  PROVE  \E f : IsLoop(f, r, 1..n)
<1> DEFINE Turn(h, s) == IF s = {} THEN Start(r)
                         ELSE AddCapability(h[s \ {Max(s)}], r.capabilities[Max(s)])
           f == [s \in SUBSET (1..n) |->
                   IF n \in s THEN AddCapability(g[s \ {n}], r.capabilities[n]) ELSE g[s]]
<1>1. \A s \in SUBSET (1..(n - 1)) : g[s] = Turn(g, s)
  BY Zenon DEF IsLoop
<1>2. ASSUME NEW s \in SUBSET (1..n)
      PROVE  f[s] = Turn(f, s)
  <2>1. \A t \in SUBSET (1..n) : n \notin t => t \in SUBSET (1..(n - 1)) /\ f[t] = g[t]
    OBVIOUS
  <2>2. CASE n \in s
    <3>1. Max(s) = n
      BY <2>2, MaxTo
    <3>2. s \ {n} \in SUBSET (1..n) /\ n \notin s \ {n}
      OBVIOUS
    <3>3. f[s] = AddCapability(g[s \ {n}], r.capabilities[n])
      BY <2>2
    <3>4. f[s \ {n}] = g[s \ {n}]
      BY <2>1, <3>2
    <3> HIDE DEF f
    <3> QED BY <2>2, <3>1, <3>3, <3>4
  <2>3. CASE n \notin s /\ s = {}
    <3>1. f[s] = g[s] /\ s \in SUBSET (1..(n - 1))
      BY <2>1, <2>3
    <3> HIDE DEF f
    <3> QED BY <1>1, <2>3, <3>1
  <2>4. CASE n \notin s /\ s # {}
    <3>1. f[s] = g[s] /\ s \in SUBSET (1..(n - 1))
      BY <2>1, <2>4
    <3>2. s \ {Max(s)} \in SUBSET (1..n) /\ n \notin s \ {Max(s)}
      BY <2>4
    <3>3. f[s \ {Max(s)}] = g[s \ {Max(s)}]
      BY <2>1, <3>2
    <3> HIDE DEF f
    <3> QED BY <1>1, <2>4, <3>1, <3>3
  <2> QED BY <2>2, <2>3, <2>4
<1>3. f = [s \in SUBSET (1..n) |-> f[s]]
  OBVIOUS
<1> HIDE DEF f
<1>4. f = [s \in SUBSET (1..n) |-> Turn(f, s)]
  BY <1>2, <1>3
<1>5. IsLoop(f, r, 1..n)
  BY <1>4, Zenon DEF IsLoop
<1> QED BY <1>5

LEMMA LoopExists ==
  ASSUME NEW r, NEW n \in Nat
  PROVE  \E f : IsLoop(f, r, 1..n)
<1> DEFINE T == {k \in Nat : ~ \E f : IsLoop(f, r, 1..k)}
<1> SUFFICES ASSUME T # {} PROVE FALSE
  OBVIOUS
<1>1. PICK k \in T : \A m \in T : k <= m
  <2>1. T \in SUBSET Nat
    OBVIOUS
  <2> HIDE DEF T
  <2> QED BY <2>1, Least
<1>2. CASE k = 0
  <2> DEFINE f == [s \in SUBSET (1..0) |-> Start(r)]
  <2>1. f = [s \in SUBSET (1..0) |->
               IF s = {} THEN Start(r)
               ELSE AddCapability(f[s \ {Max(s)}], r.capabilities[Max(s)])]
    <3>1. \A s \in SUBSET (1..0) : s = {}
      OBVIOUS
    <3> QED BY <3>1
  <2>2. IsLoop(f, r, 1..0)
    <3> HIDE DEF f
    <3> QED BY <2>1, Zenon DEF IsLoop
  <2> QED BY <1>2, <2>2
<1>3. CASE k # 0
  <2>1. k \in Nat \ {0} /\ k - 1 \in Nat /\ k - 1 \notin T
    BY <1>1, <1>3
  <2>2. PICK g : IsLoop(g, r, 1..(k - 1))
    BY <2>1
  <2> QED BY <2>1, <2>2, LoopGrows
<1> QED BY <1>2, <1>3

(* What the loop has after k turns: one capability more than before.       *)
LEMMA ParsedTurns ==
  ASSUME NEW r, NEW n \in Nat, DOMAIN r.capabilities = 1..n
  PROVE  \E after : /\ after[0] = Start(r)
                    /\ \A k \in 1..n : after[k] = AddCapability(after[k - 1], r.capabilities[k])
                    /\ Parsed(r) = after[n]
<1> DEFINE loop == CHOOSE f : IsLoop(f, r, 1..n)
<1>1. IsLoop(loop, r, 1..n)
  BY LoopExists, Zenon
<1>2. Parsed(r) = loop[1..n]
  BY ParsedIsLoop, Zenon
<1> HIDE DEF loop
<1>3. loop[1..0] = Start(r)
  <2>1. 1..0 = {} /\ 1..0 \in SUBSET (1..n)
    OBVIOUS
  <2> QED BY <1>1, <2>1, Zenon DEF IsLoop
<1>4. ASSUME NEW k \in 1..n
      PROVE  loop[1..k] = AddCapability(loop[1..(k - 1)], r.capabilities[k])
  <2>1. 1..k \in SUBSET (1..n) /\ 1..k # {} /\ (1..k) \ {k} = 1..(k - 1)
    OBVIOUS
  <2>2. Max(1..k) = k
    BY MaxTo
  <2> QED BY <1>1, <2>1, <2>2, Zenon DEF IsLoop
<1> DEFINE after == [k \in 0..n |-> loop[1..k]]
<1>5. after[0] = Start(r) /\ Parsed(r) = after[n]
  BY <1>2, <1>3
<1>6. \A k \in 1..n : after[k] = AddCapability(after[k - 1], r.capabilities[k])
  BY <1>4
<1> HIDE DEF after
<1> QED BY <1>5, <1>6

-------------------------------------------------------------------------------
(* What the turns add up to.                                               *)

Modes == {ModeOf[m] : m \in DOMAIN ModeOf}

Accumulators == [ok : BOOLEAN, configs : Seq(Modes), filesystem : {"Ext4", "Xfs", "Bind", None}]

(* The filesystems that the request names up to the k-th capability.       *)
NamedTo(r, k) ==
  ({FilesystemNamed(r.capabilities[i]) : i \in 1..k} \ {None})
    \cup (IF r.fs_type = None THEN {} ELSE {FilesystemOf[r.fs_type]})

SoundTo(r, k) ==
  /\ r.fs_type \in Filesystems \cup {None}
  /\ \A i \in 1..k : Parses(r.capabilities[i])
  /\ \A f, g \in NamedTo(r, k) : f = g

(* The accumulator says of k capabilities what the property says of all.   *)
Means(acc, r, k) ==
  /\ acc \in Accumulators
  /\ acc.ok <=> SoundTo(r, k)
  /\ acc.ok => /\ NamedTo(r, k) = {acc.filesystem} \ {None}
               /\ Range(acc.configs) = {Config(r.capabilities[i]) : i \in 1..k}

LEMMA FilesystemValues ==
  /\ Filesystems = {"ext4", "xfs", "bind"}
  /\ \A f \in Filesystems : FilesystemOf[f] \in {"Ext4", "Xfs", "Bind"}
  /\ None \notin {"Ext4", "Xfs", "Bind"}
<1>1. Filesystems = {"ext4", "xfs", "bind"}
  BY DEF Filesystems, FilesystemOf
<1>2. \A f \in {"ext4", "xfs", "bind"} : FilesystemOf[f] \in {"Ext4", "Xfs", "Bind"}
  BY DEF FilesystemOf
<1>3. None \notin {"Ext4", "Xfs", "Bind"}
  BY NoneAssumption
<1> QED BY <1>1, <1>2, <1>3

LEMMA CapabilityValues ==
  ASSUME NEW c, Parses(c)
  PROVE  FilesystemNamed(c) \in {"Ext4", "Xfs", "Bind", None} /\ Config(c) \in Modes
BY FilesystemValues DEF Parses, FilesystemNamed, Config, Modes

LEMMA RangeAppend ==
  ASSUME NEW S, NEW q \in Seq(S), NEW e \in S
  PROVE  Append(q, e) \in Seq(S) /\ Range(Append(q, e)) = Range(q) \cup {e}
<1>1. Append(q, e) \in Seq(S)
  OBVIOUS
<1>2. ASSUME NEW x PROVE x \in Range(Append(q, e)) <=> x \in Range(q) \cup {e}
  <2>1. x \in Range(Append(q, e)) <=> \E i \in 1..(Len(q) + 1) : x = Append(q, e)[i]
    BY DEF Range
  <2>2. x \in Range(q) <=> \E i \in 1..Len(q) : x = q[i]
    BY DEF Range
  <2>3. Append(q, e)[Len(q) + 1] = e /\ \A i \in 1..Len(q) : Append(q, e)[i] = q[i]
    OBVIOUS
  <2>4. 1..(Len(q) + 1) = (1..Len(q)) \cup {Len(q) + 1}
    OBVIOUS
  <2> QED BY <2>1, <2>2, <2>3, <2>4
<1> QED BY <1>1, <1>2

LEMMA StartMeans ==
  ASSUME NEW r
  PROVE  Means(Start(r), r, 0)
<1>1. 1..0 = {}
  OBVIOUS
<1>2. NamedTo(r, 0) = IF r.fs_type = None THEN {} ELSE {FilesystemOf[r.fs_type]}
  BY <1>1 DEF NamedTo
<1>3. Start(r) \in Accumulators
  BY FilesystemValues DEF Start, Accumulators
<1>4. Start(r).ok <=> SoundTo(r, 0)
  BY <1>1, <1>2 DEF Start, SoundTo
<1>5. Start(r).ok => NamedTo(r, 0) = {Start(r).filesystem} \ {None}
  BY <1>2, FilesystemValues, NoneAssumption DEF Start
<1>6. Range(Start(r).configs) = {Config(r.capabilities[i]) : i \in 1..0}
  BY <1>1 DEF Start, Range
<1> QED BY <1>3, <1>4, <1>5, <1>6 DEF Means

LEMMA TurnMeans ==
  ASSUME NEW r, NEW k \in Nat \ {0}, NEW acc, Means(acc, r, k - 1)
  PROVE  Means(AddCapability(acc, r.capabilities[k]), r, k)
<1> DEFINE c == r.capabilities[k]
           fs == FilesystemNamed(c)
           add == AddCapability(acc, c)
           clash == None \notin {acc.filesystem, fs} /\ acc.filesystem # fs
<1>1. /\ acc \in Accumulators
      /\ acc.ok <=> SoundTo(r, k - 1)
      /\ acc.ok => /\ NamedTo(r, k - 1) = {acc.filesystem} \ {None}
                   /\ Range(acc.configs) = {Config(r.capabilities[i]) : i \in 1..(k - 1)}
  BY DEF Means
<1>2. 1..k = (1..(k - 1)) \cup {k}
  OBVIOUS
<1>3. NamedTo(r, k) = NamedTo(r, k - 1) \cup ({fs} \ {None})
  BY <1>2 DEF NamedTo
<1>4. SoundTo(r, k) <=>
        SoundTo(r, k - 1) /\ Parses(c) /\ \A f, g \in NamedTo(r, k) : f = g
  BY <1>2, <1>3 DEF SoundTo
<1>5. CASE acc.ok /\ Parses(c) /\ ~clash
  <2>1. add = [acc EXCEPT !.configs = Append(@, Config(c)),
                          !.filesystem = IF @ = None THEN fs ELSE @]
    BY <1>5 DEF AddCapability
  <2>2. fs \in {"Ext4", "Xfs", "Bind", None} /\ Config(c) \in Modes
    BY <1>5, CapabilityValues
  <2>3. acc.configs \in Seq(Modes) /\ acc.filesystem \in {"Ext4", "Xfs", "Bind", None}
    BY <1>1 DEF Accumulators
  <2>4. /\ Append(acc.configs, Config(c)) \in Seq(Modes)
        /\ Range(Append(acc.configs, Config(c))) = Range(acc.configs) \cup {Config(c)}
    BY <2>2, <2>3, RangeAppend
  <2>5. /\ add.ok /\ add.configs = Append(acc.configs, Config(c))
        /\ add.filesystem = IF acc.filesystem = None THEN fs ELSE acc.filesystem
        /\ add \in Accumulators
    BY <1>1, <1>5, <2>1, <2>2, <2>4 DEF Accumulators
  <2>6. NamedTo(r, k) = {add.filesystem} \ {None}
    BY <1>1, <1>3, <1>5, <2>5
  <2>7. Range(add.configs) = {Config(r.capabilities[i]) : i \in 1..k}
    BY <1>1, <1>2, <1>5, <2>4, <2>5
  <2>8. SoundTo(r, k)
    BY <1>1, <1>4, <1>5, <2>6
  <2> QED BY <2>5, <2>6, <2>7, <2>8 DEF Means
<1>6. CASE ~acc.ok \/ ~Parses(c) \/ clash
  <2>1. add = [acc EXCEPT !.ok = FALSE]
    BY <1>6 DEF AddCapability
  <2>2. ~add.ok /\ add \in Accumulators
    BY <1>1, <2>1 DEF Accumulators
  <2>3. ~SoundTo(r, k)
    <3>1. CASE ~acc.ok
      BY <1>1, <1>4, <3>1
    <3>2. CASE ~Parses(c)
      BY <1>4, <3>2
    <3>3. CASE acc.ok /\ clash
      BY <1>1, <1>3, <1>4, <3>3
    <3> QED BY <1>6, <3>1, <3>2, <3>3
  <2> QED BY <2>2, <2>3 DEF Means
<1> QED BY <1>5, <1>6

LEMMA TurnsMean ==
  ASSUME NEW r, NEW n \in Nat, NEW after, after[0] = Start(r),
         \A k \in 1..n : after[k] = AddCapability(after[k - 1], r.capabilities[k])
  PROVE  Means(after[n], r, n)
<1> DEFINE T == {k \in 0..n : ~Means(after[k], r, k)}
<1> SUFFICES ASSUME T # {} PROVE FALSE
  OBVIOUS
<1>1. PICK k \in T : \A m \in T : k <= m
  <2>1. T \in SUBSET Nat
    OBVIOUS
  <2> HIDE DEF T
  <2> QED BY <2>1, Least
<1>2. k # 0
  BY StartMeans
<1>3. k \in Nat \ {0} /\ k \in 1..n /\ k - 1 \in 0..n /\ k - 1 \notin T
  BY <1>1, <1>2
<1>4. Means(after[k - 1], r, k - 1)
  BY <1>3
<1> QED BY <1>3, <1>4, TurnMeans

(* The loop takes a request exactly when everything in it parses and names *)
(* one filesystem at most, and finds that filesystem and all the modes.    *)
LEMMA ParsedMeans ==
  ASSUME NEW r, r.capabilities \in Seq(Capabilities)
  PROVE  LET all == Range(r.capabilities)
             sound == /\ r.fs_type \in Filesystems \cup {None}
                      /\ \A c \in all : Parses(c)
                      /\ \A f, g \in Wishes(r) : f = g
         IN  /\ Parsed(r) \in Accumulators
             /\ Parsed(r).ok <=> sound
             /\ sound => /\ Wishes(r) = {Parsed(r).filesystem} \ {None}
                         /\ Range(Parsed(r).configs) = {Config(c) : c \in all}
<1> DEFINE n == Len(r.capabilities)
           all == Range(r.capabilities)
<1>1. n \in Nat /\ DOMAIN r.capabilities = 1..n
  OBVIOUS
<1>2. PICK after : /\ after[0] = Start(r)
                   /\ \A k \in 1..n : after[k] = AddCapability(after[k - 1], r.capabilities[k])
                   /\ Parsed(r) = after[n]
  <2> HIDE DEF n
  <2> QED BY <1>1, ParsedTurns
<1>3. Means(Parsed(r), r, n)
  <2> HIDE DEF n
  <2> QED BY <1>1, <1>2, TurnsMean
<1>4. all = {r.capabilities[i] : i \in 1..n}
  BY <1>1 DEF Range
<1> HIDE DEF n, all
<1>5. NamedTo(r, n) = Wishes(r)
  BY <1>4 DEF NamedTo, Wishes, all
<1>6. (\A c \in all : Parses(c)) <=> \A i \in 1..n : Parses(r.capabilities[i])
  BY <1>4
<1>7. {Config(c) : c \in all} = {Config(r.capabilities[i]) : i \in 1..n}
  BY <1>4
<1> QED BY <1>3, <1>5, <1>6, <1>7 DEF Means, SoundTo, all

-------------------------------------------------------------------------------
(* What an answer says of the request.                                     *)

RInv ==
  /\ request \in AllRequests
  /\ asked \in BoundedSeq(Capabilities, MaxCapabilities) \cup {None}
  /\ volume # None =>
       request.rpc = "CreateVolume" /\ Acceptable(request) /\ volume = NewVolume(request)
  /\ asked # None => volume # None /\ answer = Validation(volume, asked)
  /\ request.rpc = "CreateVolume" /\ asked = None /\ answer # None =>
       /\ answer = IF Acceptable(request) THEN "OK" ELSE "InvalidArgument"
       /\ Acceptable(request) => volume = NewVolume(request)
  /\ request.rpc = "NodeGetVolumeStats" /\ answer # None =>
       answer = IF request.statvfs = None THEN "Internal" ELSE Usage(Statfs(request.statvfs))

LEMMA BoundedSeqType == BoundedSeq(Capabilities, MaxCapabilities) \subseteq Seq(Capabilities)
BY RequestsAssumption DEF BoundedSeq, SeqOf

LEMMA RequestTypes ==
  ASSUME request \in AllRequests
  PROVE  /\ request.rpc = "CreateVolume" => request \in CreateRequests
         /\ request.rpc = "NodeGetVolumeStats" => request \in StatsRequests
BY DEF AllRequests, CreateRequests, StatsRequests, CapacityRequests

LEMMA InitSound == Init => RInv
BY DEF Init, RInv

LEMMA NextSound == RInv /\ [Next]_vars => RInv'
<1> SUFFICES ASSUME RInv, [Next]_vars PROVE RInv'
  OBVIOUS
<1>1. CASE CreateVolume
  <2>1. /\ request.rpc = "CreateVolume" /\ UNCHANGED <<request, asked>>
        /\ asked = None
    <3>1. asked # None => answer \in {"OK", "InvalidArgument", "AlreadyExists"}
      BY DEF RInv, Validation
    <3> QED BY <1>1, <3>1, NoneAssumption DEF CreateVolume
  <2>2. CASE Acceptable(request)
    <3>1. volume' = NewVolume(request) /\ answer' = "OK"
      BY <1>1, <2>2 DEF CreateVolume
    <3> QED BY <2>1, <2>2, <3>1 DEF RInv
  <2>3. CASE ~Acceptable(request)
    <3>1. UNCHANGED volume /\ answer' = "InvalidArgument"
      BY <1>1, <2>3 DEF CreateVolume
    <3> QED BY <2>1, <2>3, <3>1 DEF RInv
  <2> QED BY <2>2, <2>3
<1>2. CASE ValidateVolumeCapabilities
  <2>1. PICK capabilities \in BoundedSeq(Capabilities, MaxCapabilities) :
          asked' = capabilities /\ answer' = Validation(volume, capabilities)
    BY <1>2 DEF ValidateVolumeCapabilities
  <2>2. asked' # None
    BY <2>1, BoundedSeqType, NoneAssumption
  <2>3. volume # None /\ UNCHANGED <<request, volume>>
    BY <1>2 DEF ValidateVolumeCapabilities
  <2> QED BY <2>1, <2>2, <2>3 DEF RInv
<1>3. CASE NodeGetVolumeStats
  <2>1. /\ request.rpc = "NodeGetVolumeStats"
        /\ answer' = IF request.statvfs = None THEN "Internal"
                     ELSE Usage(Statfs(request.statvfs))
        /\ UNCHANGED <<request, volume, asked>>
    BY <1>3 DEF NodeGetVolumeStats
  <2> QED BY <2>1 DEF RInv
<1>4. CASE GetCapacity
  <2>1. request.rpc = "GetCapacity" /\ UNCHANGED <<request, volume, asked>>
    BY <1>4 DEF GetCapacity
  <2> QED BY <2>1 DEF RInv
<1>5. CASE UNCHANGED vars
  BY <1>5 DEF vars, RInv
<1> QED BY <1>1, <1>2, <1>3, <1>4, <1>5 DEF Next

(* What was made, confirmed or counted follows from the request.           *)
THEOREM RequestInvariant == Spec => []RInv
BY InitSound, NextSound, PTL DEF Spec

-------------------------------------------------------------------------------
(* Capabilities.                                                           *)

(* The property, of any request and the volume made of it.                 *)
LEMMA AcceptedAsAsked ==
  ASSUME NEW r, r.capabilities \in Seq(Capabilities)
  PROVE  LET all == Range(r.capabilities)
             sound == /\ r.name # <<>> /\ ValidName(r.name)
                      /\ r.host_base_path # None /\ ~r.unknown_parameter
                      /\ all # {}
                      /\ \A c \in all : Parses(c)
                      /\ r.fs_type \in Filesystems \cup {None}
                      /\ \A f, g \in Wishes(r) : f = g
         IN  /\ Acceptable(r) <=> sound
             /\ sound =>
                  /\ {NewVolume(r).filesystem} =
                       IF Wishes(r) = {} THEN {"Ext4"} ELSE Wishes(r)
                  /\ Range(NewVolume(r).valid_configs) = {Config(c) : c \in all}
                  /\ NewVolume(r).filesystem \in {"Ext4", "Xfs", "Bind"}
                  /\ Range(NewVolume(r).valid_configs) \subseteq Modes
<1> DEFINE all == Range(r.capabilities)
           sound == /\ r.fs_type \in Filesystems \cup {None}
                    /\ \A c \in all : Parses(c)
                    /\ \A f, g \in Wishes(r) : f = g
<1>1. r.capabilities # <<>> <=> all # {}
  <2>1. r.capabilities # <<>> => r.capabilities[1] \in all
    BY DEF Range
  <2>2. r.capabilities = <<>> => all = {}
    BY DEF Range
  <2> QED BY <2>1, <2>2
<1>2. /\ Parsed(r) \in Accumulators
      /\ Parsed(r).ok <=> sound
      /\ sound => /\ Wishes(r) = {Parsed(r).filesystem} \ {None}
                  /\ Range(Parsed(r).configs) = {Config(c) : c \in all}
  BY ParsedMeans
<1> HIDE DEF all
<1>3. NewVolume(r).valid_configs = Parsed(r).configs
  BY DEF NewVolume
<1>4. NewVolume(r).filesystem =
        IF Parsed(r).filesystem = None THEN "Ext4" ELSE Parsed(r).filesystem
  BY DEF NewVolume
<1>5. Range(Parsed(r).configs) \subseteq Modes
  BY <1>2 DEF Accumulators, Range
<1>6. NewVolume(r).filesystem \in {"Ext4", "Xfs", "Bind"}
  BY <1>2, <1>4 DEF Accumulators
<1>7. sound => {NewVolume(r).filesystem} = IF Wishes(r) = {} THEN {"Ext4"} ELSE Wishes(r)
  BY <1>2, <1>4
<1>8. Acceptable(r) <=> /\ sound /\ all # {}
                        /\ r.name # <<>> /\ ValidName(r.name)
                        /\ r.host_base_path # None /\ ~r.unknown_parameter
  BY <1>1, <1>2 DEF Acceptable
<1> QED BY <1>2, <1>3, <1>5, <1>6, <1>7, <1>8 DEF all

(* Every variable holds a value of its type: the loop makes volumes of a   *)
(* filesystem and of modes that the store knows.                           *)
THEOREM TypeCorrect == Spec => []TypeOK
<1>1. RInv => TypeOK
  <2> SUFFICES ASSUME RInv, volume # None
               PROVE  /\ volume.filesystem \in {FilesystemOf[f] : f \in Filesystems}
                      /\ Range(volume.valid_configs) \subseteq Modes
    BY DEF RInv, TypeOK, Modes
  <2>1. request.capabilities \in Seq(Capabilities) /\ Acceptable(request)
    BY RequestTypes, BoundedSeqType DEF RInv, CreateRequests
  <2>2. /\ volume.filesystem \in {"Ext4", "Xfs", "Bind"}
        /\ Range(volume.valid_configs) \subseteq Modes
    BY <2>1, AcceptedAsAsked DEF RInv
  <2>3. FilesystemOf["ext4"] = "Ext4" /\ FilesystemOf["xfs"] = "Xfs" /\ FilesystemOf["bind"] = "Bind"
    BY DEF FilesystemOf
  <2> QED BY <2>2, <2>3, FilesystemValues
<1> QED BY <1>1, RequestInvariant, PTL

(* Everything in a request is heeded, wherever it stands in it: the loop,  *)
(* which goes by the order, does what a look at the whole would.           *)
THEOREM CreatedAsAsked == Spec => []CreationAsAsked
<1>1. RInv => CreationAsAsked
  <2> SUFFICES ASSUME RInv, request.rpc = "CreateVolume", answer # None, asked = None
               PROVE  CreationAsAsked
    BY DEF CreationAsAsked
  <2>1. request.capabilities \in Seq(Capabilities)
    BY RequestTypes, BoundedSeqType DEF RInv, CreateRequests
  <2>2. /\ answer = "OK" <=> Acceptable(request)
        /\ Acceptable(request) => volume = NewVolume(request)
    BY DEF RInv
  <2> QED BY <2>1, <2>2, AcceptedAsAsked DEF CreationAsAsked
<1> QED BY <1>1, RequestInvariant, PTL

(* What a confirmation means.                                              *)
LEMMA ValidationMeans ==
  ASSUME NEW v, NEW q \in Seq(Capabilities)
  PROVE  Validation(v, q) = "OK" <=>
           q # <<>> /\ \A c \in Range(q) : Parses(c) /\ Fits(v, c)
<1> DEFINE wrong == {i \in DOMAIN q : ~Parses(q[i]) \/ ~Fits(v, q[i])}
<1>1. Validation(v, q) = "OK" <=> q # <<>> /\ wrong = {}
  BY DEF Validation
<1>2. wrong = {} <=> \A c \in Range(q) : Parses(c) /\ Fits(v, c)
  BY DEF Range
<1> QED BY <1>1, <1>2

LEMMA RangeConcat ==
  ASSUME NEW p \in Seq(Capabilities), NEW q \in Seq(Capabilities)
  PROVE  p \o q \in Seq(Capabilities) /\ Range(p \o q) = Range(p) \cup Range(q)
<1>1. ASSUME NEW x PROVE x \in Range(p \o q) <=> x \in Range(p) \cup Range(q)
  <2>1. x \in Range(p \o q) <=> \E i \in 1..(Len(p) + Len(q)) : x = (p \o q)[i]
    BY DEF Range
  <2>2. x \in Range(p) <=> \E i \in 1..Len(p) : x = p[i]
    BY DEF Range
  <2>3. x \in Range(q) <=> \E i \in 1..Len(q) : x = q[i]
    BY DEF Range
  <2>4. \A i \in 1..Len(p) : i \in 1..(Len(p) + Len(q)) /\ (p \o q)[i] = p[i]
    OBVIOUS
  <2>5. \A i \in 1..Len(q) :
          i + Len(p) \in 1..(Len(p) + Len(q)) /\ (p \o q)[i + Len(p)] = q[i]
    OBVIOUS
  <2>6. \A i \in 1..(Len(p) + Len(q)) :
          i \in 1..Len(p) \/ (i - Len(p) \in 1..Len(q) /\ (p \o q)[i] = q[i - Len(p)])
    OBVIOUS
  <2> QED BY <2>1, <2>2, <2>3, <2>4, <2>5, <2>6
<1> QED BY <1>1

(* ValidateVolumeCapabilities confirms no more than CreateVolume would     *)
(* have made the volume of, and no less than it has made it of.            *)
LEMMA ConfirmedFits ==
  ASSUME NEW r, r.capabilities \in Seq(Capabilities), Acceptable(r),
         NEW q \in Seq(Capabilities), NEW both,
         both.capabilities = r.capabilities \o q,
         both.fs_type = r.fs_type, both.host_base_path = r.host_base_path,
         both.name = r.name, both.unknown_parameter = r.unknown_parameter
  PROVE  LET v == NewVolume(r)
         IN  /\ Validation(v, q) = "OK" =>
                  /\ Acceptable(both)
                  /\ NewVolume(both).filesystem = v.filesystem
                  /\ Range(NewVolume(both).valid_configs) = Range(v.valid_configs)
             /\ q # <<>> /\ Range(q) \subseteq Range(r.capabilities) =>
                  Validation(v, q) = "OK"
<1> DEFINE v == NewVolume(r)
           old == Range(r.capabilities)
           new == Range(q)
<1>1. Range(both.capabilities) = old \cup new /\ both.capabilities \in Seq(Capabilities)
  BY RangeConcat
<1>2. /\ r.host_base_path # None /\ ~r.unknown_parameter /\ old # {}
      /\ r.name # <<>> /\ ValidName(r.name)
      /\ \A c \in old : Parses(c)
      /\ r.fs_type \in Filesystems \cup {None}
      /\ \A f, g \in Wishes(r) : f = g
      /\ {v.filesystem} = IF Wishes(r) = {} THEN {"Ext4"} ELSE Wishes(r)
      /\ Range(v.valid_configs) = {Config(c) : c \in old}
  BY AcceptedAsAsked
<1>3. Wishes(both) = Wishes(r) \cup ({FilesystemNamed(c) : c \in new} \ {None})
  BY <1>1 DEF Wishes
<1>4. Wishes(r) \subseteq {v.filesystem}
  BY <1>2
<1>5. \A c \in old : FilesystemNamed(c) \in Wishes(r) \cup {None}
  BY DEF Wishes
<1> HIDE DEF v, old, new
<1>6. ASSUME Validation(v, q) = "OK"
      PROVE  /\ Acceptable(both)
             /\ NewVolume(both).filesystem = v.filesystem
             /\ Range(NewVolume(both).valid_configs) = Range(v.valid_configs)
  <2>1. \A c \in new : /\ Parses(c) /\ Config(c) \in Range(v.valid_configs)
                       /\ FilesystemNamed(c) \in {None, v.filesystem}
    BY <1>6, ValidationMeans DEF Fits, new
  <2>2. Wishes(both) \subseteq {v.filesystem} /\ Wishes(r) \subseteq Wishes(both)
    BY <1>3, <1>4, <2>1
  <2>3. Wishes(both) = {} => v.filesystem = "Ext4"
    BY <1>2, <2>2
  <2>4. /\ Acceptable(both)
        /\ {NewVolume(both).filesystem} =
             IF Wishes(both) = {} THEN {"Ext4"} ELSE Wishes(both)
        /\ Range(NewVolume(both).valid_configs) = {Config(c) : c \in old \cup new}
    <3>1. \A f, g \in Wishes(both) : f = g
      BY <2>2
    <3>2. \A c \in old \cup new : Parses(c)
      BY <1>2, <2>1
    <3>3. old \cup new # {}
      BY <1>2
    <3> QED BY <1>1, <1>2, <3>1, <3>2, <3>3, AcceptedAsAsked
  <2>5. {Config(c) : c \in old \cup new} = {Config(c) : c \in old}
    BY <1>2, <2>1
  <2>6. NewVolume(both).filesystem = v.filesystem
    BY <2>2, <2>3, <2>4
  <2> QED BY <1>2, <2>4, <2>5, <2>6
<1>7. ASSUME q # <<>>, new \subseteq old
      PROVE  Validation(v, q) = "OK"
  <2>1. \A c \in new : Parses(c) /\ Fits(v, c)
    BY <1>2, <1>4, <1>5, <1>7 DEF Fits
  <2> QED BY <1>7, <2>1, ValidationMeans DEF new
<1> QED BY <1>6, <1>7 DEF v, old, new

(* Confirmation and creation agree, though one loop is not the other's.    *)
THEOREM ConfirmationsTrue == Spec => []ConfirmedAsCreated
<1>1. RInv => ConfirmedAsCreated
  <2> SUFFICES ASSUME RInv, asked # None PROVE ConfirmedAsCreated
    BY DEF ConfirmedAsCreated
  <2> DEFINE both == [request EXCEPT !.capabilities = @ \o asked]
  <2>1. /\ request \in CreateRequests /\ Acceptable(request)
        /\ volume = NewVolume(request) /\ answer = Validation(volume, asked)
        /\ asked \in Seq(Capabilities)
    BY RequestTypes, BoundedSeqType DEF RInv
  <2>2. /\ both.capabilities = request.capabilities \o asked
        /\ both.fs_type = request.fs_type /\ both.host_base_path = request.host_base_path
        /\ both.name = request.name /\ both.unknown_parameter = request.unknown_parameter
        /\ request.capabilities \in Seq(Capabilities)
    BY <2>1, BoundedSeqType DEF CreateRequests
  <2> HIDE DEF both
  <2>3. /\ answer = "OK" =>
             /\ Acceptable(both)
             /\ NewVolume(both).filesystem = volume.filesystem
             /\ Range(NewVolume(both).valid_configs) = Range(volume.valid_configs)
        /\ asked # <<>> /\ Range(asked) \subseteq Range(request.capabilities) => answer = "OK"
    BY <2>1, <2>2, ConfirmedFits
  <2> QED BY <2>3 DEF ConfirmedAsCreated, both
<1> QED BY <1>1, RequestInvariant, PTL

-------------------------------------------------------------------------------
(* Paths.                                                                  *)

(* What is left of a path that names a directory: a part of it that begins *)
(* with its name, and only slashes are cut off.                            *)
LEMMA TrimMeans ==
  ASSUME NEW C, NEW path \in Seq(C), NEW i \in DOMAIN path, ~IsSlash(path[i])
  PROVE  /\ Trim(path) \in Seq(C) /\ Trim(path) # <<>> /\ ~IsSlash(Trim(path)[1])
         /\ \E a, b \in 1..Len(path) :
              /\ a <= b /\ Trim(path) = SubSeq(path, a, b)
              /\ \A j \in 1..Len(path) : ~IsSlash(path[j]) => a <= j /\ j <= b
<1> DEFINE kept == {j \in DOMAIN path : ~IsSlash(path[j])}
<1>1. kept \in SUBSET Nat /\ kept # {} /\ DOMAIN path = 1..Len(path)
  OBVIOUS
<1>2. \A j \in kept : j <= Len(path)
  OBVIOUS
<1>3. Trim(path) = SubSeq(path, Min(kept), Max(kept))
  BY <1>1 DEF Trim
<1>4. \A j \in 1..Len(path) : j \in kept <=> ~IsSlash(path[j])
  OBVIOUS
<1>5. \A j \in kept : j \in 1..Len(path)
  OBVIOUS
<1> HIDE DEF kept
<1>6. Min(kept) \in kept /\ \A j \in kept : Min(kept) <= j
  BY <1>1, MinOf
<1>7. Max(kept) \in kept /\ \A j \in kept : j <= Max(kept)
  <2>1. Len(path) \in Nat
    OBVIOUS
  <2> QED BY <1>1, <1>2, <2>1, MaxOf
<1> DEFINE a == Min(kept)
           b == Max(kept)
<1>8. /\ a \in 1..Len(path) /\ b \in 1..Len(path) /\ a <= b /\ ~IsSlash(path[a])
      /\ \A j \in 1..Len(path) : ~IsSlash(path[j]) => a <= j /\ j <= b
  BY <1>4, <1>5, <1>6, <1>7
<1>9. Trim(path) = SubSeq(path, a, b)
  BY <1>3
<1> HIDE DEF a, b
<1>10. SubSeq(path, a, b) \in Seq(C) /\ Len(SubSeq(path, a, b)) = b - a + 1
  BY <1>8
<1>11. SubSeq(path, a, b)[1] = path[a]
  BY <1>8
<1>12. \E x, y \in 1..Len(path) :
         /\ x <= y /\ Trim(path) = SubSeq(path, x, y)
         /\ \A j \in 1..Len(path) : ~IsSlash(path[j]) => x <= j /\ j <= y
  BY <1>8, <1>9
<1>13. Trim(path) # <<>>
  BY SMTT(60), <1>8, <1>9, <1>10
<1>14. ~IsSlash(Trim(path)[1])
  BY <1>8, <1>9, <1>11
<1> QED BY <1>9, <1>10, <1>12, <1>13, <1>14

(* Cutting off slashes makes no component "..".                            *)
LEMMA TrimClimbs ==
  ASSUME NEW C, NEW path \in Seq(C), NEW a \in 1..Len(path), NEW b \in 1..Len(path), a <= b,
         \A j \in 1..Len(path) : ~IsSlash(path[j]) => a <= j /\ j <= b,
         Climbs(SubSeq(path, a, b))
  PROVE  Climbs(path)
<1> DEFINE part == SubSeq(path, a, b)
<1>1. Len(part) = b - a + 1 /\ \A j \in 1..Len(part) : part[j] = path[a + j - 1]
  OBVIOUS
<1> HIDE DEF part
<1>2. PICK i \in 1 .. Len(part) - 1 :
        /\ part[i] = "." /\ part[i + 1] = "."
        /\ i = 1 \/ part[i - 1] = "/"
        /\ i + 1 = Len(part) \/ part[i + 2] = "/"
  BY DEF Climbs, part
<1> DEFINE k == a + i - 1
<1>3. Len(path) \in Nat /\ k \in 1 .. Len(path) - 1 /\ i \in Int
  BY <1>1
<1>4. path[k] = "." /\ path[k + 1] = "."
  <2>1. part[i] = path[a + i - 1] /\ part[i + 1] = path[a + (i + 1) - 1]
    BY <1>1, <1>2
  <2>2. a + (i + 1) - 1 = k + 1
    BY <1>3
  <2> QED BY <1>2, <2>1, <2>2
<1>5. k = 1 \/ path[k - 1] = "/"
  <2>1. CASE i = 1
    <3>1. a = 1 \/ (a - 1 \in 1..Len(path) /\ ~(a <= a - 1))
      OBVIOUS
    <3>2. a = 1 \/ path[a - 1] = "/"
      BY <3>1 DEF IsSlash
    <3> QED BY <2>1, <3>2
  <2>2. CASE i # 1
    <3>1. i - 1 \in 1..Len(part) /\ a + (i - 1) - 1 = k - 1
      BY <1>1, <2>2
    <3>2. part[i - 1] = path[k - 1]
      BY <1>1, <3>1
    <3> QED BY <1>2, <2>2, <3>2
  <2> QED BY <2>1, <2>2
<1>6. k + 1 = Len(path) \/ path[k + 2] = "/"
  <2>1. CASE i + 1 = Len(part)
    <3>1. k + 1 = b
      BY <1>1, <2>1
    <3>2. b = Len(path) \/ (b + 1 \in 1..Len(path) /\ ~(b + 1 <= b))
      OBVIOUS
    <3>3. b = Len(path) \/ path[b + 1] = "/"
      BY <3>2 DEF IsSlash
    <3>4. b + 1 = k + 2
      BY <1>3, <3>1
    <3> QED BY <3>1, <3>3, <3>4
  <2>2. CASE i + 1 # Len(part)
    <3>1. i + 2 \in 1..Len(part) /\ a + (i + 2) - 1 = k + 2
      BY <1>1, <2>2
    <3>2. part[i + 2] = path[k + 2]
      BY <1>1, <3>1
    <3> QED BY <1>2, <2>2, <3>2
  <2> QED BY <2>1, <2>2
<1> HIDE DEF k
<1> QED BY <1>3, <1>4, <1>5, <1>6 DEF Climbs

(* Nor does a name that CreateVolume accepts, behind a slash.              *)
LEMMA NameClimbs ==
  ASSUME NEW C, NEW d \in Seq(C), NEW name \in Seq(C), "/" \in C, ValidName(name),
         Climbs(d \o <<"/">> \o name)
  PROVE  Climbs(d)
<1> DEFINE p == d \o <<"/">> \o name
           n == Len(d)
           m == Len(name)
<1>1. n \in Nat /\ m \in Nat /\ Len(p) = n + 1 + m
  OBVIOUS
<1>2. /\ \A j \in 1..n : p[j] = d[j]
      /\ p[n + 1] = "/"
      /\ \A j \in 1..m : p[n + 1 + j] = name[j]
  OBVIOUS
<1> HIDE DEF p
<1>3. PICK i \in 1 .. Len(p) - 1 :
        /\ p[i] = "." /\ p[i + 1] = "."
        /\ i = 1 \/ p[i - 1] = "/"
        /\ i + 1 = Len(p) \/ p[i + 2] = "/"
  BY DEF Climbs, p
<1>4. i # n + 1 /\ i + 1 # n + 1
  BY <1>2, <1>3
<1>5. CASE i < n
  <2>1. i \in 1 .. n - 1 /\ i + 1 \in 1..n /\ i + 1 # Len(p)
    BY <1>1, <1>5
  <2>2. d[i] = "." /\ d[i + 1] = "."
    <3>1. i \in 1..n /\ i + 1 \in 1..n
      BY <1>1, <2>1
    <3>2. p[i] = d[i] /\ p[i + 1] = d[i + 1]
      BY <1>2, <3>1
    <3> QED BY <1>3, <3>2
  <2>3. i = 1 \/ d[i - 1] = "/"
    <3>1. i = 1 \/ i - 1 \in 1..n
      BY <2>1
    <3> QED BY <1>2, <1>3, <3>1
  <2>4. i + 1 = n \/ d[i + 2] = "/"
    <3>1. i + 1 = n \/ i + 2 \in 1..n
      BY <1>1, <2>1
    <3> QED BY <1>2, <1>3, <2>1, <3>1
  <2> QED BY <2>1, <2>2, <2>3, <2>4 DEF Climbs
<1>6. CASE i > n + 1
  <2> DEFINE k == i - n - 1
  <2>1. k \in 1 .. m - 1 /\ k + 1 \in 1..m /\ i = n + 1 + k /\ i + 1 = n + 1 + (k + 1)
    BY <1>1, <1>6
  <2>2. name[k] = "." /\ name[k + 1] = "."
    <3>1. k \in 1..m /\ k + 1 \in 1..m
      BY <1>1, <2>1
    <3>2. p[n + 1 + k] = name[k] /\ p[n + 1 + (k + 1)] = name[k + 1]
      BY <1>2, <3>1
    <3> QED BY <1>3, <2>1, <3>2
  <2>3. k = 1 \/ name[k - 1] = "/"
    <3>1. k = 1 \/ (k - 1 \in 1..m /\ i - 1 = n + 1 + (k - 1) /\ i # 1)
      BY <1>1, <2>1
    <3> QED BY <1>2, <1>3, <3>1
  <2>4. k + 1 = m \/ (k + 2 \in 1..m /\ name[k + 2] = "/")
    <3>1. k + 1 = m \/ (k + 2 \in 1..m /\ i + 2 = n + 1 + (k + 2) /\ i + 1 # Len(p))
      BY SMTT(60), <1>1, <2>1
    <3> QED BY <1>2, <1>3, <3>1
  <2> HIDE DEF k
  <2>5. CASE k # 1
    <3> DEFINE part == <<"/", ".", ".">>
    <3>1. k - 2 \in 0 .. m - 3 /\ Len(part) = 3 /\ DOMAIN part = 1..3
      BY <1>1, <2>1, <2>5
    <3>2. /\ name[(k - 2) + 1] = part[1] /\ name[(k - 2) + 2] = part[2]
          /\ name[(k - 2) + 3] = part[3]
      BY <2>1, <2>2, <2>3, <2>5
    <3>3. \A j \in 1..3 : j = 1 \/ j = 2 \/ j = 3
      OBVIOUS
    <3> HIDE DEF part
    <3>4. Includes(name, part)
      BY <3>1, <3>2, <3>3 DEF Includes
    <3> QED BY <3>4 DEF ValidName, part
  <2>6. CASE k = 1 /\ m = 2
    <3>1. name = <<".", ".">>
      BY <2>2, <2>6
    <3> QED BY <3>1 DEF ValidName
  <2>7. CASE k = 1 /\ m # 2
    <3> DEFINE part == <<".", ".", "/">>
    <3>1. 0 \in 0 .. m - 3 /\ Len(part) = 3 /\ DOMAIN part = 1..3
      BY <1>1, <2>4, <2>7
    <3>2. name[0 + 1] = part[1] /\ name[0 + 2] = part[2] /\ name[0 + 3] = part[3]
      BY <2>2, <2>4, <2>7
    <3>3. \A j \in 1..3 : j = 1 \/ j = 2 \/ j = 3
      OBVIOUS
    <3> HIDE DEF part
    <3>4. Includes(name, part)
      BY <3>1, <3>2, <3>3 DEF Includes
    <3> QED BY <3>4 DEF ValidName, part
  <2> QED BY <2>5, <2>6, <2>7
<1> QED BY <1>1, <1>4, <1>5, <1>6

(* Joining a relative path to a directory leads below it.                  *)
LEMMA JoinBelow ==
  ASSUME NEW C, NEW directory \in Seq(C), NEW path \in Seq(C), "/" \in C,
         path # <<>>, ~IsSlash(path[1]), ~Climbs(path)
  PROVE  Within(directory, Join(directory, path))
<1>1. Join(directory, path) = directory \o <<"/">> \o path
  BY DEF Join, IsAbsolute
<1> DEFINE whole == directory \o <<"/">> \o path
           n == Len(directory)
<1>2. /\ n \in Nat /\ Len(path) \in Nat /\ whole \in Seq(C)
      /\ Len(whole) = n + 1 + Len(path)
      /\ \A j \in 1..Len(path) : whole[n + 1 + j] = path[j]
  OBVIOUS
<1> HIDE DEF whole, n
<1>3. SubSeq(whole, n + 2, Len(whole)) = path
  <2>1. SubSeq(whole, n + 2, Len(whole))
          = [j \in 1..Len(path) |-> whole[n + 2 + j - 1]]
    BY <1>2
  <2>2. \A j \in 1..Len(path) : n + 2 + j - 1 = n + 1 + j
    BY <1>2
  <2>3. path = [j \in 1..Len(path) |-> path[j]]
    OBVIOUS
  <2> QED BY <1>2, <2>1, <2>2, <2>3
<1> QED BY <1>1, <1>3 DEF Within, whole, n

LEMMA Characters ==
  ASSUME NEW path, path \in Seq(Range(path)), NEW C, Range(path) \subseteq C
  PROVE  path \in Seq(C)
<1>1. path \in [1..Len(path) -> Range(path)] /\ Len(path) \in Nat
  OBVIOUS
<1>2. path \in [1..Len(path) -> C]
  BY <1>1
<1> QED BY <1>1, <1>2

(* One file per volume for every host_base_path that names a directory; it *)
(* is below the prefix unless a component of host_base_path is "..", for   *)
(* the names that are accepted add none.                                   *)
THEOREM OneFileOnly == Spec => []OneFile
<1>1. RInv => OneFile
  <2> SUFFICES ASSUME RInv, volume # None, NEW i \in DOMAIN request.host_base_path,
                      ~IsSlash(request.host_base_path[i])
               PROVE  /\ PublishPath(volume) = TotalPath(volume)
                      /\ ~Climbs(request.host_base_path) => Within(HostPrefix, TotalPath(volume))
    BY DEF OneFile
  <2> DEFINE base == request.host_base_path
             name == request.name
             dir == Trim(base)
             C == Range(base) \cup Range(name) \cup Range(HostPrefix) \cup {"/"}
  <2>1. /\ ValidName(name) /\ volume = NewVolume(request)
        /\ base \in Bases /\ name \in Names
    BY RequestTypes DEF RInv, Acceptable, CreateRequests
  <2>2. base \in Seq(C) /\ name \in Seq(C) /\ HostPrefix \in Seq(C) /\ "/" \in C
    <3>1. /\ base \in Seq(Range(base)) /\ name \in Seq(Range(name))
          /\ HostPrefix \in Seq(Range(HostPrefix))
      BY <2>1, RequestsAssumption
    <3>2. Range(base) \subseteq C /\ Range(name) \subseteq C /\ Range(HostPrefix) \subseteq C
          /\ "/" \in C
      OBVIOUS
    <3> HIDE DEF base, name, C
    <3> QED BY <3>1, <3>2, Characters
  <2>3. i \in DOMAIN base /\ ~IsSlash(base[i])
    OBVIOUS
  <2>4. volume.host_path = dir \o <<"/">> \o name
    BY <2>1 DEF NewVolume, HostPath
  <2> HIDE DEF C, base, name
  <2>5. /\ dir \in Seq(C) /\ dir # <<>> /\ ~IsSlash(dir[1])
        /\ Climbs(dir) => Climbs(base)
    <3>1. dir \in Seq(C) /\ dir # <<>> /\ ~IsSlash(dir[1])
      BY <2>2, <2>3, TrimMeans
    <3>2. PICK a, b \in 1..Len(base) :
                /\ a <= b /\ dir = SubSeq(base, a, b)
                /\ \A j \in 1..Len(base) : ~IsSlash(base[j]) => a <= j /\ j <= b
      BY <2>2, <2>3, TrimMeans
    <3> HIDE DEF dir
    <3>3. Climbs(dir) => Climbs(base)
      BY <2>2, <3>2, TrimClimbs
    <3> QED BY <3>1, <3>3
  <2> HIDE DEF dir
  <2>6. /\ volume.host_path \in Seq(C) /\ volume.host_path # <<>>
        /\ volume.host_path[1] = dir[1]
    <3>1. dir \o <<"/">> \o name \in Seq(C) /\ (dir \o <<"/">> \o name)[1] = dir[1]
      BY <2>2, <2>5
    <3>2. Len(dir \o <<"/">> \o name) = Len(dir) + 1 + Len(name) /\ Len(dir) > 0
      BY <2>2, <2>5
    <3>3. dir \o <<"/">> \o name # <<>>
      BY <2>2, <2>5, <3>1, <3>2
    <3> QED BY <2>4, <3>1, <3>3
  <2>7. PublishPath(volume) = TotalPath(volume)
    <3>1. ~IsAbsolute(volume.host_path)
      BY <2>5, <2>6 DEF IsAbsolute
    <3> QED BY <3>1 DEF PublishPath, TotalPath
  <2>8. ~Climbs(base) => Within(HostPrefix, TotalPath(volume))
    <3>1. ~Climbs(base) => ~Climbs(volume.host_path)
      BY <2>1, <2>2, <2>4, <2>5, NameClimbs DEF name
    <3> QED BY <2>2, <2>5, <2>6, <3>1, JoinBelow DEF TotalPath
  <2> QED BY <2>7, <2>8 DEF base
<1> QED BY <1>1, RequestInvariant, PTL

-------------------------------------------------------------------------------
(* Statistics.                                                             *)

(* A remainder is off by a multiple of the modulus.                        *)
LEMMA Wrapped ==
  ASSUME NEW x \in Int
  PROVE  /\ x % Modulus \in 0..(Modulus - 1)
         /\ \E k \in Int : x % Modulus = x - Modulus * k
<1>1. Modulus \in Nat \ {0}
  BY RequestsAssumption
<1>2. x = (Modulus * (x \div Modulus)) + (x % Modulus) /\ x \div Modulus \in Int
  BY <1>1
<1>3. x % Modulus \in 0..(Modulus - 1)
  BY <1>1
<1>4. x % Modulus = x - Modulus * (x \div Modulus)
  BY <1>1, <1>2, <1>3
<1> QED BY <1>2, <1>3, <1>4

LEMMA SignedWraps ==
  ASSUME NEW x \in Int
  PROVE  \E k \in Int : AsSigned(x % Modulus) = x - Modulus * k
<1>1. PICK j \in Int : x % Modulus = x - Modulus * j
  BY Wrapped
<1>2. Modulus \in Nat \ {0} /\ x % Modulus \in Int
  BY Wrapped, RequestsAssumption
<1>3. CASE AsSigned(x % Modulus) = x % Modulus
  BY <1>1, <1>3
<1>4. CASE AsSigned(x % Modulus) = (x % Modulus) - Modulus
  <2>1. AsSigned(x % Modulus) = x - Modulus * (j + 1)
    BY <1>1, <1>2, <1>4
  <2> QED BY <2>1
<1> QED BY <1>3, <1>4 DEF AsSigned

LEMMA Unwrapped ==
  ASSUME NEW x \in Nat, 2 * x < Modulus
  PROVE  AsSigned(x % Modulus) = x
<1>1. Modulus \in Nat \ {0} /\ x < Modulus
  BY RequestsAssumption
<1>2. x % Modulus = x
  BY <1>1
<1> QED BY <1>2 DEF AsSigned

(* Remainders of products and differences are remainders of the whole.     *)
LEMMA SumWraps ==
  ASSUME NEW x \in Int, NEW y \in Int, NEW d \in Int,
         NEW b \in Int, NEW i \in Int,
         d = x - y - Modulus * i
  PROVE  (AsSigned(Product(y, b)) + AsSigned(Product(d, b)) - AsSigned(Product(x, b)))
           % Modulus = 0
<1>1. Modulus \in Int /\ Modulus # 0 /\ Modulus \in Nat \ {0}
  BY RequestsAssumption
<1>2. x * b \in Int /\ y * b \in Int /\ d * b \in Int
  OBVIOUS
<1>3. PICK j \in Int : AsSigned(Product(y, b)) = y * b - Modulus * j
  BY <1>2, SignedWraps DEF Product
<1>4. PICK k \in Int : AsSigned(Product(d, b)) = d * b - Modulus * k
  BY <1>2, SignedWraps DEF Product
<1>5. PICK l \in Int : AsSigned(Product(x, b)) = x * b - Modulus * l
  BY <1>2, SignedWraps DEF Product
<1>6. d * b = x * b - y * b - Modulus * (i * b)
  BY <1>1
<1> DEFINE total == AsSigned(Product(y, b)) + AsSigned(Product(d, b)) - AsSigned(Product(x, b))
           m == l - i * b - j - k
<1>7. m \in Int
  OBVIOUS
<1>8. total = Modulus * m
  BY <1>1, <1>2, <1>3, <1>4, <1>5, <1>6
<1> HIDE DEF total, m
<1>9. total % Modulus = 0
  BY <1>1, <1>7, <1>8
<1> QED BY <1>9 DEF total

(* What statvfs says of a filesystem, and what becomes of it.              *)
LEMMA UsageMeans ==
  ASSUME NEW s \in Statvfs
  PROVE  LET u == Usage(Statfs(s))
         IN  /\ (u.available + u.used - u.total) % Modulus = 0
             /\ 2 * s.f_blocks * s.f_bsize < Modulus =>
                  /\ u.available >= 0 /\ u.used >= 0
                  /\ u.total = s.f_blocks * s.f_bsize
                  /\ u.available + u.used = u.total
<1> DEFINE x == s.f_blocks
           y == s.f_bavail
           b == s.f_bsize
           d == Difference(x, y)
           u == Usage(Statfs(s))
<1>1. x \in 0 .. Modulus - 1 /\ y \in 0 .. x /\ b \in 0 .. Modulus - 1 /\ Modulus \in Nat \ {0}
  <2>1. /\ x \in 0..Blocks /\ s.f_bfree \in 0..Blocks /\ y \in 0..Blocks /\ b \in BlockSizes
        /\ y <= s.f_bfree /\ s.f_bfree <= x
    BY DEF Statvfs
  <2>2. Modulus \in Nat \ {0} /\ Blocks \in 0 .. Modulus - 1 /\ b \in 0 .. Modulus - 1
    BY <2>1, RequestsAssumption
  <2> QED BY <2>1, <2>2
<1>2. /\ u.available = AsSigned(Product(y, b))
      /\ u.total = AsSigned(Product(x, b))
      /\ u.used = AsSigned(Product(d, b))
  <2>1. s # None
    BY NoneAssumption
  <2> QED BY <2>1 DEF Usage, Statfs
<1> HIDE DEF x, y, b, u
<1>3. d = x - y /\ x \in Nat /\ y \in Nat /\ b \in Nat /\ d \in Nat
  BY <1>1 DEF Difference
<1> HIDE DEF d
<1>4. (u.available + u.used - u.total) % Modulus = 0
  <2>1. d = x - y - Modulus * 0
    BY <1>1, <1>3
  <2>2. x \in Int /\ y \in Int /\ b \in Int /\ d \in Int /\ 0 \in Int
    BY <1>3
  <2>3. (AsSigned(Product(y, b)) + AsSigned(Product(d, b)) - AsSigned(Product(x, b)))
          % Modulus = 0
    BY <2>1, <2>2, SumWraps
  <2> QED BY <1>2, <2>3
<1>5. ASSUME 2 * x * b < Modulus
      PROVE  /\ u.available >= 0 /\ u.used >= 0
             /\ u.total = x * b /\ u.available + u.used = u.total
  <2>1. x * b = y * b + d * b /\ x * b \in Nat /\ y * b \in Nat /\ d * b \in Nat
    BY <1>3
  <2>2. 2 * (x * b) < Modulus
    BY <1>3, <1>5
  <2>3. 2 * (y * b) < Modulus /\ 2 * (d * b) < Modulus
    BY <1>1, <2>1, <2>2
  <2>4. u.total = x * b /\ u.available = y * b /\ u.used = d * b
    BY <1>2, <2>1, <2>2, <2>3, Unwrapped DEF Product
  <2> QED BY <2>1, <2>4
<1> QED BY <1>4, <1>5 DEF x, b, u

(* The figures of a filesystem add up, and none wraps while the whole does *)
(* not.                                                                    *)
THEOREM FiguresAddUp == Spec => []UsageAddsUp
<1>1. RInv => UsageAddsUp
  <2> SUFFICES ASSUME RInv, request.rpc = "NodeGetVolumeStats", answer # None,
                      request.statvfs # None
               PROVE  UsageAddsUp
    BY DEF UsageAddsUp
  <2>1. answer = Usage(Statfs(request.statvfs)) /\ request.statvfs \in Statvfs
    BY RequestTypes DEF RInv, StatsRequests
  <2> QED BY <2>1, UsageMeans DEF UsageAddsUp
<1> QED BY <1>1, RequestInvariant, PTL
===============================================================================
