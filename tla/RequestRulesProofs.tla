------------------------- MODULE RequestRulesProofs -------------------------
(***************************************************************************)
(* Theorems about the rules in the order RequestRulesMC applies them to    *)
(* one disk, for all sizes, units and topologies: a disk is created as it  *)
(* was asked for, recognised when it is asked for again, placed where the  *)
(* request allows, and grown enough and not beyond the maximum.            *)
(***************************************************************************)
EXTENDS RequestRulesMC, RequestRulesLemmas

\* The disk the request asks for, in the words of the API.
IsCreated ==
    LET d == GetCreateDiskRequest(request, Location, type) IN
    /\ ValidateDiskRequest(request, type) = "OK"
    /\ type = FS => Location # NoLocation
    /\ \E size \in Renderings(d.size.n) : disk = [d EXCEPT !.size = size]

HasSize ==
    /\ "size" \in DOMAIN disk
    /\ NormalizeDiskSizeToGiB(disk.size) \in Int

\* The properties speak of a disk; what is known of it is how it was asked
\* for, and, once it was resized, that it has a size.
RulesInv ==
    /\ type \in DiskTypes
    /\ request \in Requests
    /\ stage = "created" => IsCreated
    /\ stage = "expanded" => HasSize

-----------------------------------------------------------------------------
(* Requests *)

\* A request's range is a pair of numbers and its topology a sequence.
LEMMA RequestFacts ==
  ASSUME NEW r \in Requests
  PROVE  /\ RequestSizeToBytes(r.range) \in Int
         /\ DOMAIN r.topology \subseteq Nat
<1>1. r.range \in Ranges(CreateSizes \cup {-1}) /\ r.topology \in Topologies
  BY DEF Requests
<1>2. CreateSizes \cup {-1} \subseteq Int
  BY RequestsAssumption
<1>3. r.range.required \in Int /\ r.range.limit \in Int
  BY <1>1, <1>2 DEF Ranges
<1>4. RequestSizeToBytes(r.range) \in Int
  BY <1>3 DEF RequestSizeToBytes
<1>5. ASSUME NEW topology \in Topologies PROVE DOMAIN topology \subseteq Nat
  <2>1. PICK n \in 0 .. MaxSegments : topology \in [1 .. n -> Segments]
    BY DEF Topologies
  <2> QED
    BY <2>1, RequestsAssumption
<1> QED
  BY <1>1, <1>4, <1>5

\* A size reworded is the same size.
LEMMA RenderingsAgree ==
  ASSUME NEW n \in Int, NEW size \in Renderings(n)
  PROVE  NormalizeDiskSizeToGiB(size) = n
<1>1. CASE size = [n |-> n, unit |-> "GiB"]
  BY <1>1 DEF NormalizeDiskSizeToGiB
<1>2. CASE n % NumGiBInTiB = 0 /\ size = [n |-> n \div NumGiBInTiB, unit |-> "TiB"]
  <2>1. NormalizeDiskSizeToGiB(size) = (n \div NumGiBInTiB) * NumGiBInTiB
    BY <1>2 DEF NormalizeDiskSizeToGiB
  <2> QED
    BY <1>2, <2>1, DivideExactly, UnitsAssumption
<1> QED
  BY <1>1, <1>2 DEF Renderings

\* The limits of a disk type are whole numbers of GiB, and so is the step
\* between the sizes of new disks.
LEMMA LimitsAreWhole ==
  ASSUME NEW t \in DiskTypes
  PROVE  /\ \E k \in Int : MaxSize(t) = NumBytesInGiB * k
         /\ \E k \in Nat \ {0} : MinSize(t) = NumBytesInGiB * k
         /\ \E k \in Nat \ {0} : SizeIncrement(t) = NumBytesInGiB * k
<1>1. ASSUME NEW a \in Int, NEW b \in Int, NEW c \in Int
      PROVE  a * b * c = a * (b * c)
  BY <1>1
<1>2. NumGiBInTiB * 10 \in Int /\ NumGiBInTiB * 1000 \in Int
  BY UnitsAssumption
<1>3. CASE t = SSD
  BY <1>1, <1>2, <1>3, UnitsAssumption DEF MaxSize, MinSize, SizeIncrement
<1>4. CASE t # SSD
  BY <1>1, <1>2, <1>4, UnitsAssumption DEF MaxSize, MinSize, SizeIncrement
<1> QED
  BY <1>3, <1>4

\* A size validateDiskRequest lets through is a whole number of GiB.
LEMMA ValidIsWhole ==
  ASSUME NEW r \in Requests, NEW t \in DiskTypes, ValidateDiskRequest(r, t) = "OK"
  PROVE  LET b == RequestSizeToBytes(r.range) IN
         /\ b \in MinSize(t) .. MaxSize(t)
         /\ CeilGiB(b) \in Int
         /\ CeilGiB(b) > 0
         /\ NumBytesInGiB * CeilGiB(b) = b
<1> DEFINE b == RequestSizeToBytes(r.range)
<1>1. b \in Int
  BY RequestFacts
<1>2. /\ ~(b > MaxSize(t))
      /\ ~(b < MinSize(t))
      /\ b % SizeIncrement(t) = 0
  BY DEF ValidateDiskRequest
<1> HIDE DEF b
<1>3. PICK k \in Int : MaxSize(t) = NumBytesInGiB * k
  BY LimitsAreWhole
<1>4. PICK m \in Nat \ {0} : MinSize(t) = NumBytesInGiB * m
  BY LimitsAreWhole
<1>5. PICK i \in Nat \ {0} : SizeIncrement(t) = NumBytesInGiB * i
  BY LimitsAreWhole
<1>6. NumBytesInGiB * k \in Int /\ NumBytesInGiB * m \in Nat \ {0} /\ NumBytesInGiB * i \in Nat \ {0}
  BY UnitsAssumption
<1>7. b \in MinSize(t) .. MaxSize(t) /\ b > 0
  BY <1>1, <1>2, <1>3, <1>4, <1>6
<1> DEFINE q == b \div SizeIncrement(t)
<1>8. q \in Int /\ q * (NumBytesInGiB * i) = b
  BY <1>1, <1>2, <1>5, <1>6, DivideExactly
<1> HIDE DEF q
<1>9. ASSUME NEW x \in Int, NEW n \in Int, NEW y \in Int
      PROVE  x * (n * y) = n * (x * y) /\ x * y \in Int
  BY <1>9
<1>10. b = NumBytesInGiB * (q * i) /\ q * i \in Int
  BY <1>5, <1>8, <1>9, UnitsAssumption
<1>11. CeilGiB(b) = q * i
  BY <1>10, CeilOfWhole
<1>12. NumBytesInGiB * CeilGiB(b) = b
  BY <1>10, <1>11
<1>13. ASSUME NEW n \in Nat \ {0}, NEW x \in Int, n * x > 0
       PROVE  x > 0
  BY <1>13
<1>14. CeilGiB(b) > 0
  BY <1>7, <1>10, <1>11, <1>12, <1>13, UnitsAssumption
<1> QED
  BY <1>7, <1>10, <1>11, <1>12, <1>14 DEF b

\* The size of a disk that was created.
LEMMA CreatedSize ==
  ASSUME type \in DiskTypes, request \in Requests, IsCreated
  PROVE  NormalizeDiskSizeToGiB(disk.size) = RequestSizeToGiB(request.range)
<1> DEFINE d == GetCreateDiskRequest(request, Location, type)
<1>1. PICK size \in Renderings(d.size.n) : disk = [d EXCEPT !.size = size]
  BY DEF IsCreated
<1>2. d.size.n = RequestSizeToGiB(request.range)
  BY DEF GetCreateDiskRequest
<1>3. disk.size = size
  BY <1>1 DEF GetCreateDiskRequest
<1>4. RequestSizeToGiB(request.range) \in Int
  BY ValidIsWhole DEF IsCreated, RequestSizeToGiB
<1> QED
  BY <1>1, <1>2, <1>3, <1>4, RenderingsAgree

\* A disk that was created has a size.
LEMMA CreatedHasSize ==
  ASSUME type \in DiskTypes, request \in Requests, IsCreated
  PROVE  HasSize
<1>1. "size" \in DOMAIN disk
  BY DEF IsCreated, GetCreateDiskRequest
<1>2. RequestSizeToGiB(request.range) \in Int
  BY ValidIsWhole DEF IsCreated, RequestSizeToGiB
<1> QED
  BY <1>1, <1>2, CreatedSize DEF HasSize

\* A disk that is resized has the size that was sent, which is enough by less
\* than one GiB.
LEMMA ResizedSize ==
  ASSUME HasSize, NEW range \in Ranges(ExpandSizes),
         NEW size \in Renderings(ResizeRequest(range).n),
         disk' = [disk EXCEPT !.size = size]
  PROVE  /\ RequestSizeToBytes(range) \in Int
         /\ HasSize'
         /\ NormalizeDiskSizeToGiB(disk'.size) = CeilGiB(RequestSizeToBytes(range))
<1>1. range.required \in Int /\ range.limit \in Int
  BY RequestsAssumption DEF Ranges
<1>2. RequestSizeToBytes(range) \in Int
  BY <1>1 DEF RequestSizeToBytes
<1>3. ResizeRequest(range).n = CeilGiB(RequestSizeToBytes(range))
  BY DEF ResizeRequest, RequestSizeToGiB
<1>4. CeilGiB(RequestSizeToBytes(range)) \in Int
  BY <1>2, CeilIsEnough
<1>5. NormalizeDiskSizeToGiB(size) = CeilGiB(RequestSizeToBytes(range))
  BY <1>3, <1>4, RenderingsAgree
<1>6. disk'.size = size /\ "size" \in DOMAIN disk'
  BY DEF HasSize
<1> QED
  BY <1>2, <1>4, <1>5, <1>6 DEF HasSize

-----------------------------------------------------------------------------
(* The invariant *)

LEMMA RulesInvHolds == Spec => []RulesInv
<1>1. Init => RulesInv
  BY DEF Init, RulesInv
<1>2. RulesInv /\ [Next]_vars => RulesInv'
  <2> SUFFICES ASSUME RulesInv, [Next]_vars PROVE RulesInv'
    OBVIOUS
  <2>1. CASE Refuse
    BY <2>1 DEF Refuse, RulesInv
  <2>2. CASE Create
    <3>1. IsCreated'
      BY <2>2 DEF Create, IsCreated, Location
    <3> QED
      BY <2>2, <3>1 DEF Create, RulesInv
  <2>3. CASE Expand
    <3>1. HasSize
      BY <2>3, CreatedHasSize DEF Expand, RulesInv
    <3>2. HasSize'
      BY <2>3, <3>1, ResizedSize DEF Expand
    <3> QED
      BY <2>3, <3>2 DEF Expand, RulesInv
  <2>4. CASE UNCHANGED vars
    BY <2>4 DEF vars, RulesInv, IsCreated, Location, HasSize
  <2> QED
    BY <2>1, <2>2, <2>3, <2>4 DEF Next
<1> QED
  BY <1>1, <1>2, PTL DEF Spec

-----------------------------------------------------------------------------
(* The theorems *)

\* A new disk has exactly the size asked for, a size the driver advertises
\* (validateDiskRequest, getCreateDiskRequest).
THEOREM SizesAreExact == Spec => []CreatedExactly
<1>1. RulesInv => CreatedExactly
  <2> SUFFICES ASSUME RulesInv, stage = "created"
               PROVE  /\ CapacityOf(disk) = RequestSizeToBytes(request.range)
                      /\ CapacityOf(disk) \in MinSize(type) .. MaxSize(type)
    BY DEF CreatedExactly
  <2>1. type \in DiskTypes /\ request \in Requests /\ IsCreated
    BY DEF RulesInv
  <2>2. CapacityOf(disk) = NumBytesInGiB * CeilGiB(RequestSizeToBytes(request.range))
    BY <2>1, CreatedSize DEF CapacityOf, RequestSizeToGiB
  <2> QED
    BY <2>1, <2>2, ValidIsWhole DEF IsCreated
<1> QED
  BY <1>1, RulesInvHolds, PTL

\* A repeated request recognises the disk it made, however the API words its
\* size (checkDiskMatchesRequest).
THEOREM RepeatsAreAccepted == Spec => []RepeatIsAccepted
<1>1. RulesInv => RepeatIsAccepted
  <2> SUFFICES ASSUME RulesInv, stage = "created"
               PROVE  CheckDiskMatchesRequest(disk, request, Location, type)
    BY DEF RepeatIsAccepted
  <2>1. type \in DiskTypes /\ request \in Requests /\ IsCreated
    BY DEF RulesInv
  <2>2. /\ disk.name = DiskName(request.name)
        /\ disk.type = type
        /\ disk.location = Location
        /\ type = SSD => disk.blockSize = BlockSizeSSD
    BY <2>1 DEF IsCreated, GetCreateDiskRequest
  <2>3. /\ RequestSizeToGiB(request.range) \in Int
        /\ RequestSizeToGiB(request.range) > 0
    BY <2>1, ValidIsWhole DEF IsCreated, RequestSizeToGiB
  <2>4. NormalizeDiskSizeToGiB(disk.size) = RequestSizeToGiB(request.range)
    BY <2>1, CreatedSize
  <2> QED
    BY <2>2, <2>3, <2>4 DEF CheckDiskMatchesRequest, SizeError
<1> QED
  BY <1>1, RulesInvHolds, PTL

\* A disk is placed where the request allows (parseRequiredTopology).
THEOREM PlacesAreAllowed == Spec => []PlacedAsRequired
<1>1. RulesInv => PlacedAsRequired
  <2> SUFFICES ASSUME RulesInv, stage = "created" PROVE PlacedAsRequired
    BY DEF PlacedAsRequired
  <2>1. type \in DiskTypes /\ request \in Requests /\ IsCreated
    BY DEF RulesInv
  <2>2. disk.location = Location
    BY <2>1 DEF IsCreated, GetCreateDiskRequest
  <2>3. type = SSD \/ (type = FS /\ Location # NoLocation)
    BY <2>1 DEF IsCreated, DiskTypes
  <2>4. DOMAIN request.topology \subseteq Nat
    BY <2>1, RequestFacts
  <2>5. CASE \E i \in DOMAIN request.topology :
               /\ Suitable(request.topology[i], type)
               /\ Location = request.topology[i].location
    BY <2>2, <2>5 DEF PlacedAsRequired, Suitable
  <2>6. CASE /\ \A i \in DOMAIN request.topology : ~Suitable(request.topology[i], type)
             /\ Location = IF type = SSD THEN HostLocation ELSE NoLocation
    <3>1. type = SSD
      BY <2>3, <2>6
    <3>2. \A i \in DOMAIN request.topology : request.topology[i].location = NoLocation
      BY <2>6, <3>1 DEF Suitable, SSD, FS
    <3> QED
      BY <2>2, <2>6, <3>1, <3>2 DEF PlacedAsRequired
  <2> QED
    BY <2>4, <2>5, <2>6, FirstSuitable DEF Location
<1> QED
  BY <1>1, RulesInvHolds, PTL

\* An expansion is enough, by less than a GiB, and stays below the maximum
\* although the size is rounded after it was tested (ControllerExpandVolume).
THEOREM ExpansionsAreEnough == Spec => ExpandedEnough
<1> DEFINE Grows == stage' = "expanded" =>
                      /\ CapacityOf(disk') > CapacityOf(disk)
                      /\ CapacityOf(disk') - wanted' \in 0 .. NumBytesInGiB - 1
                      /\ CapacityOf(disk') <= MaxSize(type)
<1>1. RulesInv /\ [Next]_vars => [Grows]_vars
  <2> SUFFICES ASSUME RulesInv, Next, stage' = "expanded" PROVE Grows
    OBVIOUS
  <2>1. Expand
    BY DEF Next, Refuse, Create
  <2>2. type \in DiskTypes /\ HasSize
    BY <2>1, CreatedHasSize DEF Expand, RulesInv
  <2>3. PICK range \in Ranges(ExpandSizes) :
          /\ ValidateExpandRequest(range, type) = "OK"
          /\ ~AlreadyLargeEnough(disk, range)
          /\ \E size \in Renderings(ResizeRequest(range).n) :
               disk' = [disk EXCEPT !.size = size]
          /\ wanted' = RequestSizeToBytes(range)
    BY <2>1 DEF Expand
  <2> DEFINE b == RequestSizeToBytes(range)
  <2>4. b \in Int /\ NormalizeDiskSizeToGiB(disk'.size) = CeilGiB(b)
    BY <2>2, <2>3, ResizedSize
  <2>5. ~(b > MaxSize(type)) /\ ~(CapacityOf(disk) >= b)
    BY <2>3 DEF ValidateExpandRequest, AlreadyLargeEnough
  <2> HIDE DEF b
  <2>6. CapacityOf(disk') = NumBytesInGiB * CeilGiB(b)
    BY <2>4 DEF CapacityOf
  <2>7. /\ CapacityOf(disk') \in Int
        /\ CapacityOf(disk') >= b
        /\ CapacityOf(disk') < b + NumBytesInGiB
    BY <2>4, <2>6, CeilIsEnough
  <2>8. CapacityOf(disk) \in Int
    BY <2>2, UnitsAssumption DEF CapacityOf, HasSize
  <2>9. CapacityOf(disk') <= MaxSize(type)
    <3>1. PICK k \in Int : MaxSize(type) = NumBytesInGiB * k
      BY <2>2, LimitsAreWhole
    <3>2. NumBytesInGiB * k \in Int
      BY UnitsAssumption
    <3> QED
      BY <2>4, <2>5, <2>6, <3>1, <3>2, CeilKeepsLimit
  <2>10. CapacityOf(disk') > CapacityOf(disk)
    BY <2>4, <2>5, <2>7, <2>8
  <2>11. CapacityOf(disk') - b \in 0 .. NumBytesInGiB - 1
    BY <2>4, <2>7, UnitsAssumption
  <2> QED
    BY <2>3, <2>9, <2>10, <2>11 DEF b
<1> QED
  BY <1>1, RulesInvHolds, PTL DEF Spec, ExpandedEnough
=============================================================================
