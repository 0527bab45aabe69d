------------------------- MODULE PostRecord_proofs -------------------------
(***************************************************************************)
(* What the answers of the collector mean and what becomes of a good       *)
(* report, for any requests, workers, attempts and failures.               *)
(***************************************************************************)
EXTENDS PostRecord, FiniteSetTheorems, TLAPS

Passed == Verdict(request) = 201

(* Only a request that passes the checks gets beyond them, only a stored   *)
(* one is answered with 201, and only one that does not pass with 400.     *)
PassedInv  == (rows > 0 \/ \E w \in Worker : handler[w] \notin {"idle", "validate"}) => Passed
StoredInv  == (client = "stored" \/ \E w \in Worker : handler[w] = "respond") => rows > 0
RefusedInv == client = "refused" => ~Passed

(* The parts of TypeOK that the argument needs.                            *)
StageInv ==
    /\ request \in Requests
    /\ client \in {"posting", "stored", "refused"}
    /\ handler \in [Worker -> {"idle", "validate", "insert", "commit", "respond"}]
    /\ waits \in [Worker -> BOOLEAN]
    /\ rows \in Nat

IInv == StageInv /\ PassedInv /\ StoredInv /\ RefusedInv
-----------------------------------------------------------------------------
LEMMA InitInv == Init => IInv
  BY DEF Init, IInv, StageInv, PassedInv, StoredInv, RefusedInv

LEMMA StageStep ==
  ASSUME StageInv, [Next]_vars
  PROVE  StageInv'
  <1>. USE DEF StageInv
  <1>1. ASSUME NEW w \in Worker, Post(w) \/ GiveUp(w)
        PROVE  StageInv'
    BY <1>1 DEF Post, GiveUp, Proceed
  <1>2. ASSUME NEW w \in Worker, NEW code, Answer(w, code)
        PROVE  /\ client' \in {"posting", "stored", "refused"}
               /\ handler' \in [Worker -> {"idle", "validate", "insert", "commit", "respond"}]
               /\ waits' \in [Worker -> BOOLEAN]
    BY <1>2 DEF Answer, Proceed
  <1>3. ASSUME NEW w \in Worker, Check(w)
        PROVE  StageInv'
    BY <1>2, <1>3 DEF Check, Proceed
  <1>4. ASSUME NEW w \in Worker, Insert(w) \/ Commit(w)
        PROVE  StageInv'
    BY <1>2, <1>4 DEF Insert, Commit, Proceed
  <1>5. ASSUME NEW w \in Worker, Respond(w) \/ Fail(w)
        PROVE  StageInv'
    BY <1>2, <1>5 DEF Respond, Fail
  <1>6. CASE UNCHANGED vars
    BY <1>6 DEF vars
  <1>. QED
    BY <1>1, <1>3, <1>4, <1>5, <1>6 DEF Next, Handle

(* The report is the same every time it is posted.                         *)
LEMMA SameReport == ASSUME [Next]_vars PROVE request' = request
  BY DEF Next, Post, GiveUp, Handle, Check, Insert, Commit, Respond, Fail, vars

LEMMA AnswerStep ==
  ASSUME IInv, [Next]_vars
  PROVE  PassedInv' /\ StoredInv' /\ RefusedInv'
  <1>. USE DEF IInv, StageInv
  <1>0. Passed' = Passed
    BY SameReport DEF Passed
  <1>. SUFFICES /\ (rows' > 0 \/ \E w \in Worker : handler'[w] \notin {"idle", "validate"}) => Passed
                /\ (client' = "stored" \/ \E w \in Worker : handler'[w] = "respond") => rows' > 0
                /\ client' = "refused" => ~Passed
    BY <1>0 DEF PassedInv, StoredInv, RefusedInv
  <1>. USE DEF PassedInv, StoredInv, RefusedInv
  <1>1. CASE \E w \in Worker : Post(w) \/ GiveUp(w)
    BY <1>1 DEF Post, GiveUp, Proceed
  <1>2. ASSUME NEW w \in Worker, Check(w)
        PROVE  /\ (rows' > 0 \/ \E v \in Worker : handler'[v] \notin {"idle", "validate"}) => Passed
               /\ (client' = "stored" \/ \E v \in Worker : handler'[v] = "respond") => rows' > 0
               /\ client' = "refused" => ~Passed
    <2>1. CASE Passed
      BY <1>2, <2>1 DEF Check, Proceed, Passed
    <2>2. CASE ~Passed
      BY <1>2, <2>2 DEF Check, Answer, Proceed, Passed
    <2>. QED BY <2>1, <2>2
  <1>3. ASSUME NEW w \in Worker, Insert(w)
        PROVE  /\ (rows' > 0 \/ \E v \in Worker : handler'[v] \notin {"idle", "validate"}) => Passed
               /\ (client' = "stored" \/ \E v \in Worker : handler'[v] = "respond") => rows' > 0
               /\ client' = "refused" => ~Passed
    BY <1>3 DEF Insert, Answer, Proceed
  <1>4. CASE \E w \in Worker : Commit(w)
    BY <1>4 DEF Commit, Proceed
  <1>5. CASE \E w \in Worker : Respond(w)
    BY <1>5 DEF Respond, Answer, Proceed
  <1>6. CASE \E w \in Worker : Fail(w)
    BY <1>6 DEF Fail, Answer, Proceed
  <1>7. CASE UNCHANGED vars
    BY <1>7 DEF vars
  <1>. QED
    BY <1>1, <1>2, <1>3, <1>4, <1>5, <1>6, <1>7 DEF Next, Handle

LEMMA Invariant == Spec => []IInv
  <1>1. IInv /\ [Next]_vars => IInv'
    BY StageStep, AnswerStep DEF IInv
  <1>. QED
    BY InitInv, <1>1, PTL DEF Spec

(* 201 means stored, 400 means never stored (collector_post_handler).      *)
THEOREM AnswersFinal == Spec => []AnswersAreFinal
  <1>1. IInv => AnswersAreFinal
    BY DEF IInv, StageInv, PassedInv, StoredInv, RefusedInv, AnswersAreFinal
  <1>. QED
    BY <1>1, Invariant, PTL
-----------------------------------------------------------------------------
(* The first of the checks that fail.                                      *)
LEMMA FirstOf ==
  ASSUME NEW S \in SUBSET (1..17), S # {}
  PROVE  \E i \in S : \A j \in S : i <= j
  <1>. SUFFICES ASSUME \A i \in S : \E j \in S : j < i
                PROVE  FALSE
    OBVIOUS
  <1>1. S \cap 1..4 = {}
    OBVIOUS
  <1>2. S \cap 1..8 = {}
    BY <1>1
  <1>3. S \cap 1..12 = {}
    BY <1>2
  <1>4. S \cap 1..16 = {}
    BY <1>3
  <1>5. 17 \notin S
    BY <1>4
  <1>6. PICK i \in S : i \in 1..17
    OBVIOUS
  <1>7. i \in 1..16 \/ i = 17
    BY <1>6
  <1>. QED
    BY <1>4, <1>5, <1>7

(* A request passes when each of its checks does.                          *)
LEMMA EachCheck ==
  ASSUME NEW q, Verdict(q) = 201, NEW i \in 1..17
  PROVE  Checks(q)[i] = 201
  <1>. DEFINE failing == {j \in 1..Len(Checks(q)) : Checks(q)[j] # 201}
  <1>1. Len(Checks(q)) = 17
    BY DEF Checks
  <1>2. failing \in SUBSET (1..17)
    BY <1>1
  <1>3. failing # {} => \E j \in failing : \A k \in failing : j <= k
    <2>. HIDE DEF failing
    <2>. QED BY <1>2, FirstOf
  <1>4. failing = {}
    <2>1. SUFFICES ASSUME failing # {} PROVE FALSE
      OBVIOUS
    <2>2. (CHOOSE j \in failing : \A k \in failing : j <= k) \in failing
      <3>. HIDE DEF failing
      <3>. QED BY <1>3, <2>1
    <2>3. Verdict(q) = Checks(q)[CHOOSE j \in failing : \A k \in failing : j <= k]
      BY <2>1 DEF Verdict
    <2>. QED BY <2>2, <2>3
  <1>. QED BY <1>1, <1>4

(* So it has every header its version requires, with a value its validator *)
(* takes.                                                                  *)
LEMMA PassedIsComplete ==
  ASSUME NEW q \in Requests, Verdict(q) = 201, NEW h \in Required(q)
  PROVE  q[h] \in {"good", "odd", "huge"} \cup Plain
  <1>1. /\ Version(q) \in Plain
        /\ h \in Header
    BY DEF Required, Plain, Header, RequiredV4, RequiredV3, RequiredV2, RequiredV1
  <1>2. CASE h = "Record-Format-Version"
    BY <1>1, <1>2 DEF Version
  <1>3. CASE h # "Record-Format-Version"
    <2>1. q[h] \in {"good", "bad", "odd", "huge"}
      <3>1. Checks(q)[3] = RequiredHeaders(q)
        BY DEF Checks
      <3>2. q[h] # "missing"
        BY <3>1, EachCheck DEF RequiredHeaders
      <3>. QED
        BY <1>1, <1>3, <3>2, RequestAssumption DEF Value
    <2>2. CASE h = "System-Name"
      BY <2>1, <2>2, RequestAssumption
    <2>3. CASE h \in {"X-Telemetry-Tid", "Severity", "Classification", "Machine-Id"}
      <3>1. /\ Checks(q)[1] = Validate(q, "X-Telemetry-Tid")
            /\ Checks(q)[4] = Validate(q, "Severity")
            /\ Checks(q)[5] = Validate(q, "Classification")
            /\ Checks(q)[6] = Validate(q, "Machine-Id")
        BY DEF Checks
      <3>2. Validate(q, h) = 201
        BY <2>3, <3>1, EachCheck
      <3>. QED BY <3>2 DEF Validate
    <2>4. CASE h \in {"Arch", "Host-Type", "Kernel-Version", "Payload-Format-Version"}
      <3>1. /\ Checks(q)[8] = Validate(q, "Arch")
            /\ Checks(q)[9] = Validate(q, "Host-Type")
            /\ Checks(q)[10] = Validate(q, "Kernel-Version")
            /\ Checks(q)[17] = Validate(q, "Payload-Format-Version")
        BY DEF Checks
      <3>2. Validate(q, h) = 201
        BY <2>4, <3>1, EachCheck
      <3>. QED BY <3>2 DEF Validate
    <2>5. CASE h \in {"Creation-Timestamp", "Build"}
      <3>1. /\ Checks(q)[7] = Timestamp(q)
            /\ Checks(q)[16] = Build(q)
        BY DEF Checks
      <3>2. Timestamp(q) = 201 /\ Build(q) = 201
        BY <3>1, EachCheck
      <3>. QED BY <2>1, <2>5, <3>2 DEF Timestamp, Build, Validate
    <2>6. CASE h \in {"Board-Name", "Cpu-Model", "Bios-Version", "Event-Id"}
      <3>1. /\ Checks(q)[11] = V3Header(q, "Board-Name")
            /\ Checks(q)[12] = V3Header(q, "Cpu-Model")
            /\ Checks(q)[13] = V3Header(q, "Bios-Version")
            /\ Checks(q)[14] = V4Header(q, "Event-Id")
        BY DEF Checks
      <3>2. /\ Version(q) \in {"3", "4"}
            /\ h = "Event-Id" => Version(q) = "4"
        BY <1>1, <2>6 DEF Required, Plain, RequiredV4, RequiredV3, RequiredV2, RequiredV1
      <3>3. CASE h = "Event-Id"
        <4>1. V4Header(q, h) = 201
          BY <3>1, <3>3, EachCheck
        <4>. QED BY <3>2, <3>3, <4>1 DEF V4Header, Validate
      <3>4. CASE h # "Event-Id"
        <4>1. V3Header(q, h) = 201
          BY <2>6, <3>1, <3>4, EachCheck
        <4>. QED BY <3>2, <4>1 DEF V3Header, Validate
      <3>. QED BY <3>3, <3>4
    <2>. QED
      BY <1>1, <1>3, <2>2, <2>3, <2>4, <2>5, <2>6
         DEF Header, RequiredV4, RequiredV3, RequiredV2, RequiredV1
  <1>. QED BY <1>2, <1>3

(* A stored record came with the headers of its version (validation.py).   *)
THEOREM StoredComplete == Spec => []StoredIsComplete
  <1>1. IInv => StoredIsComplete
    BY PassedIsComplete DEF IInv, StageInv, PassedInv, Passed, StoredIsComplete
  <1>. QED
    BY <1>1, Invariant, PTL
-----------------------------------------------------------------------------
(* Each row, and each worker that may still store one, is of an attempt of *)
(* its own; the client waits for one answer at most.                       *)
Working == {w \in Worker : handler[w] \in {"validate", "insert", "commit"}}

CountInv == IsFiniteSet(Working) /\ rows + Cardinality(Working) <= attempts

WaitInv ==
  /\ \A v, w \in Worker : waits[v] /\ waits[w] => v = w
  /\ \A w \in Worker : waits[w] => handler[w] # "idle"

BoundInv == attempts \in 0..MaxAttempts /\ fails \in 0..MaxFails

TypeInv == StageInv /\ BoundInv /\ WaitInv /\ CountInv

(* Fewer workers at it, and nothing else changed.                          *)
LEMMA FewerWork ==
  ASSUME TypeInv, Working' \subseteq Working, UNCHANGED <<rows, attempts>>
  PROVE  CountInv'
  <1>. DEFINE W == Working'
  <1>1. W \in SUBSET Working /\ IsFiniteSet(Working) /\ Cardinality(Working) \in Nat
    BY FS_CardinalityType DEF TypeInv, CountInv
  <1>. HIDE DEF W
  <1>2. IsFiniteSet(W) /\ Cardinality(W) <= Cardinality(Working)
    BY <1>1, FS_Subset
  <1>3. Cardinality(W) \in Nat /\ rows \in Nat /\ attempts \in Nat
    BY <1>2, FS_CardinalityType, RequestAssumption DEF TypeInv, StageInv, BoundInv
  <1>4. rows + Cardinality(W) <= attempts
    BY <1>1, <1>2, <1>3 DEF TypeInv, CountInv
  <1>. QED
    BY <1>2, <1>4 DEF CountInv, W

LEMMA CountStep ==
  ASSUME TypeInv, [Next]_vars
  PROVE  CountInv'
  <1>0. /\ IsFiniteSet(Working) /\ Cardinality(Working) \in Nat
        /\ rows \in Nat /\ attempts \in Nat /\ rows + Cardinality(Working) <= attempts
    BY FS_CardinalityType, RequestAssumption DEF TypeInv, StageInv, BoundInv, CountInv
  <1>1. ASSUME NEW w \in Worker, Post(w) PROVE CountInv'
    <2>1. w \notin Working /\ Working' = Working \cup {w}
      BY <1>1 DEF Post, Proceed, Working, TypeInv, StageInv
    <2>2. IsFiniteSet(Working') /\ Cardinality(Working') = Cardinality(Working) + 1
      BY <1>0, <2>1, FS_AddElement
    <2>3. rows' = rows /\ attempts' = attempts + 1
      BY <1>1 DEF Post
    <2>. QED
      BY <1>0, <2>2, <2>3 DEF CountInv
  <1>2. ASSUME NEW w \in Worker, Commit(w) PROVE CountInv'
    <2>1. w \in Working /\ Working' = Working \ {w}
      BY <1>2 DEF Commit, Proceed, Working, TypeInv, StageInv
    <2>2. IsFiniteSet(Working') /\ Cardinality(Working') = Cardinality(Working) - 1
      BY <1>0, <2>1, FS_RemoveElement
    <2>3. rows' = rows + 1 /\ attempts' = attempts
      BY <1>2 DEF Commit
    <2>. QED
      BY <1>0, <2>2, <2>3 DEF CountInv
  <1>3. ASSUME NEW w \in Worker, GiveUp(w) \/ Check(w) \/ Insert(w) \/ Respond(w) \/ Fail(w)
        PROVE  CountInv'
    <2>1. UNCHANGED <<rows, attempts>>
      BY <1>3 DEF GiveUp, Check, Insert, Respond, Fail
    <2>2. \A v \in Worker : v \in Working' => v \in Working
      BY <1>3 DEF GiveUp, Check, Insert, Respond, Fail, Answer, Proceed, Working, TypeInv, StageInv
    <2>3. Working' \subseteq Working
      BY <2>2 DEF Working
    <2>. QED
      BY <2>1, <2>3, FewerWork
  <1>4. CASE UNCHANGED vars
    <2>1. Working' = Working
      BY <1>4 DEF vars, Working
    <2>. QED
      BY <1>4, <2>1, FewerWork DEF vars
  <1>. QED
    BY <1>1, <1>2, <1>3, <1>4 DEF Next, Handle

LEMMA WaitStep ==
  ASSUME TypeInv, [Next]_vars
  PROVE  WaitInv'
  <1>. USE DEF TypeInv, StageInv, WaitInv
  <1>1. ASSUME NEW w \in Worker, Post(w) \/ GiveUp(w) PROVE WaitInv'
    BY <1>1 DEF Post, GiveUp, Proceed
  <1>2. ASSUME NEW w \in Worker, NEW code, Answer(w, code) PROVE WaitInv'
    BY <1>2 DEF Answer, Proceed
  <1>3. ASSUME NEW w \in Worker, NEW stage \in {"insert", "commit", "respond"},
               Proceed(w, stage), UNCHANGED waits
        PROVE  WaitInv'
    BY <1>3 DEF Proceed
  <1>4. ASSUME NEW w \in Worker, Handle(w) \/ Fail(w) PROVE WaitInv'
    BY <1>2, <1>3, <1>4 DEF Handle, Check, Insert, Commit, Respond, Fail
  <1>5. CASE UNCHANGED vars
    BY <1>5 DEF vars
  <1>. QED
    BY <1>1, <1>4, <1>5 DEF Next

LEMMA BoundStep ==
  ASSUME TypeInv, [Next]_vars
  PROVE  BoundInv'
  BY RequestAssumption DEF TypeInv, BoundInv, Next, Post, GiveUp, Handle, Check, Insert, Commit, Respond, Fail, vars

LEMMA Typed == Spec => []TypeInv
  <1>1. Init => TypeInv
    <2>. SUFFICES ASSUME Init PROVE TypeInv
      OBVIOUS
    <2>1. Working = {}
      BY DEF Init, Working
    <2>2. CountInv
      BY <2>1, FS_EmptySet DEF Init, CountInv
    <2>3. StageInv /\ BoundInv /\ WaitInv
      BY RequestAssumption DEF Init, StageInv, BoundInv, WaitInv
    <2>. QED
      BY <2>2, <2>3 DEF TypeInv
  <1>2. TypeInv /\ [Next]_vars => TypeInv'
    BY StageStep, BoundStep, WaitStep, CountStep DEF TypeInv
  <1>. QED
    BY <1>1, <1>2, PTL DEF Spec

(* The variables keep their types, and one attempt stores one row at most, *)
(* for any requests, workers, attempts and failures.                       *)
THEOREM TypeCorrect == Spec => []TypeOK
  <1>1. TypeInv => TypeOK
    <2>. SUFFICES ASSUME TypeInv PROVE TypeOK
      OBVIOUS
    <2>. DEFINE S == {w \in Worker : waits[w]}
    <2>1. rows \in 0..attempts
      BY FS_CardinalityType, RequestAssumption DEF TypeInv, StageInv, BoundInv, CountInv
    <2>2. Cardinality(S) <= 1
      <3>1. CASE S = {}
        BY <3>1, FS_EmptySet
      <3>2. ASSUME NEW w \in S PROVE Cardinality(S) <= 1
        <4>1. S = {w}
          BY DEF TypeInv, WaitInv
        <4>. HIDE DEF S
        <4>2. Cardinality({w}) = 1
          BY FS_Singleton
        <4>. QED
          BY <4>1, <4>2
      <3>. QED
        BY <3>1, <3>2
    <2>. QED
      BY <2>1, <2>2 DEF TypeInv, StageInv, BoundInv, WaitInv, TypeOK
  <1>. QED
    BY <1>1, Typed, PTL
-----------------------------------------------------------------------------
(* What becomes of a report without any defect: every check lets it        *)
(* through, so that an attempt is spent on a failure or its row is in the  *)
(* table or on its way there.                                              *)
Faultless(q) == \A h \in Header : q[h] \in {"good"} \cup Plain

SpentInv == Faultless(request) => attempts <= rows + Cardinality(Working) + fails

LEMMA FaultlessPasses ==
  ASSUME NEW q \in Requests, Faultless(q)
  PROVE  Verdict(q) = 201
  <1>1. \A h \in Header \ {"Record-Format-Version"} : q[h] = "good"
    BY RequestAssumption DEF Faultless, Value, Plain
  <1>2. Version(q) \in Plain
    BY RequestAssumption DEF Faultless, Version, Plain, Padded, Header,
                             RequiredV4, RequiredV3, RequiredV2, RequiredV1
  <1>3. \A h \in Header \ {"Record-Format-Version"} : Validate(q, h) = 201
    BY <1>1 DEF Validate
  <1>4. /\ Validate(q, "X-Telemetry-Tid") = 201 /\ Validate(q, "Severity") = 201
        /\ Validate(q, "Classification") = 201 /\ Validate(q, "Machine-Id") = 201
        /\ Validate(q, "Arch") = 201 /\ Validate(q, "Host-Type") = 201
        /\ Validate(q, "Kernel-Version") = 201 /\ Validate(q, "Payload-Format-Version") = 201
    BY <1>3 DEF Header, RequiredV4, RequiredV3, RequiredV2, RequiredV1
  <1>5. Timestamp(q) = 201 /\ Build(q) = 201 /\ SystemName(q) = 201
    BY <1>1, <1>3 DEF Timestamp, Build, SystemName, Header,
                      RequiredV4, RequiredV3, RequiredV2, RequiredV1
  <1>6. /\ V3Header(q, "Board-Name") = 201 /\ V3Header(q, "Cpu-Model") = 201
        /\ V3Header(q, "Bios-Version") = 201 /\ V4Header(q, "Event-Id") = 201
    BY <1>3 DEF V3Header, V4Header, Header, RequiredV4, RequiredV3, RequiredV2, RequiredV1
  <1>7. RecordFormatVersion(q) = 201
    BY <1>2 DEF RecordFormatVersion
  <1>8. RequiredHeaders(q) = 201
    <2>1. Required(q) \subseteq Header
      BY DEF Required, Header, RequiredV4, RequiredV3, RequiredV2, RequiredV1
    <2>2. \A h \in Header : q[h] # "missing"
      BY DEF Faultless, Plain
    <2>. QED
      BY <2>1, <2>2 DEF RequiredHeaders
  <1>9. \A i \in 1..Len(Checks(q)) : Checks(q)[i] = 201
    <2>1. Len(Checks(q)) = 17
      BY DEF Checks
    <2>2. \A i \in 1..17 : Checks(q)[i] = 201
      BY <1>4, <1>5, <1>6, <1>7, <1>8 DEF Checks
    <2>. QED
      BY <2>1, <2>2
  <1>. QED
    BY <1>9 DEF Verdict

LEMMA SpentStep ==
  ASSUME TypeInv, SpentInv, [Next]_vars
  PROVE  SpentInv'
  <1>. SUFFICES ASSUME Faultless(request)
                PROVE  attempts' <= rows' + Cardinality(Working') + fails'
    BY SameReport DEF SpentInv, Faultless
  <1>0. /\ IsFiniteSet(Working) /\ Cardinality(Working) \in Nat
        /\ rows \in Nat /\ attempts \in Nat /\ fails \in Nat
        /\ attempts <= rows + Cardinality(Working) + fails
        /\ Verdict(request) = 201
        /\ request["Payload-Format-Version"] # "odd"
    <2>1. Verdict(request) = 201
      BY FaultlessPasses DEF TypeInv, StageInv
    <2>2. request["Payload-Format-Version"] # "odd"
      BY DEF Faultless, Plain, Header, RequiredV4, RequiredV3, RequiredV2
    <2>. QED
      BY <2>1, <2>2, FS_CardinalityType, RequestAssumption
         DEF TypeInv, StageInv, BoundInv, CountInv, SpentInv
  <1>a. ASSUME NEW w, Working' = Working \ {w}
        PROVE  /\ w \in Working => Cardinality(Working') = Cardinality(Working) - 1
               /\ w \notin Working => Cardinality(Working') = Cardinality(Working)
    <2>1. IsFiniteSet(Working)
      BY <1>0
    <2>. DEFINE W == Working
    <2>. HIDE DEF W
    <2>2. Cardinality(W \ {w}) = IF w \in W THEN Cardinality(W) - 1 ELSE Cardinality(W)
      <3>1. IsFiniteSet(W)
        BY <2>1 DEF W
      <3>. QED
        BY <3>1, FS_RemoveElement
    <2>. QED
      BY <1>a, <2>2 DEF W
  <1>1. ASSUME NEW w \in Worker, Post(w)
        PROVE  attempts' <= rows' + Cardinality(Working') + fails'
    <2>1. w \notin Working /\ Working' = Working \cup {w}
      BY <1>1 DEF Post, Proceed, Working, TypeInv, StageInv
    <2>2. Cardinality(Working') = Cardinality(Working) + 1
      BY <1>0, <2>1, FS_AddElement
    <2>3. rows' = rows /\ attempts' = attempts + 1 /\ fails' = fails
      BY <1>1 DEF Post
    <2>. QED
      BY <1>0, <2>2, <2>3
  <1>2. ASSUME NEW w \in Worker, Commit(w)
        PROVE  attempts' <= rows' + Cardinality(Working') + fails'
    <2>1. w \in Working /\ Working' = Working \ {w}
      BY <1>2 DEF Commit, Proceed, Working, TypeInv, StageInv
    <2>2. Cardinality(Working') = Cardinality(Working) - 1
      BY <1>a, <2>1
    <2>3. rows' = rows + 1 /\ attempts' = attempts /\ fails' = fails
      BY <1>2 DEF Commit
    <2>. QED
      BY <1>0, <2>2, <2>3
  <1>3. ASSUME NEW w \in Worker, Fail(w)
        PROVE  attempts' <= rows' + Cardinality(Working') + fails'
    <2>1. rows' = rows /\ attempts' = attempts /\ fails' = fails + 1
      BY <1>3 DEF Fail
    <2>2. Working' = Working \ {w}
      BY <1>3 DEF Fail, Answer, Proceed, Working, TypeInv, StageInv
    <2>3. Cardinality(Working') \in {Cardinality(Working), Cardinality(Working) - 1}
      BY <1>a, <2>2
    <2>. QED
      BY <1>0, <2>1, <2>3
  <1>4. ASSUME NEW w \in Worker, GiveUp(w) \/ Check(w) \/ Insert(w) \/ Respond(w)
        PROVE  attempts' <= rows' + Cardinality(Working') + fails'
    <2>1. rows' = rows /\ attempts' = attempts /\ fails' \in {fails, fails + 1}
      BY <1>4 DEF GiveUp, Check, Insert, Respond
    <2>2. Working' = Working
      BY <1>0, <1>4 DEF GiveUp, Check, Insert, Respond, Answer, Proceed, Working,
                        TypeInv, StageInv
    <2>. QED
      BY <1>0, <2>1, <2>2
  <1>5. CASE UNCHANGED vars
    BY <1>0, <1>5 DEF vars, Working
  <1>. QED
    BY <1>1, <1>2, <1>3, <1>4, <1>5 DEF Next, Handle

(* A report without any defect is never refused, and as soon as the client *)
(* has posted it more often than something failed, a row of it is in the   *)
(* table or a worker is storing one (collector_post_handler): the half of  *)
(* GoodIsStored that is not about time.                                    *)
THEOREM NothingLost ==
  Spec => [](Faultless(request) =>
                /\ client # "refused"
                /\ attempts > fails => rows > 0 \/ Working # {})
  <1>1. Init => SpentInv
    <2>1. Init => Working = {} /\ attempts = 0 /\ rows = 0 /\ fails = 0
      BY DEF Init, Working
    <2>. QED
      BY <2>1, FS_EmptySet DEF SpentInv
  <1>2. TypeInv /\ SpentInv /\ [Next]_vars => SpentInv'
    BY SpentStep
  <1>3. TypeInv /\ SpentInv /\ IInv =>
           (Faultless(request) =>
                /\ client # "refused"
                /\ attempts > fails => rows > 0 \/ Working # {})
    <2>. SUFFICES ASSUME TypeInv, SpentInv, IInv, Faultless(request)
                  PROVE  /\ client # "refused"
                         /\ attempts > fails => rows > 0 \/ Working # {}
      OBVIOUS
    <2>1. client # "refused"
      BY FaultlessPasses DEF IInv, StageInv, RefusedInv, Passed
    <2>2. attempts \in Nat /\ fails \in Nat /\ rows \in Nat
      BY RequestAssumption DEF TypeInv, StageInv, BoundInv
    <2>3. Working = {} => Cardinality(Working) = 0
      BY FS_EmptySet
    <2>. QED
      BY <2>1, <2>2, <2>3 DEF SpentInv
  <1>. QED
    BY <1>1, <1>2, <1>3, Typed, Invariant, PTL DEF Spec
=============================================================================
