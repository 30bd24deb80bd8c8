------------------------ MODULE ClaimsResolver_proofs ------------------------
(***************************************************************************)
(* For any slaves, claims, transmissions and controllers: the interface of *)
(* a joint is the one its first claim offers, an exported handle leads to  *)
(* it, what a slave accepted when a switch was prepared it accepts when it *)
(* is performed, and the modes of the drives are those of the claims that  *)
(* are held.                                                               *)
(***************************************************************************)
EXTENDS ClaimsResolver, InductionLemmas

\* push_back of a claim of a slave.
PushClaim(map, slave, claims, i) ==
  IF map[i].slave = slave THEN Append(claims, map[i].interface) ELSE claims

-----------------------------------------------------------------------------
(* Folds, element by element *)

\* The claims of a slave to start, one after the other.
StartClaimSteps(f, n, base, seq) ==
  /\ FoldLeft(StartClaim, base, seq) = f[n] /\ f[0] = base
  /\ \A k \in 1..n : f[k] = StartClaim(f[k - 1], seq[k])

\* The fold consists of such steps; they stay in T if each of them does.
LEMMA StartClaimFold ==
  ASSUME NEW T, NEW base \in T, NEW n \in Nat,
         NEW seq, DOMAIN seq = 1..n,
         \A t \in T, k \in 1..n : StartClaim(t, seq[k]) \in T
  PROVE  \E f \in [0..n -> T] : StartClaimSteps(f, n, base, seq)
<1> DEFINE step(t, k) == StartClaim(t, seq[k])
           g == [p \in T \X (1..n) |-> step(p[1], p[2])]
           c == CHOOSE f : f = [s \in SUBSET (DOMAIN seq) |->
                  IF s = {} THEN base ELSE step(f[s \ {Max(s)}], Max(s))]
<1>1. g \in [T \X (1..n) -> T] OBVIOUS
<1>2. PICK h \in [SUBSET (1..n) -> T] : IsFold(h, base, n, g)
  <2> HIDE DEF g
  <2> QED BY <1>1, FoldExists
<1>3. ASSUME NEW t \in T, NEW k \in 1..n PROVE g[<<t, k>>] = step(t, k)
  OBVIOUS
<1> HIDE DEF g
<1>4. ASSUME NEW s \in SUBSET (1..n), s # {} PROVE h[s] = step(h[s \ {Max(s)}], Max(s))
  <2>1. Max(s) \in 1..n /\ s \ {Max(s)} \in SUBSET (1..n) BY <1>4, PrefixesInOrder
  <2>2. h[s \ {Max(s)}] \in T BY <2>1
  <2>3. h[s] = g[<<h[s \ {Max(s)}], Max(s)>>] BY <1>2, <1>4 DEF IsFold
  <2> QED BY <1>3, <2>1, <2>2, <2>3
<1>5. h = [s \in SUBSET (DOMAIN seq) |-> IF s = {} THEN base ELSE step(h[s \ {Max(s)}], Max(s))]
  BY <1>2, <1>4 DEF IsFold
<1>6. c = [s \in SUBSET (DOMAIN seq) |-> IF s = {} THEN base ELSE step(c[s \ {Max(s)}], Max(s))]
  BY <1>5
<1>7. FoldLeft(StartClaim, base, seq) = c[DOMAIN seq]
  BY DEF FoldLeft, MapThenFoldSet
<1> HIDE DEF c
<1>8. ASSUME NEW s \in SUBSET (1..n), s # {}, c[s \ {Max(s)}] \in T
      PROVE  c[s] = g[<<c[s \ {Max(s)}], Max(s)>>]
  <2>1. Max(s) \in 1..n BY <1>8, PrefixesInOrder
  <2>2. c[s] = step(c[s \ {Max(s)}], Max(s)) BY <1>6, <1>8
  <2> QED BY <1>3, <1>8, <2>1, <2>2
<1>9. IsFoldWithin(T, c, base, n, g)
  BY <1>6, <1>8 DEF IsFoldWithin
<1>10. PICK f \in [0..n -> T] : Iterates(f, base, n, g, c[1..n])
  BY <1>1, <1>9, FoldInOrder
<1>11. \A k \in 1..n : f[k - 1] \in T OBVIOUS
<1>12. \A k \in 1..n : f[k] = StartClaim(f[k - 1], seq[k]) BY <1>3, <1>10, <1>11 DEF Iterates
<1> QED BY <1>7, <1>10, <1>12 DEF Iterates, StartClaimSteps

\* The interfaces a claim offers, one after the other.
MapClaimSteps(f, n, base, joint, claim, kind) ==
  /\ MapClaim(base, joint, claim, kind) = f[n] /\ f[0] = base
  /\ \A k \in 1..n : f[k] = MapOne(f[k - 1], joint, claim, kind, Exports[claim.slave][kind][k])

\* The fold consists of such steps; they stay in T if each of them does.
LEMMA MapClaimFold ==
  ASSUME NEW joint, NEW claim, NEW kind, NEW T, NEW base \in T, NEW n \in Nat,
         DOMAIN Exports[claim.slave][kind] = 1..n,
         claim.slave \in DOMAIN Exports,
         \A t \in T, k \in 1..n : MapOne(t, joint, claim, kind, Exports[claim.slave][kind][k]) \in T
  PROVE  \E f \in [0..n -> T] : MapClaimSteps(f, n, base, joint, claim, kind)
<1> DEFINE step(t, k) == MapOne(t, joint, claim, kind, Exports[claim.slave][kind][k])
           g == [p \in T \X (1..n) |-> step(p[1], p[2])]
           c == CHOOSE f : f = [s \in SUBSET (DOMAIN Exports[claim.slave][kind]) |->
                  IF s = {} THEN base ELSE step(f[s \ {Max(s)}], Max(s))]
<1>1. g \in [T \X (1..n) -> T] OBVIOUS
<1>2. PICK h \in [SUBSET (1..n) -> T] : IsFold(h, base, n, g)
  <2> HIDE DEF g
  <2> QED BY <1>1, FoldExists
<1>3. ASSUME NEW t \in T, NEW k \in 1..n PROVE g[<<t, k>>] = step(t, k)
  OBVIOUS
<1> HIDE DEF g
<1>4. ASSUME NEW s \in SUBSET (1..n), s # {} PROVE h[s] = step(h[s \ {Max(s)}], Max(s))
  <2>1. Max(s) \in 1..n /\ s \ {Max(s)} \in SUBSET (1..n) BY <1>4, PrefixesInOrder
  <2>2. h[s \ {Max(s)}] \in T BY <2>1
  <2>3. h[s] = g[<<h[s \ {Max(s)}], Max(s)>>] BY <1>2, <1>4 DEF IsFold
  <2> QED BY <1>3, <2>1, <2>2, <2>3
<1>5. h = [s \in SUBSET (DOMAIN Exports[claim.slave][kind]) |-> IF s = {} THEN base ELSE step(h[s \ {Max(s)}], Max(s))]
  BY <1>2, <1>4 DEF IsFold
<1>6. c = [s \in SUBSET (DOMAIN Exports[claim.slave][kind]) |-> IF s = {} THEN base ELSE step(c[s \ {Max(s)}], Max(s))]
  BY <1>5
<1>7. MapClaim(base, joint, claim, kind) = c[DOMAIN Exports[claim.slave][kind]]
  BY DEF MapClaim, FoldLeft, MapThenFoldSet
<1> HIDE DEF c
<1>8. ASSUME NEW s \in SUBSET (1..n), s # {}, c[s \ {Max(s)}] \in T
      PROVE  c[s] = g[<<c[s \ {Max(s)}], Max(s)>>]
  <2>1. Max(s) \in 1..n BY <1>8, PrefixesInOrder
  <2>2. c[s] = step(c[s \ {Max(s)}], Max(s)) BY <1>6, <1>8
  <2> QED BY <1>3, <1>8, <2>1, <2>2
<1>9. IsFoldWithin(T, c, base, n, g)
  BY <1>6, <1>8 DEF IsFoldWithin
<1>10. PICK f \in [0..n -> T] : Iterates(f, base, n, g, c[1..n])
  BY <1>1, <1>9, FoldInOrder
<1>11. \A k \in 1..n : f[k - 1] \in T OBVIOUS
<1>12. \A k \in 1..n : f[k] = MapOne(f[k - 1], joint, claim, kind, Exports[claim.slave][kind][k]) BY <1>3, <1>10, <1>11 DEF Iterates
<1> QED BY <1>7, <1>10, <1>12 DEF Iterates, MapClaimSteps

\* The claims of a joint, one after the other.
OfJointSteps(f, n, claims, joint, kind) ==
  /\ OfJoint(claims, joint, kind) = f[n] /\ f[0] = <<>>
  /\ \A k \in 1..n : f[k] = MapClaim(f[k - 1], joint, claims[joint][k], kind)

\* The fold consists of such steps; they stay in T if each of them does.
LEMMA OfJointFold ==
  ASSUME NEW claims, NEW joint, NEW kind, NEW T, <<>> \in T, NEW n \in Nat,
         DOMAIN claims[joint] = 1..n,
         \A t \in T, k \in 1..n : MapClaim(t, joint, claims[joint][k], kind) \in T
  PROVE  \E f \in [0..n -> T] : OfJointSteps(f, n, claims, joint, kind)
<1> DEFINE step(t, k) == MapClaim(t, joint, claims[joint][k], kind)
           g == [p \in T \X (1..n) |-> step(p[1], p[2])]
           c == CHOOSE f : f = [s \in SUBSET (DOMAIN claims[joint]) |->
                  IF s = {} THEN <<>> ELSE step(f[s \ {Max(s)}], Max(s))]
<1>1. g \in [T \X (1..n) -> T] OBVIOUS
<1>2. PICK h \in [SUBSET (1..n) -> T] : IsFold(h, <<>>, n, g)
  <2> HIDE DEF g
  <2> QED BY <1>1, FoldExists
<1>3. ASSUME NEW t \in T, NEW k \in 1..n PROVE g[<<t, k>>] = step(t, k)
  OBVIOUS
<1> HIDE DEF g
<1>4. ASSUME NEW s \in SUBSET (1..n), s # {} PROVE h[s] = step(h[s \ {Max(s)}], Max(s))
  <2>1. Max(s) \in 1..n /\ s \ {Max(s)} \in SUBSET (1..n) BY <1>4, PrefixesInOrder
  <2>2. h[s \ {Max(s)}] \in T BY <2>1
  <2>3. h[s] = g[<<h[s \ {Max(s)}], Max(s)>>] BY <1>2, <1>4 DEF IsFold
  <2> QED BY <1>3, <2>1, <2>2, <2>3
<1>5. h = [s \in SUBSET (DOMAIN claims[joint]) |-> IF s = {} THEN <<>> ELSE step(h[s \ {Max(s)}], Max(s))]
  BY <1>2, <1>4 DEF IsFold
<1>6. c = [s \in SUBSET (DOMAIN claims[joint]) |-> IF s = {} THEN <<>> ELSE step(c[s \ {Max(s)}], Max(s))]
  BY <1>5
<1>7. OfJoint(claims, joint, kind) = c[DOMAIN claims[joint]]
  BY DEF OfJoint, FoldLeft, MapThenFoldSet
<1> HIDE DEF c
<1>8. ASSUME NEW s \in SUBSET (1..n), s # {}, c[s \ {Max(s)}] \in T
      PROVE  c[s] = g[<<c[s \ {Max(s)}], Max(s)>>]
  <2>1. Max(s) \in 1..n BY <1>8, PrefixesInOrder
  <2>2. c[s] = step(c[s \ {Max(s)}], Max(s)) BY <1>6, <1>8
  <2> QED BY <1>3, <1>8, <2>1, <2>2
<1>9. IsFoldWithin(T, c, <<>>, n, g)
  BY <1>6, <1>8 DEF IsFoldWithin
<1>10. PICK f \in [0..n -> T] : Iterates(f, <<>>, n, g, c[1..n])
  BY <1>1, <1>9, FoldInOrder
<1>11. \A k \in 1..n : f[k - 1] \in T OBVIOUS
<1>12. \A k \in 1..n : f[k] = MapClaim(f[k - 1], joint, claims[joint][k], kind) BY <1>3, <1>10, <1>11 DEF Iterates
<1> QED BY <1>7, <1>10, <1>12 DEF Iterates, OfJointSteps

\* The joints a driver exports, one after the other.
HandlesSteps(f, n, map, seq) ==
  /\ Handles(map, seq) = f[n] /\ f[0] = {}
  /\ \A k \in 1..n : f[k] = AddJoint(f[k - 1], map, seq[k])

\* The fold consists of such steps; they stay in T if each of them does.
LEMMA HandlesFold ==
  ASSUME NEW map, NEW T, {} \in T, NEW n \in Nat,
         NEW seq, DOMAIN seq = 1..n,
         \A t \in T, k \in 1..n : AddJoint(t, map, seq[k]) \in T
  PROVE  \E f \in [0..n -> T] : HandlesSteps(f, n, map, seq)
<1> DEFINE step(t, k) == AddJoint(t, map, seq[k])
           g == [p \in T \X (1..n) |-> step(p[1], p[2])]
           c == CHOOSE f : f = [s \in SUBSET (DOMAIN seq) |->
                  IF s = {} THEN {} ELSE step(f[s \ {Max(s)}], Max(s))]
<1>1. g \in [T \X (1..n) -> T] OBVIOUS
<1>2. PICK h \in [SUBSET (1..n) -> T] : IsFold(h, {}, n, g)
  <2> HIDE DEF g
  <2> QED BY <1>1, FoldExists
<1>3. ASSUME NEW t \in T, NEW k \in 1..n PROVE g[<<t, k>>] = step(t, k)
  OBVIOUS
<1> HIDE DEF g
<1>4. ASSUME NEW s \in SUBSET (1..n), s # {} PROVE h[s] = step(h[s \ {Max(s)}], Max(s))
  <2>1. Max(s) \in 1..n /\ s \ {Max(s)} \in SUBSET (1..n) BY <1>4, PrefixesInOrder
  <2>2. h[s \ {Max(s)}] \in T BY <2>1
  <2>3. h[s] = g[<<h[s \ {Max(s)}], Max(s)>>] BY <1>2, <1>4 DEF IsFold
  <2> QED BY <1>3, <2>1, <2>2, <2>3
<1>5. h = [s \in SUBSET (DOMAIN seq) |-> IF s = {} THEN {} ELSE step(h[s \ {Max(s)}], Max(s))]
  BY <1>2, <1>4 DEF IsFold
<1>6. c = [s \in SUBSET (DOMAIN seq) |-> IF s = {} THEN {} ELSE step(c[s \ {Max(s)}], Max(s))]
  BY <1>5
<1>7. Handles(map, seq) = c[DOMAIN seq]
  BY DEF Handles, FoldLeft, MapThenFoldSet
<1> HIDE DEF c
<1>8. ASSUME NEW s \in SUBSET (1..n), s # {}, c[s \ {Max(s)}] \in T
      PROVE  c[s] = g[<<c[s \ {Max(s)}], Max(s)>>]
  <2>1. Max(s) \in 1..n BY <1>8, PrefixesInOrder
  <2>2. c[s] = step(c[s \ {Max(s)}], Max(s)) BY <1>6, <1>8
  <2> QED BY <1>3, <1>8, <2>1, <2>2
<1>9. IsFoldWithin(T, c, {}, n, g)
  BY <1>6, <1>8 DEF IsFoldWithin
<1>10. PICK f \in [0..n -> T] : Iterates(f, {}, n, g, c[1..n])
  BY <1>1, <1>9, FoldInOrder
<1>11. \A k \in 1..n : f[k - 1] \in T OBVIOUS
<1>12. \A k \in 1..n : f[k] = AddJoint(f[k - 1], map, seq[k]) BY <1>3, <1>10, <1>11 DEF Iterates
<1> QED BY <1>7, <1>10, <1>12 DEF Iterates, HandlesSteps

\* The claims of a slave, one after the other.
StartClaimsSteps(f, n, map, slave, start) ==
  /\ StartClaims(map, slave, start) = f[n] /\ f[0] = <<>>
  /\ \A k \in 1..n : f[k] = PushClaim(map, slave, f[k - 1], start[k])

\* The fold consists of such steps; they stay in T if each of them does.
LEMMA StartClaimsFold ==
  ASSUME NEW map, NEW slave, NEW start, NEW T, <<>> \in T, NEW n \in Nat,
         DOMAIN start = 1..n,
         \A t \in T, k \in 1..n : PushClaim(map, slave, t, start[k]) \in T
  PROVE  \E f \in [0..n -> T] : StartClaimsSteps(f, n, map, slave, start)
<1> DEFINE step(t, k) == PushClaim(map, slave, t, start[k])
           g == [p \in T \X (1..n) |-> step(p[1], p[2])]
           c == CHOOSE f : f = [s \in SUBSET (DOMAIN start) |->
                  IF s = {} THEN <<>> ELSE step(f[s \ {Max(s)}], Max(s))]
<1>1. g \in [T \X (1..n) -> T] OBVIOUS
<1>2. PICK h \in [SUBSET (1..n) -> T] : IsFold(h, <<>>, n, g)
  <2> HIDE DEF g
  <2> QED BY <1>1, FoldExists
<1>3. ASSUME NEW t \in T, NEW k \in 1..n PROVE g[<<t, k>>] = step(t, k)
  OBVIOUS
<1> HIDE DEF g
<1>4. ASSUME NEW s \in SUBSET (1..n), s # {} PROVE h[s] = step(h[s \ {Max(s)}], Max(s))
  <2>1. Max(s) \in 1..n /\ s \ {Max(s)} \in SUBSET (1..n) BY <1>4, PrefixesInOrder
  <2>2. h[s \ {Max(s)}] \in T BY <2>1
  <2>3. h[s] = g[<<h[s \ {Max(s)}], Max(s)>>] BY <1>2, <1>4 DEF IsFold
  <2> QED BY <1>3, <2>1, <2>2, <2>3
<1>5. h = [s \in SUBSET (DOMAIN start) |-> IF s = {} THEN <<>> ELSE step(h[s \ {Max(s)}], Max(s))]
  BY <1>2, <1>4 DEF IsFold
<1>6. c = [s \in SUBSET (DOMAIN start) |-> IF s = {} THEN <<>> ELSE step(c[s \ {Max(s)}], Max(s))]
  BY <1>5
<1>7. StartClaims(map, slave, start) = c[DOMAIN start]
  BY DEF PushClaim, StartClaims, FoldLeft, MapThenFoldSet
<1> HIDE DEF c
<1>8. ASSUME NEW s \in SUBSET (1..n), s # {}, c[s \ {Max(s)}] \in T
      PROVE  c[s] = g[<<c[s \ {Max(s)}], Max(s)>>]
  <2>1. Max(s) \in 1..n BY <1>8, PrefixesInOrder
  <2>2. c[s] = step(c[s \ {Max(s)}], Max(s)) BY <1>6, <1>8
  <2> QED BY <1>3, <1>8, <2>1, <2>2
<1>9. IsFoldWithin(T, c, <<>>, n, g)
  BY <1>6, <1>8 DEF IsFoldWithin
<1>10. PICK f \in [0..n -> T] : Iterates(f, <<>>, n, g, c[1..n])
  BY <1>1, <1>9, FoldInOrder
<1>11. \A k \in 1..n : f[k - 1] \in T OBVIOUS
<1>12. \A k \in 1..n : f[k] = PushClaim(map, slave, f[k - 1], start[k]) BY <1>3, <1>10, <1>11 DEF Iterates
<1> QED BY <1>7, <1>10, <1>12 DEF Iterates, StartClaimsSteps

-----------------------------------------------------------------------------
(* The mode a slave answers *)

Answer == COMMAND_MODE \cup {"refused"}
Kind == {"command", "state"}
Name == STRING \X STRING
ClaimRecord == [slave : STRING, claim : STRING, type : STRING, name : STRING]

\* A claim belongs to a mode, the one of its name or STOP.
LEMMA ModesOfClaims ==
  /\ \A c \in Claim :
       /\ claim_to_command_mode[c] \in COMMAND_MODE
       /\ claim_to_command_mode[c] # "STOP" =>
            command_mode_to_claim[claim_to_command_mode[c]] = c
  /\ \A m \in COMMAND_MODE : m # "STOP" => claim_to_command_mode[command_mode_to_claim[m]] = m
  /\ "STOP" \in COMMAND_MODE /\ "refused" \notin COMMAND_MODE
BY DEF Claim, claim_to_command_mode, command_mode_to_claim, COMMAND_MODE

\* A claim leads to a mode or is refused.
LEMMA StartClaimTyped ==
  \A m \in Answer, c \in Claim : StartClaim(m, c) \in Answer
BY ModesOfClaims DEF Answer, StartClaim

\* Starting claims one after the other leaves a mode that all of them agree
\* to, and that some of them has unless it was there before.
LEMMA StartedMode ==
  ASSUME NEW m \in COMMAND_MODE, NEW cs \in Seq(Claim), NEW r,
         r = FoldLeft(StartClaim, m, cs)
  PROVE  /\ r \in Answer
         /\ r # "refused" =>
              /\ \A c \in ToSet(cs) : claim_to_command_mode[c] \in {r, "STOP"}
              /\ m # "STOP" => r = m
              /\ r # "STOP" /\ r # m => \E c \in ToSet(cs) : claim_to_command_mode[c] = r
         /\ ToSet(cs) = {} => r = m
<1> DEFINE n == Len(cs)
           mode(c) == claim_to_command_mode[c]
<1>1. n \in Nat /\ DOMAIN cs = 1..n /\ \A k \in 1..n : cs[k] \in Claim OBVIOUS
<1>2. m \in Answer BY DEF Answer
<1> HIDE DEF n
<1>3. \A t \in Answer, k \in 1..n : StartClaim(t, cs[k]) \in Answer
  BY <1>1, StartClaimTyped
<1>4. PICK f \in [0..n -> Answer] : StartClaimSteps(f, n, m, cs)
  BY <1>1, <1>2, <1>3, StartClaimFold
<1> USE DEF StartClaimSteps
<1> DEFINE S == {k \in 0..n :
                   f[k] # "refused" =>
                     /\ \A i \in 1..k : mode(cs[i]) \in {f[k], "STOP"}
                     /\ m # "STOP" => f[k] = m
                     /\ f[k] # "STOP" /\ f[k] # m => \E i \in 1..k : mode(cs[i]) = f[k]}
<1>5. 0 \in S BY <1>1, <1>4
<1>6. ASSUME NEW k \in 0..n, k \in S, k < n PROVE k + 1 \in S
  <2>1. k + 1 \in 1..n /\ (k + 1) - 1 = k /\ k + 1 \in 0..n BY <1>1, <1>6
  <2>2. f[k + 1] = StartClaim(f[k], cs[k + 1]) BY <1>4, <2>1
  <2>3. \A i \in 1..(k + 1) : i \in 1..k \/ i = k + 1 BY <1>1
  <2>4. \A i \in 1..k : i \in 1..(k + 1) BY <1>1
  <2>5. k + 1 \in 1..(k + 1) BY <1>1
  <2> SUFFICES ASSUME f[k + 1] # "refused"
               PROVE  /\ \A i \in 1..(k + 1) : mode(cs[i]) \in {f[k + 1], "STOP"}
                      /\ m # "STOP" => f[k + 1] = m
                      /\ f[k + 1] # "STOP" /\ f[k + 1] # m =>
                           \E i \in 1..(k + 1) : mode(cs[i]) = f[k + 1]
    BY <2>1
  <2>6. /\ f[k] # "refused" /\ f[k + 1] = mode(cs[k + 1])
        /\ f[k + 1] = f[k] \/ f[k] = "STOP"
    BY <2>2 DEF StartClaim
  <2>7. /\ \A i \in 1..k : mode(cs[i]) \in {f[k], "STOP"}
        /\ m # "STOP" => f[k] = m
        /\ f[k] # "STOP" /\ f[k] # m => \E i \in 1..k : mode(cs[i]) = f[k]
    BY <1>6, <2>6
  <2> HIDE DEF mode
  <2> QED BY <2>3, <2>4, <2>5, <2>6, <2>7
<1> HIDE DEF S
<1>7. \A k \in 0..n : k \in S BY <1>1, <1>5, <1>6, BoundedInduction
<1>8. n \in S BY <1>1, <1>7
<1>9. r \in Answer BY <1>1, <1>4
<1>10. \A c : c \in ToSet(cs) <=> \E k \in 1..n : c = cs[k] BY <1>1 DEF ToSet
<1>11. ASSUME ToSet(cs) = {} PROVE r = m
  <2>1. 1 \notin 1..n BY <1>10, <1>11
  <2>2. n = 0 BY <1>1, <2>1
  <2> QED BY <1>4, <2>2
<1> QED BY <1>4, <1>8, <1>9, <1>10, <1>11 DEF S

-----------------------------------------------------------------------------
(* The interfaces of a joint *)

\* Maps from finitely many interfaces of a joint to exported ones.
Maps(joint, kind) ==
  UNION {[D -> Target(kind)] : D \in {E \in SUBSET ({joint} \X STRING) : IsFiniteSet(E)}}

\* A claim added interfaces of these names, where there was none.
Added(new, old, joint, c, names) ==
  /\ DOMAIN new = DOMAIN old \cup {<<joint, n>> : n \in names}
  /\ \A x \in DOMAIN old : new[x] = old[x]
  /\ \A n \in names : <<joint, n>> \notin DOMAIN old =>
       new[<<joint, n>>] = [slave |-> c.slave, interface |-> <<c.claim, n>>]

\* The names of the interfaces a claim offers.
Offered(c, kind) == {n \in STRING : Offers(c, kind, n)}

\* A map is of its type if it is a function to exported interfaces.
LEMMA MapsIntro ==
  ASSUME NEW joint, NEW kind, NEW D \in SUBSET ({joint} \X STRING), IsFiniteSet(D),
         NEW m \in [D -> Target(kind)]
  PROVE  m \in Maps(joint, kind)
BY DEF Maps

\* And it is one if it is of its type.
LEMMA MapsElim ==
  ASSUME NEW joint, NEW kind, NEW m \in Maps(joint, kind)
  PROVE  /\ m \in [DOMAIN m -> Target(kind)]
         /\ DOMAIN m \in SUBSET ({joint} \X STRING) /\ IsFiniteSet(DOMAIN m)
<1>1. PICK D \in SUBSET ({joint} \X STRING) : IsFiniteSet(D) /\ m \in [D -> Target(kind)]
  BY DEF Maps
<1>2. DOMAIN m = D BY <1>1
<1> QED BY <1>1, <1>2

\* What is added twice was added at once.
LEMMA AddedTwice ==
  ASSUME NEW m1, NEW m2, NEW m3, NEW joint, NEW c, NEW A, NEW B,
         Added(m2, m1, joint, c, A), Added(m3, m2, joint, c, B)
  PROVE  Added(m3, m1, joint, c, A \cup B)
<1> DEFINE P(S) == {<<joint, n>> : n \in S}
<1>1. P(A \cup B) = P(A) \cup P(B) OBVIOUS
<1>2. DOMAIN m3 = DOMAIN m1 \cup P(A \cup B) BY <1>1 DEF Added
<1>3. \A x \in DOMAIN m1 : m3[x] = m1[x] BY DEF Added
<1>4. ASSUME NEW n \in A \cup B, <<joint, n>> \notin DOMAIN m1
      PROVE  m3[<<joint, n>>] = [slave |-> c.slave, interface |-> <<c.claim, n>>]
  <2>1. CASE n \in A
    <3>1. <<joint, n>> \in DOMAIN m2 BY <2>1 DEF Added
    <3>2. m2[<<joint, n>>] = [slave |-> c.slave, interface |-> <<c.claim, n>>]
      BY <1>4, <2>1 DEF Added
    <3> QED BY <3>1, <3>2 DEF Added
  <2>2. CASE n \notin A
    <3>1. <<joint, n>> \notin P(A) BY <2>2
    <3>2. <<joint, n>> \notin DOMAIN m2 BY <1>4, <3>1 DEF Added
    <3>3. n \in B BY <2>2
    <3> QED BY <3>2, <3>3 DEF Added
  <2> QED BY <2>1, <2>2
<1> QED BY <1>2, <1>3, <1>4 DEF Added

\* One interface of a claim.
LEMMA MapOneAdds ==
  ASSUME NEW joint, NEW kind \in Kind, NEW c \in ClaimRecord, c.slave \in Slave,
         NEW m \in Maps(joint, kind), NEW i \in ToSet(Exports[c.slave][kind])
  PROVE  /\ MapOne(m, joint, c, kind, i) \in Maps(joint, kind)
         /\ Selects(c, kind, i) => Added(MapOne(m, joint, c, kind, i), m, joint, c, {i[2]})
         /\ ~Selects(c, kind, i) => MapOne(m, joint, c, kind, i) = m
<1> DEFINE name == <<joint, i[2]>>
           target == [slave |-> c.slave, interface |-> i]
           r == MapOne(m, joint, c, kind, i)
<1>1. i \in Name /\ i = <<i[1], i[2]>> /\ i[2] \in STRING
  <2>1. Exports[c.slave][kind] \in Seq(Name)
    BY ExportsAssumption DEF Slave, Kind, Name
  <2>2. i \in Name BY <2>1 DEF ToSet
  <2> QED BY <2>2 DEF Name
<1>2. target \in Target(kind) BY DEF Target
<1>3. /\ m \in [DOMAIN m -> Target(kind)]
      /\ DOMAIN m \in SUBSET ({joint} \X STRING) /\ IsFiniteSet(DOMAIN m)
  BY MapsElim
<1>4. CASE Selects(c, kind, i) /\ name \notin DOMAIN m
  <2>1. r = [n \in DOMAIN m \cup {name} |-> IF n = name THEN target ELSE m[n]]
    BY <1>4 DEF MapOne, Mapping
  <2>2. name \in {joint} \X STRING BY <1>1
  <2>3. DOMAIN m \cup {name} \in SUBSET ({joint} \X STRING) BY <1>3, <2>2
  <2>4. IsFiniteSet(DOMAIN m \cup {name}) BY <1>3, FS_AddElement
  <2> HIDE DEF target, r
  <2>5. r \in [DOMAIN m \cup {name} -> Target(kind)]
    BY <1>2, <1>3, <2>1
  <2>6. r \in Maps(joint, kind)
    <3> HIDE DEF name
    <3> QED BY <2>3, <2>4, <2>5, MapsIntro
  <2>7. target = [slave |-> c.slave, interface |-> <<c.claim, i[2]>>]
    BY <1>1, <1>4 DEF Selects, target
  <2>8. /\ DOMAIN r = DOMAIN m \cup {name} /\ r[name] = target
        /\ \A x \in DOMAIN m : r[x] = m[x]
    BY <1>4, <2>1
  <2>9. {<<joint, n>> : n \in {i[2]}} = {name} OBVIOUS
  <2>10. Added(r, m, joint, c, {i[2]}) BY <2>7, <2>8, <2>9 DEF Added
  <2> QED BY <1>4, <2>6, <2>10 DEF r
<1>5. CASE Selects(c, kind, i) /\ name \in DOMAIN m
  <2>1. r = m BY <1>5 DEF MapOne
  <2>2. {<<joint, n>> : n \in {i[2]}} = {name} OBVIOUS
  <2>3. Added(m, m, joint, c, {i[2]}) BY <1>5, <2>2 DEF Added
  <2> QED BY <1>5, <2>1, <2>3
<1>6. CASE ~Selects(c, kind, i)
  BY <1>6 DEF MapOne
<1> QED BY <1>4, <1>5, <1>6

\* All interfaces of a claim, whatever the slave is.
LEMMA MapClaimAdds ==
  ASSUME NEW joint, NEW kind \in Kind, NEW c \in ClaimRecord, NEW m \in Maps(joint, kind)
  PROVE  /\ MapClaim(m, joint, c, kind) \in Maps(joint, kind)
         /\ Added(MapClaim(m, joint, c, kind), m, joint, c, Offered(c, kind))
<1>1. CASE c.slave \notin Slave
  <2>1. MapClaim(m, joint, c, kind) = m BY <1>1 DEF MapClaim, Slave
  <2>2. Offered(c, kind) = {} BY <1>1 DEF Offered, Offers
  <2>3. Added(m, m, joint, c, {}) BY DEF Added
  <2> QED BY <2>1, <2>2, <2>3
<1>2. CASE c.slave \in Slave
  <2> DEFINE es == Exports[c.slave][kind]
             n == Len(es)
             names(k) == {es[l][2] : l \in {i \in 1..k : Selects(c, kind, es[i])}}
  <2>1. es \in Seq(Name) BY <1>2, ExportsAssumption DEF Slave, Kind, Name
  <2>2. n \in Nat /\ DOMAIN es = 1..n /\ \A k \in 1..n : es[k] \in Name /\ es[k] \in ToSet(es)
    BY <2>1 DEF ToSet
  <2>3. ToSet(es) = {es[k] : k \in 1..n} BY <2>2 DEF ToSet
  <2> HIDE DEF n
  <2>4. \A t \in Maps(joint, kind), k \in 1..n :
          MapOne(t, joint, c, kind, es[k]) \in Maps(joint, kind)
    BY <1>2, <2>2, MapOneAdds
  <2>5. PICK f \in [0..n -> Maps(joint, kind)] : MapClaimSteps(f, n, m, joint, c, kind)
    BY <1>2, <2>2, <2>4, MapClaimFold DEF Slave
  <2>6. /\ MapClaim(m, joint, c, kind) = f[n] /\ f[0] = m
        /\ \A k \in 1..n : f[k] = MapOne(f[k - 1], joint, c, kind, es[k])
    BY <2>5 DEF MapClaimSteps
  <2> DEFINE S == {k \in 0..n : Added(f[k], m, joint, c, names(k))}
  <2>7. 0 \in S
    <3>1. names(0) = {} OBVIOUS
    <3>2. Added(m, m, joint, c, {}) BY DEF Added
    <3>3. f[0] = m /\ 0 \in 0..n BY <2>2, <2>6
    <3> HIDE DEF names
    <3>4. Added(f[0], m, joint, c, names(0)) BY <3>1, <3>2, <3>3
    <3> QED BY <3>3, <3>4
  <2>8. ASSUME NEW k \in 0..n, k \in S, k < n PROVE k + 1 \in S
    <3>1. k + 1 \in 1..n /\ (k + 1) - 1 = k /\ k + 1 \in 0..n /\ k \in Nat BY <2>2, <2>8
    <3>2. f[k + 1] = MapOne(f[k], joint, c, kind, es[k + 1]) BY <2>6, <3>1
    <3>3. f[k] \in Maps(joint, kind) /\ es[k + 1] \in ToSet(es) BY <2>2, <3>1
    <3>4. Added(f[k], m, joint, c, names(k)) BY <2>8
    <3>5. 1..(k + 1) = (1..k) \cup {k + 1} BY <3>1
    <3>6. CASE Selects(c, kind, es[k + 1])
      <4>1. Added(f[k + 1], f[k], joint, c, {es[k + 1][2]})
        BY <1>2, <3>2, <3>3, <3>6, MapOneAdds
      <4>2. names(k + 1) = names(k) \cup {es[k + 1][2]} BY <3>5, <3>6
      <4> HIDE DEF names
      <4>3. Added(f[k + 1], m, joint, c, names(k + 1)) BY <3>4, <4>1, <4>2, AddedTwice
      <4> QED BY <3>1, <4>3
    <3>7. CASE ~Selects(c, kind, es[k + 1])
      <4>1. f[k + 1] = f[k] BY <1>2, <3>2, <3>3, <3>7, MapOneAdds
      <4>2. names(k + 1) = names(k) BY <3>5, <3>7
      <4> HIDE DEF names
      <4> QED BY <3>1, <3>4, <4>1, <4>2
    <3> QED BY <3>6, <3>7
  <2> HIDE DEF S
  <2>9. \A k \in 0..n : k \in S BY <2>2, <2>7, <2>8, BoundedInduction
  <2>10. Added(f[n], m, joint, c, names(n)) BY <2>2, <2>9 DEF S
  <2>11. names(n) = Offered(c, kind)
    <3>1. \A k \in 1..n : es[k][2] \in STRING BY <2>2 DEF Name
    <3>2. \A x : Offers(c, kind, x) <=> \E k \in 1..n : Selects(c, kind, es[k]) /\ es[k][2] = x
      BY <1>2, <2>3 DEF Offers
    <3> HIDE DEF es
    <3> QED BY <3>1, <3>2 DEF Offered
  <2>12. f[n] \in Maps(joint, kind) BY <2>2
  <2> QED BY <2>6, <2>10, <2>11, <2>12
<1> QED BY <1>1, <1>2

\* The interfaces of a joint are those its claims offer, each from the first of
\* the claims that offer it.
FromFirst(map, joint, cs, kind, n) ==
  /\ \A x : <<joint, x>> \in DOMAIN map <=> \E k \in 1..n : Offers(cs[k], kind, x)
  /\ \A x : \A k \in 1..n :
       Offers(cs[k], kind, x) /\ (\A i \in 1..n : i < k => ~Offers(cs[i], kind, x)) =>
         map[<<joint, x>>] = [slave |-> cs[k].slave, interface |-> <<cs[k].claim, x>>]

\* Taking the claims of a joint one after the other maps each interface to the
\* first.
LEMMA OfJointIsFirst ==
  ASSUME NEW claims \in Configurations, NEW joint \in DOMAIN claims, NEW kind \in Kind
  PROVE  /\ OfJoint(claims, joint, kind) \in Maps(joint, kind)
         /\ FromFirst(OfJoint(claims, joint, kind), joint, claims[joint], kind,
                      Len(claims[joint]))
<1> DEFINE cs == claims[joint]
           n == Len(cs)
           m == OfJoint(claims, joint, kind)
<1>1. cs \in Seq(ClaimRecord) BY ConfigurationsAssumption DEF ClaimRecord
<1>2. n \in Nat /\ DOMAIN cs = 1..n /\ \A k \in 1..n : cs[k] \in ClaimRecord BY <1>1
<1> HIDE DEF n
<1>12. \A k \in 1..n : \A x : Offers(cs[k], kind, x) <=> x \in Offered(cs[k], kind)
  <2> SUFFICES ASSUME NEW k \in 1..n, NEW x, Offers(cs[k], kind, x) PROVE x \in STRING
    BY DEF Offered
  <2>1. PICK i \in ToSet(Exports[cs[k].slave][kind]) : i[2] = x /\ cs[k].slave \in Slave
    BY DEF Offers
  <2>2. Exports[cs[k].slave][kind] \in Seq(Name) BY <2>1, ExportsAssumption DEF Slave, Kind, Name
  <2>3. i \in Name BY <2>2 DEF ToSet
  <2> QED BY <2>1, <2>3 DEF Name
<1>3. <<>> \in Maps(joint, kind)
  <2>1. {} \in SUBSET ({joint} \X STRING) /\ IsFiniteSet({}) BY FS_EmptySet
  <2>2. <<>> \in [{} -> Target(kind)] OBVIOUS
  <2> QED BY <2>1, <2>2, MapsIntro
<1>4. \A t \in Maps(joint, kind), k \in 1..n : MapClaim(t, joint, cs[k], kind) \in Maps(joint, kind)
  BY <1>2, MapClaimAdds
<1>5. PICK f \in [0..n -> Maps(joint, kind)] : OfJointSteps(f, n, claims, joint, kind)
  BY <1>2, <1>3, <1>4, OfJointFold
<1>6. /\ m = f[n] /\ f[0] = <<>>
      /\ \A k \in 1..n : f[k] = MapClaim(f[k - 1], joint, cs[k], kind)
  BY <1>5 DEF OfJointSteps
<1> HIDE DEF m
<1> DEFINE S == {k \in 0..n : FromFirst(f[k], joint, cs, kind, k)}
<1>7. 0 \in S
  <2>1. DOMAIN f[0] = {} BY <1>6
  <2>2. 1..0 = {} OBVIOUS
  <2> QED BY <1>2, <2>1, <2>2 DEF FromFirst
<1>8. ASSUME NEW k \in 0..n, k \in S, k < n PROVE k + 1 \in S
  <2>1. k + 1 \in 1..n /\ (k + 1) - 1 = k /\ k + 1 \in 0..n /\ k \in Nat BY <1>2, <1>8
  <2>2. f[k + 1] = MapClaim(f[k], joint, cs[k + 1], kind) BY <1>6, <2>1
  <2>3. f[k] \in Maps(joint, kind) /\ cs[k + 1] \in ClaimRecord BY <1>2, <2>1
  <2>4. Added(f[k + 1], f[k], joint, cs[k + 1], Offered(cs[k + 1], kind))
    BY <2>2, <2>3, MapClaimAdds
  <2>5. FromFirst(f[k], joint, cs, kind, k) BY <1>8
  <2>6. \A i : i \in 1..(k + 1) <=> i \in 1..k \/ i = k + 1 BY <2>1
  <2>7. \A i \in 1..k : i < k + 1 /\ ~(k + 1 < i) BY <2>1
  <2>8. ASSUME NEW x
        PROVE  <<joint, x>> \in DOMAIN f[k + 1] <=> \E i \in 1..(k + 1) : Offers(cs[i], kind, x)
    <3>1. <<joint, x>> \in DOMAIN f[k + 1] <=>
            <<joint, x>> \in DOMAIN f[k] \/ Offers(cs[k + 1], kind, x)
      BY <1>12, <2>1, <2>4 DEF Added
    <3>2. <<joint, x>> \in DOMAIN f[k] <=> \E i \in 1..k : Offers(cs[i], kind, x)
      BY <2>5 DEF FromFirst
    <3> QED BY <2>6, <3>1, <3>2
  <2>9. ASSUME NEW x, NEW i \in 1..(k + 1), Offers(cs[i], kind, x),
               \A l \in 1..(k + 1) : l < i => ~Offers(cs[l], kind, x)
        PROVE  f[k + 1][<<joint, x>>] = [slave |-> cs[i].slave, interface |-> <<cs[i].claim, x>>]
    <3>1. CASE i \in 1..k
      <4>1. <<joint, x>> \in DOMAIN f[k] BY <2>5, <2>9, <3>1 DEF FromFirst
      <4>2. f[k][<<joint, x>>] = [slave |-> cs[i].slave, interface |-> <<cs[i].claim, x>>]
        BY <2>5, <2>6, <2>9, <3>1 DEF FromFirst
      <4> QED BY <2>4, <4>1, <4>2 DEF Added
    <3>2. CASE i = k + 1
      <4>1. ~\E l \in 1..k : Offers(cs[l], kind, x) BY <2>6, <2>7, <2>9, <3>2
      <4>2. <<joint, x>> \notin DOMAIN f[k] BY <2>5, <4>1 DEF FromFirst
      <4>3. x \in Offered(cs[i], kind) BY <1>12, <2>1, <2>9, <3>2
      <4> QED BY <2>4, <3>2, <4>2, <4>3 DEF Added
    <3> QED BY <2>6, <3>1, <3>2
  <2>10. FromFirst(f[k + 1], joint, cs, kind, k + 1) BY <2>8, <2>9 DEF FromFirst
  <2> QED BY <2>1, <2>10
<1> HIDE DEF S
<1>9. \A k \in 0..n : k \in S BY <1>2, <1>7, <1>8, BoundedInduction
<1>10. FromFirst(f[n], joint, cs, kind, n) BY <1>2, <1>9 DEF S
<1>11. f[n] \in Maps(joint, kind) BY <1>2
<1> QED BY <1>6, <1>10, <1>11 DEF n, m

\* All joints.
LEMMA Resolved ==
  ASSUME NEW claims \in Configurations, NEW kind \in Kind
  PROVE  /\ Resolve(claims, kind) \in [DOMAIN Resolve(claims, kind) -> Target(kind)]
         /\ DOMAIN Resolve(claims, kind) \in SUBSET ((DOMAIN claims) \X STRING)
         /\ IsFiniteSet(DOMAIN Resolve(claims, kind))
         /\ \A j \in DOMAIN claims :
              FromFirst(Resolve(claims, kind), j, claims[j], kind, Len(claims[j]))
<1> DEFINE of == [j \in DOMAIN claims |-> OfJoint(claims, j, kind)]
           D == UNION {DOMAIN of[j] : j \in DOMAIN claims}
           R == Resolve(claims, kind)
<1>1. R = [name \in D |-> of[name[1]][name]] BY DEF Resolve
<1>2. \A j \in DOMAIN claims :
        of[j] \in Maps(j, kind) /\ FromFirst(of[j], j, claims[j], kind, Len(claims[j]))
  BY OfJointIsFirst
<1>3. \A j \in DOMAIN claims :
        /\ of[j] \in [DOMAIN of[j] -> Target(kind)]
        /\ DOMAIN of[j] \in SUBSET ({j} \X STRING) /\ IsFiniteSet(DOMAIN of[j])
  BY <1>2, MapsElim
<1> HIDE DEF of, R
<1>4. D \in SUBSET ((DOMAIN claims) \X STRING)
  <2> SUFFICES ASSUME NEW j \in DOMAIN claims, NEW x \in DOMAIN of[j]
               PROVE  x \in (DOMAIN claims) \X STRING
    OBVIOUS
  <2>1. x \in {j} \X STRING BY <1>3
  <2> QED BY <2>1
<1>5. ASSUME NEW j \in DOMAIN claims, NEW x \in DOMAIN of[j]
      PROVE  x[1] = j /\ x \in D /\ R[x] = of[j][x] /\ R[x] \in Target(kind)
  <2>1. x[1] = j /\ x \in D BY <1>3
  <2> QED BY <1>1, <1>3, <2>1
<1>6. ASSUME NEW x \in D PROVE R[x] \in Target(kind)
  BY <1>5
<1>7. R \in [D -> Target(kind)] /\ DOMAIN R = D BY <1>1, <1>6
<1>8. IsFiniteSet(D)
  <2> DEFINE Ds == {DOMAIN of[j] : j \in DOMAIN claims}
  <2>1. IsFiniteSet(DOMAIN claims) BY ConfigurationsAssumption
  <2> DEFINE d == [j \in DOMAIN claims |-> DOMAIN of[j]]
  <2>2. d \in Surjection(DOMAIN claims, Ds) BY DEF Surjection
  <2>3. IsFiniteSet(Ds) BY <2>1, <2>2, FS_Surjection
  <2>4. \A s \in Ds : IsFiniteSet(s) BY <1>3
  <2> QED BY <2>3, <2>4, FS_UNION
<1>9. ASSUME NEW j \in DOMAIN claims
      PROVE  FromFirst(R, j, claims[j], kind, Len(claims[j]))
  <2>1. ASSUME NEW x PROVE <<j, x>> \in D <=> <<j, x>> \in DOMAIN of[j]
    BY <1>3
  <2> DEFINE n == Len(claims[j])
             cs == claims[j]
  <2>2. FromFirst(of[j], j, cs, kind, n) BY <1>2
  <2> HIDE DEF n, cs
  <2>3. ASSUME NEW x, NEW k \in 1..n, Offers(cs[k], kind, x),
               \A i \in 1..n : i < k => ~Offers(cs[i], kind, x)
        PROVE  R[<<j, x>>] = [slave |-> cs[k].slave, interface |-> <<cs[k].claim, x>>]
    <3>1. <<j, x>> \in DOMAIN of[j] BY <2>2, <2>3 DEF FromFirst
    <3>2. R[<<j, x>>] = of[j][<<j, x>>] BY <1>5, <3>1
    <3> QED BY <2>2, <2>3, <3>2 DEF FromFirst
  <2>4. \A x : <<j, x>> \in DOMAIN R <=> \E k \in 1..n : Offers(cs[k], kind, x)
    BY <1>7, <2>1, <2>2 DEF FromFirst
  <2> QED BY <2>3, <2>4 DEF FromFirst, n, cs
<1> QED BY <1>4, <1>7, <1>8, <1>9 DEF R

-----------------------------------------------------------------------------
(* The handles the driver exports *)

\* Behind and Proxy, for any transmissions.
BehindOf(trans, map) == {i \in DOMAIN map : i[1] \in DOMAIN trans}
ProxyOf(trans, i) == <<trans[i[1]], i[2]>>

\* The handles of the interfaces in P, with these values behind transmissions.
Numbered(trans, map, P, v) ==
  {[name |-> ProxyOf(trans, i), value |-> v[i], behind |-> map[i]] :
     i \in P \cap BehindOf(trans, map)}
  \cup {[name |-> i, value |-> 0, behind |-> map[i]] : i \in P \ BehindOf(trans, map)}

\* One handle per interface; the values are the first N, each used once.
Assigned(handles, trans, map, P, v, N) ==
  /\ N \in Nat /\ v \in Bijection(P \cap BehindOf(trans, map), 1..N)
  /\ handles = Numbered(trans, map, P, v)

\* A finite set in some order.
LEMMA SetInOrder ==
  ASSUME NEW O, IsFiniteSet(O)
  PROVE  /\ Cardinality(O) \in Nat
         /\ SetToSeq(O) \in Bijection(1..Cardinality(O), O)
<1> DEFINE n == Cardinality(O)
           s == SetToSeq(O)
<1>1. n \in Nat /\ ExistsBijection(1..n, O) BY FS_CardinalityType
<1>2. PICK b : b \in Bijection(1..n, O) BY <1>1 DEF ExistsBijection
<1>3. b \in [1..n -> O] /\ IsInjective(b) BY <1>2 DEF Bijection, Injection
<1>4. s \in [1..n -> O] /\ IsInjective(s) BY <1>3 DEF SetToSeq
<1>5. s \in Injection(1..n, O) BY <1>4 DEF Injection
<1>6. Cardinality(1..n) = n
  <2>1. 1 \in Int /\ n \in Int BY <1>1
  <2>2. Cardinality(1..n) = IF 1 > n THEN 0 ELSE n - 1 + 1
    <3> HIDE DEF n
    <3> QED BY <2>1, FS_Interval
  <2> HIDE DEF n
  <2> QED BY <1>1, <2>2
<1>7. s \in Surjection(1..n, O)
  <2> HIDE DEF s
  <2> QED BY <1>5, <1>6, FS_Injection
<1> QED BY <1>1, <1>5, <1>7 DEF Bijection

\* The handles and values of one joint more.
LEMMA AddJointAssigns ==
  ASSUME NEW map, IsFiniteSet(DOMAIN map), NEW joint, NEW P \in SUBSET DOMAIN map,
         \A i \in P : i[1] # joint,
         NEW handles, NEW v, NEW N, Assigned(handles, transmissions, map, P, v, N)
  PROVE  \E w, M : Assigned(AddJoint(handles, map, joint), transmissions, map,
                            P \cup {i \in DOMAIN map : i[1] = joint}, w, M)
<1> DEFINE O == {i \in DOMAIN map : i[1] = joint}
           B == BehindOf(transmissions, map)
           own == SetToSeq(O)
           m == Cardinality(O)
           Q == P \cup O
           result_ == AddJoint(handles, map, joint)
<1>1. IsFiniteSet(O) /\ O \cap P = {} BY FS_Subset
<1>2. m \in Nat /\ own \in Bijection(1..m, O) BY <1>1, SetInOrder
<1>3. /\ own \in [1..m -> O] /\ DOMAIN own = 1..m
      /\ \A k, l \in 1..m : own[k] = own[l] => k = l
      /\ \A i \in O : \E k \in 1..m : own[k] = i
  BY <1>2 DEF Bijection, Injection, Surjection, IsInjective
<1>4. /\ N \in Nat /\ v \in [P \cap B -> 1..N]
      /\ \A i, j \in P \cap B : v[i] = v[j] => i = j
      /\ \A k \in 1..N : \E i \in P \cap B : v[i] = k
  BY DEF Assigned, Bijection, Injection, Surjection, IsInjective
<1>5. handles = Numbered(transmissions, map, P, v) BY DEF Assigned
<1>6. ToSet(own) = O
  <2>1. \A x : x \in ToSet(own) <=> \E k \in 1..m : x = own[k] BY <1>3 DEF ToSet
  <2> HIDE DEF own
  <2> QED BY <1>3, <2>1
<1>7. CASE joint \notin DOMAIN transmissions
  <2>1. O \cap B = {} BY <1>7 DEF BehindOf
  <2>2. Q \cap B = P \cap B /\ Q \ B = (P \ B) \cup O BY <2>1
  <2>3. result_ = handles \cup {[name |-> i, value |-> 0, behind |-> map[i]] : i \in O}
    BY <1>6, <1>7 DEF AddJoint
  <2> DEFINE own0(S) == {[name |-> i, value |-> 0, behind |-> map[i]] : i \in S}
             proxies(S) == {[name |-> ProxyOf(transmissions, i), value |-> v[i], behind |-> map[i]] :
                              i \in S}
  <2>4. own0(Q \ B) = own0(P \ B) \cup own0(O) BY <2>2
  <2>5. handles = proxies(P \cap B) \cup own0(P \ B) BY <1>5 DEF Numbered
  <2>6. Numbered(transmissions, map, Q, v) = proxies(Q \cap B) \cup own0(Q \ B)
    BY DEF Numbered
  <2>7. result_ = handles \cup own0(O) BY <2>3
  <2> HIDE DEF own0, proxies, result_, Q
  <2>8. result_ = Numbered(transmissions, map, Q, v) BY <2>2, <2>4, <2>5, <2>6, <2>7
  <2>9. v \in Bijection(Q \cap B, 1..N) BY <2>2 DEF Assigned
  <2>10. Assigned(result_, transmissions, map, Q, v, N) BY <1>4, <2>8, <2>9 DEF Assigned
  <2> QED BY <2>10 DEF result_, Q
<1>8. CASE joint \in DOMAIN transmissions
  <2> DEFINE used == Max({h.value : h \in handles} \cup {0})
             place(i) == CHOOSE k \in 1..m : own[k] = i
             w == [i \in Q \cap B |-> IF i \in P THEN v[i] ELSE N + place(i)]
  <2>1. O \subseteq B BY <1>8 DEF BehindOf
  <2>2. Q \cap B = (P \cap B) \cup O /\ Q \ B = P \ B BY <1>1, <2>1
  <2>3. used = N
    <3> DEFINE V == {h.value : h \in handles} \cup {0}
    <3>1. \A h \in handles : h.value \in 0..N
      BY <1>4, <1>5 DEF Numbered
    <3>2. \A k \in 1..N : \E h \in handles : h.value = k
      <4> SUFFICES ASSUME NEW k \in 1..N PROVE \E h \in handles : h.value = k
        OBVIOUS
      <4>1. PICK i \in P \cap B : v[i] = k BY <1>4
      <4> DEFINE h == [name |-> ProxyOf(transmissions, i), value |-> v[i], behind |-> map[i]]
      <4>2. h \in handles /\ h.value = k BY <1>5, <4>1 DEF Numbered
      <4> QED BY <4>2
    <3>3. V \in SUBSET (0..N) /\ V # {} BY <1>4, <3>1
    <3>4. N \in V BY <1>4, <3>2
    <3> HIDE DEF V
    <3>5. Max(V) \in V /\ \A x \in V : x <= Max(V) BY <1>4, <3>3, MaxOfBounded
    <3> DEFINE x == Max(V)
    <3>6. x \in 0..N /\ N <= x BY <3>3, <3>4, <3>5
    <3> HIDE DEF x
    <3>7. x = N BY <1>4, <3>6
    <3> QED BY <3>7 DEF x, V
  <2>4. \A i \in O : place(i) \in 1..m /\ own[place(i)] = i BY <1>3
  <2>5. \A k \in 1..m : own[k] \in O /\ place(own[k]) = k BY <1>3, <2>4
  <2>6. result_ = handles \cup
          {[name |-> Proxy(own[k]), value |-> used + k, behind |-> map[own[k]]] : k \in 1..m}
    BY <1>3, <1>8 DEF AddJoint, NextValue
  <2> HIDE DEF used, place, own, m, result_
  <2>7. /\ \A i \in P \cap B : w[i] = v[i]
        /\ \A i \in O : w[i] = N + place(i)
    BY <1>1, <2>2
  <2>8. w = [i \in Q \cap B |-> w[i]] OBVIOUS
  <2> HIDE DEF w
  <2> DEFINE entry(i, x) == [name |-> ProxyOf(transmissions, i), value |-> x, behind |-> map[i]]
             own0(S) == {[name |-> i, value |-> 0, behind |-> map[i]] : i \in S}
  <2>9. result_ = handles \cup {entry(own[k], N + k) : k \in 1..m}
    BY <2>3, <2>6 DEF Proxy, ProxyOf
  <2>10. handles = {entry(i, v[i]) : i \in P \cap B} \cup own0(P \ B) BY <1>5 DEF Numbered
  <2>11. Numbered(transmissions, map, Q, w) = {entry(i, w[i]) : i \in Q \cap B} \cup own0(Q \ B)
    BY DEF Numbered
  <2> HIDE DEF entry, own0, O, B, Q
  <2>12. {entry(own[k], N + k) : k \in 1..m} = {entry(i, w[i]) : i \in O}
    <3>1. ASSUME NEW k \in 1..m PROVE \E i \in O : entry(own[k], N + k) = entry(i, w[i])
      <4>1. w[own[k]] = N + k BY <2>5, <2>7
      <4> QED BY <2>5, <4>1
    <3>2. ASSUME NEW i \in O PROVE \E k \in 1..m : entry(own[k], N + k) = entry(i, w[i])
      BY <2>4, <2>7
    <3> QED BY <3>1, <3>2
  <2>13. {entry(i, w[i]) : i \in Q \cap B}
           = {entry(i, v[i]) : i \in P \cap B} \cup {entry(i, w[i]) : i \in O}
    <3>1. {entry(i, w[i]) : i \in Q \cap B}
            = {entry(i, w[i]) : i \in P \cap B} \cup {entry(i, w[i]) : i \in O}
      BY <2>2
    <3>2. {entry(i, w[i]) : i \in P \cap B} = {entry(i, v[i]) : i \in P \cap B}
      BY <2>7
    <3> QED BY <3>1, <3>2
  <2>14. result_ = Numbered(transmissions, map, Q, w)
    BY <2>2, <2>9, <2>10, <2>11, <2>12, <2>13
  <2>15. w \in Bijection(Q \cap B, 1..(N + m))
    <3>1. ASSUME NEW i \in Q \cap B PROVE w[i] \in 1..(N + m)
      <4>1. CASE i \in P \cap B
        <5>1. w[i] = v[i] /\ v[i] \in 1..N BY <1>4, <2>7, <4>1
        <5> QED BY <1>2, <1>4, <5>1
      <4>2. CASE i \in O
        <5>1. w[i] = N + place(i) /\ place(i) \in 1..m BY <2>4, <2>7, <4>2
        <5> QED BY <1>2, <1>4, <5>1
      <4> QED BY <2>2, <4>1, <4>2
    <3>2. ASSUME NEW i \in Q \cap B, NEW j \in Q \cap B, w[i] = w[j] PROVE i = j
      <4>1. CASE i \in P \cap B /\ j \in P \cap B BY <1>4, <2>7, <3>2, <4>1
      <4>2. CASE i \in O /\ j \in O
        <5>1. N + place(i) = N + place(j) /\ place(i) \in 1..m /\ place(j) \in 1..m
          BY <2>4, <2>7, <3>2, <4>2
        <5>2. place(i) = place(j) BY <1>2, <1>4, <5>1
        <5> QED BY <2>4, <4>2, <5>2
      <4>3. CASE i \in P \cap B /\ j \in O
        <5>1. v[i] = N + place(j) /\ place(j) \in 1..m /\ v[i] \in 1..N
          BY <1>4, <2>4, <2>7, <3>2, <4>3
        <5> QED BY <1>2, <1>4, <5>1
      <4>4. CASE i \in O /\ j \in P \cap B
        <5>1. v[j] = N + place(i) /\ place(i) \in 1..m /\ v[j] \in 1..N
          BY <1>4, <2>4, <2>7, <3>2, <4>4
        <5> QED BY <1>2, <1>4, <5>1
      <4> QED BY <2>2, <4>1, <4>2, <4>3, <4>4
    <3>3. ASSUME NEW k \in 1..(N + m) PROVE \E i \in Q \cap B : w[i] = k
      <4>1. CASE k <= N
        <5>1. k \in 1..N BY <1>4, <4>1
        <5>2. PICK i \in P \cap B : v[i] = k BY <1>4, <5>1
        <5> QED BY <2>2, <2>7, <5>2
      <4>2. CASE ~(k <= N)
        <5>1. k - N \in 1..m /\ N + (k - N) = k BY <1>2, <1>4, <4>2
        <5>2. own[k - N] \in O /\ place(own[k - N]) = k - N BY <2>5, <5>1
        <5>3. w[own[k - N]] = k BY <2>7, <5>1, <5>2
        <5> QED BY <2>2, <5>2, <5>3
      <4> QED BY <4>1, <4>2
    <3>4. w \in [Q \cap B -> 1..(N + m)] BY <2>8, <3>1
    <3>5. DOMAIN w = Q \cap B BY <3>4
    <3>6. IsInjective(w) BY <3>2, <3>5 DEF IsInjective
    <3> QED BY <3>3, <3>4, <3>6 DEF Bijection, Injection, Surjection
  <2>16. N + m \in Nat BY <1>2, <1>4
  <2>17. Assigned(result_, transmissions, map, Q, w, N + m)
    BY <2>14, <2>15, <2>16 DEF Assigned, B
  <2> QED BY <2>17 DEF result_, Q, O
<1> QED BY <1>7, <1>8

\* Handles whose values are bounded.
HandleSets(map) ==
  {H \in SUBSET [name : {Proxy(i) : i \in DOMAIN map} \cup DOMAIN map,
                 value : Nat, behind : {map[i] : i \in DOMAIN map}] :
     \E b \in Nat : \A h \in H : h.value <= b}

\* The handles of a joint more are bounded again.
LEMMA AddJointTyped ==
  ASSUME NEW map, IsFiniteSet(DOMAIN map), NEW joint, NEW handles \in HandleSets(map)
  PROVE  AddJoint(handles, map, joint) \in HandleSets(map)
<1> DEFINE O == {i \in DOMAIN map : i[1] = joint}
           own == SetToSeq(O)
           m == Cardinality(O)
           V == {h.value : h \in handles} \cup {0}
           used == Max(V)
           Rec == [name : {Proxy(i) : i \in DOMAIN map} \cup DOMAIN map,
                   value : Nat, behind : {map[i] : i \in DOMAIN map}]
           result_ == AddJoint(handles, map, joint)
<1>1. IsFiniteSet(O) BY FS_Subset
<1>2. m \in Nat /\ own \in Bijection(1..m, O) BY <1>1, SetInOrder
<1>3. own \in [1..m -> O] /\ DOMAIN own = 1..m
  BY <1>2 DEF Bijection, Injection
<1>4. /\ handles \in SUBSET Rec
      /\ \E b \in Nat : \A h \in handles : h.value <= b
  BY DEF HandleSets
<1>5. PICK b \in Nat : \A h \in handles : h.value <= b BY <1>4
<1>6. \A h \in handles : h.value \in Nat BY <1>4
<1>7. used \in 0..b
  <2>1. V \in SUBSET (0..b) /\ V # {} BY <1>5, <1>6
  <2> HIDE DEF V
  <2>2. Max(V) \in V BY <2>1, MaxOfBounded
  <2> QED BY <2>1, <2>2
<1>8. CASE joint \notin DOMAIN transmissions
  <2> DEFINE new == {[name |-> i, value |-> 0, behind |-> map[i]] : i \in ToSet(own)}
  <2>1. result_ = handles \cup new BY <1>8 DEF AddJoint
  <2>2. ToSet(own) \subseteq DOMAIN map BY <1>3 DEF ToSet
  <2>3. new \in SUBSET Rec /\ \A h \in new : h.value <= b
    <3> DEFINE D == ToSet(own)
    <3>1. D \subseteq DOMAIN map BY <2>2
    <3>2. new = {[name |-> i, value |-> 0, behind |-> map[i]] : i \in D} /\ 0 <= b
      BY <1>5
    <3> HIDE DEF D, own, new
    <3>3. \A i \in D : [name |-> i, value |-> 0, behind |-> map[i]] \in Rec
      BY <3>1
    <3> HIDE DEF Rec
    <3> QED BY <3>2, <3>3
  <2> HIDE DEF new, result_
  <2>4. result_ \in SUBSET Rec /\ \A h \in result_ : h.value <= b
    BY <1>4, <1>5, <2>1, <2>3
  <2> QED BY <2>4 DEF HandleSets, result_
<1>9. CASE joint \in DOMAIN transmissions
  <2> DEFINE new == {[name |-> Proxy(own[k]), value |-> used + k, behind |-> map[own[k]]] :
                       k \in 1..m}
  <2>1. result_ = handles \cup new BY <1>3, <1>9 DEF AddJoint, NextValue
  <2>2. \A k \in 1..m : own[k] \in DOMAIN map BY <1>3
  <2>3. \A k \in 1..m : used + k \in Nat /\ used + k <= b + m BY <1>2, <1>7
  <2> HIDE DEF used, own, m
  <2>4. new \in SUBSET Rec /\ \A h \in new : h.value <= b + m BY <2>2, <2>3
  <2> HIDE DEF new, result_
  <2>5. \A x \in Nat : x <= b => x <= b + m BY <1>2
  <2>6. result_ \in SUBSET Rec /\ \A h \in result_ : h.value <= b + m
    BY <1>4, <1>5, <1>6, <2>1, <2>4, <2>5
  <2>7. b + m \in Nat BY <1>2
  <2> QED BY <2>6, <2>7 DEF HandleSets, result_
<1> QED BY <1>8, <1>9

\* Whatever the order of the joints: one handle per interface, one value per
\* interface behind a transmission.
LEMMA HandlesAssigned ==
  ASSUME NEW map, IsFiniteSet(DOMAIN map), NEW J, IsFiniteSet(J),
         \A i \in DOMAIN map : i[1] \in J, NEW joints \in SetToSeqs(J)
  PROVE  \E v, N : Assigned(Handles(map, joints), transmissions, map, DOMAIN map, v, N)
<1> DEFINE n == Cardinality(J)
           P(k) == {i \in DOMAIN map : \E l \in 1..k : i[1] = joints[l]}
<1>1. n \in Nat BY FS_CardinalityType
<1>2. joints \in [1..n -> J] /\ \A i, j \in 1..n : i # j => joints[i] # joints[j]
  BY DEF SetToSeqs
<1> HIDE DEF n
<1>3. \A j \in J : \E l \in 1..n : j = joints[l]
  <2>1. joints \in Injection(1..n, J) BY <1>2 DEF Injection, IsInjective
  <2>2. Cardinality(1..n) = n
    <3>1. 1 \in Int /\ n \in Int BY <1>1
    <3>2. Cardinality(1..n) = IF 1 > n THEN 0 ELSE n - 1 + 1 BY <3>1, FS_Interval
    <3> QED BY <1>1, <3>2
  <2>3. joints \in Surjection(1..n, J) BY <2>1, <2>2, FS_Injection DEF n
  <2> QED BY <2>3 DEF Surjection
<1>4. DOMAIN joints = 1..n BY <1>2
<1>5. {} \in HandleSets(map)
  <2>1. 0 \in Nat /\ \A h \in {} : h.value <= 0 OBVIOUS
  <2> QED BY <2>1 DEF HandleSets
<1>6. \A t \in HandleSets(map), k \in 1..n : AddJoint(t, map, joints[k]) \in HandleSets(map)
  BY AddJointTyped
<1>7. PICK f \in [0..n -> HandleSets(map)] : HandlesSteps(f, n, map, joints)
  BY <1>1, <1>4, <1>5, <1>6, HandlesFold
<1>8. /\ Handles(map, joints) = f[n] /\ f[0] = {}
      /\ \A k \in 1..n : f[k] = AddJoint(f[k - 1], map, joints[k])
  BY <1>7 DEF HandlesSteps
<1> DEFINE S == {k \in 0..n : \E v, N : Assigned(f[k], transmissions, map, P(k), v, N)}
<1>9. 0 \in S
  <2>1. P(0) = {} OBVIOUS
  <2>2. <<>> \in Bijection({}, 1..0)
    BY DEF Bijection, Injection, Surjection, IsInjective
  <2>3. {} = Numbered(transmissions, map, {}, <<>>) BY DEF Numbered
  <2>4. Assigned({}, transmissions, map, {}, <<>>, 0) BY <2>2, <2>3 DEF Assigned
  <2> HIDE DEF P
  <2>5. Assigned(f[0], transmissions, map, P(0), <<>>, 0) BY <1>8, <2>1, <2>4
  <2> QED BY <1>1, <2>5
<1>10. ASSUME NEW k \in 0..n, k \in S, k < n PROVE k + 1 \in S
  <2>1. k + 1 \in 1..n /\ (k + 1) - 1 = k /\ k + 1 \in 0..n BY <1>1, <1>10
  <2>2. f[k + 1] = AddJoint(f[k], map, joints[k + 1]) BY <1>8, <2>1
  <2>3. PICK v, N : Assigned(f[k], transmissions, map, P(k), v, N) BY <1>10
  <2>4. \A l : l \in 1..(k + 1) <=> l \in 1..k \/ l = k + 1 BY <1>1
  <2>5. \A l \in 1..k : l \in 1..n /\ l # k + 1 BY <1>1, <2>1
  <2>6. P(k) \in SUBSET DOMAIN map /\ \A i \in P(k) : i[1] # joints[k + 1]
    BY <1>2, <2>1, <2>5
  <2>7. P(k + 1) = P(k) \cup {i \in DOMAIN map : i[1] = joints[k + 1]} BY <2>4
  <2> DEFINE p == P(k)
             joint == joints[k + 1]
  <2>8. /\ p \in SUBSET DOMAIN map /\ \A i \in p : i[1] # joint
        /\ Assigned(f[k], transmissions, map, p, v, N)
        /\ P(k + 1) = p \cup {i \in DOMAIN map : i[1] = joint}
        /\ f[k + 1] = AddJoint(f[k], map, joint)
    BY <2>2, <2>3, <2>6, <2>7
  <2> HIDE DEF P, p, joint
  <2>9. \E w, M : Assigned(AddJoint(f[k], map, joint), transmissions, map,
                           p \cup {i \in DOMAIN map : i[1] = joint}, w, M)
    BY <2>8, AddJointAssigns
  <2>10. \E w, M : Assigned(f[k + 1], transmissions, map, P(k + 1), w, M)
    BY <2>8, <2>9
  <2> QED BY <2>1, <2>10
<1>11. P(n) = DOMAIN map BY <1>3
<1> HIDE DEF S, P
<1>12. \A k \in 0..n : k \in S BY <1>1, <1>9, <1>10, BoundedInduction
<1>13. n \in S BY <1>1, <1>12
<1> QED BY <1>8, <1>11, <1>13 DEF S

\* The name an interface of a joint is exported under.
NameOf(i) == IF i[1] \in DOMAIN transmissions THEN Proxy(i) ELSE i

\* What the configuration and the loaded transmissions are.
Configured == joint_claims \in Configurations /\ transmissions \in Loaded

\* It leads back to one interface.
LEMMA NamesLeadBack ==
  ASSUME NamesAreUnique, Configured,
         NEW i \in (DOMAIN joint_claims) \X STRING, NEW j \in (DOMAIN joint_claims) \X STRING,
         NameOf(i) = NameOf(j)
  PROVE  i = j
<1>1. PICK loaded \in SUBSET DOMAIN Transmissions :
        transmissions = [a \in loaded |-> Transmissions[a]]
  BY DEF Configured, Loaded
<1>2. /\ i[1] \in DOMAIN joint_claims /\ i = <<i[1], i[2]>>
      /\ j[1] \in DOMAIN joint_claims /\ j = <<j[1], j[2]>>
  OBVIOUS
<1>3. \A k : k \in loaded => k \in DOMAIN Transmissions /\ transmissions[k] = Transmissions[k]
  BY <1>1
<1>4. DOMAIN transmissions = loaded BY <1>1
<1>5. \A a, b \in DOMAIN Transmissions : Transmissions[a] = Transmissions[b] => a = b
  BY DEF NamesAreUnique, IsInjective
<1>6. \A a \in DOMAIN Transmissions :
        Transmissions[a] \in DOMAIN joint_claims => Transmissions[a] = a
  BY DEF NamesAreUnique, Configured
<1>7. CASE i[1] \in loaded /\ j[1] \in loaded
  <2>1. <<Transmissions[i[1]], i[2]>> = <<Transmissions[j[1]], j[2]>>
    BY <1>3, <1>4, <1>7 DEF NameOf, Proxy
  <2> QED BY <1>2, <1>3, <1>5, <1>7, <2>1
<1>8. CASE i[1] \in loaded /\ j[1] \notin loaded
  <2>1. <<Transmissions[i[1]], i[2]>> = <<j[1], j[2]>>
    BY <1>2, <1>3, <1>4, <1>8 DEF NameOf, Proxy
  <2>2. Transmissions[i[1]] = j[1] BY <2>1
  <2> QED BY <1>2, <1>3, <1>6, <1>8, <2>2
<1>9. CASE i[1] \notin loaded /\ j[1] \in loaded
  <2>1. <<Transmissions[j[1]], j[2]>> = <<i[1], i[2]>>
    BY <1>2, <1>3, <1>4, <1>9 DEF NameOf, Proxy
  <2>2. Transmissions[j[1]] = i[1] BY <2>1
  <2> QED BY <1>2, <1>3, <1>6, <1>9, <2>2
<1>10. CASE i[1] \notin loaded /\ j[1] \notin loaded
  BY <1>4, <1>10 DEF NameOf
<1> QED BY <1>7, <1>8, <1>9, <1>10

\* A handle is the one of its name, and no other has its value.
LEMMA HandlesLead ==
  ASSUME NamesAreUnique, Configured, NEW map,
         DOMAIN map \in SUBSET ((DOMAIN joint_claims) \X STRING), IsFiniteSet(DOMAIN map),
         NEW handles, NEW v, NEW N, Assigned(handles, transmissions, map, DOMAIN map, v, N),
         NEW h \in handles
  PROVE  /\ \E i \in DOMAIN map : h.name = NameOf(i) /\ Reached(handles, h.name) = {map[i]}
         /\ h.value <= Cardinality(Behind(map))
<1> DEFINE B == Behind(map)
           D == DOMAIN map
           number(i) == IF i \in B THEN v[i] ELSE 0
           handle(i) == [name |-> NameOf(i), value |-> number(i), behind |-> map[i]]
<1>1. B = BehindOf(transmissions, map) /\ B \subseteq D /\ D \cap B = B
  BY DEF Behind, BehindOf
<1>2. /\ N \in Nat /\ v \in Bijection(B, 1..N)
      /\ handles = Numbered(transmissions, map, D, v)
  BY <1>1 DEF Assigned
<1>3. v \in [B -> 1..N] /\ \A i, j \in B : v[i] = v[j] => i = j
  BY <1>2 DEF Bijection, Injection, IsInjective
<1>4. handles = {handle(i) : i \in D}
  <2>1. \A i \in B : NameOf(i) = ProxyOf(transmissions, i) /\ number(i) = v[i]
    BY DEF NameOf, Proxy, ProxyOf, Behind
  <2>2. \A i \in D \ B : NameOf(i) = i /\ number(i) = 0
    BY DEF NameOf, Behind
  <2> DEFINE proxies == {[name |-> ProxyOf(transmissions, i), value |-> v[i], behind |-> map[i]] :
                           i \in D \cap B}
             aliases == {[name |-> i, value |-> 0, behind |-> map[i]] : i \in D \ B}
  <2>3. handles = proxies \cup aliases BY <1>1, <1>2 DEF Numbered
  <2>4. proxies = {handle(i) : i \in B} BY <1>1, <2>1
  <2>5. aliases = {handle(i) : i \in D \ B} BY <2>2
  <2>6. D = B \cup (D \ B) BY <1>1
  <2> HIDE DEF proxies, aliases, handle, D, B
  <2> QED BY <2>3, <2>4, <2>5, <2>6
<1>5. \A i, j \in D : NameOf(i) = NameOf(j) => i = j BY NamesLeadBack
<1>6. \A i \in D : number(i) \in 0..N /\ (number(i) # 0 => i \in B /\ number(i) = v[i])
  BY <1>2, <1>3
<1>7. \A i, j \in D : number(i) # 0 /\ number(i) = number(j) => i = j
  BY <1>3, <1>6
<1> HIDE DEF number
<1>8. \A i \in D : /\ handle(i).name = NameOf(i) /\ handle(i).value = number(i)
                   /\ handle(i).behind = map[i]
  OBVIOUS
<1> HIDE DEF handle
<1>9. PICK i \in D : h = handle(i) BY <1>4
<1>10. {f \in handles : f.name = h.name} = {h} BY <1>4, <1>5, <1>8, <1>9
<1>11. {g \in handles : g = h \/ (h.value # 0 /\ g.value = h.value)} = {h}
  BY <1>4, <1>7, <1>8, <1>9
<1>12. Reached(handles, h.name) = {h.behind}
  <2> DEFINE behind(f) == {g.behind : g \in {g \in handles : g = f \/ (f.value # 0 /\ g.value = f.value)}}
  <2>1. Reached(handles, h.name) = UNION {behind(f) : f \in {h}}
    BY <1>10 DEF Reached
  <2>2. behind(h) = {h.behind} BY <1>11
  <2> HIDE DEF behind
  <2> QED BY <2>1, <2>2
<1>13. Cardinality(B) = N
  <2>1. IsFiniteSet(B) BY <1>1, FS_Subset
  <2>2. Cardinality(1..N) = Cardinality(B)
    BY <1>2, <2>1, FS_Bijection DEF ExistsBijection
  <2>3. 1 \in Int /\ N \in Int BY <1>2
  <2>4. Cardinality(1..N) = IF 1 > N THEN 0 ELSE N - 1 + 1 BY <2>3, FS_Interval
  <2> QED BY <1>2, <2>2, <2>4
<1>14. h.value <= N BY <1>2, <1>6, <1>8, <1>9
<1> QED BY <1>8, <1>9, <1>12, <1>13, <1>14

\* As many actuator interfaces as interfaces behind transmissions.
LEMMA ProxiesCounted ==
  ASSUME NamesAreUnique, Configured, NEW map,
         DOMAIN map \in SUBSET ((DOMAIN joint_claims) \X STRING), IsFiniteSet(DOMAIN map)
  PROVE  Cardinality(DOMAIN Proxies(map)) = Cardinality(Behind(map))
<1> DEFINE B == Behind(map)
           P == {Proxy(i) : i \in B}
           p == [i \in B |-> Proxy(i)]
<1>1. DOMAIN Proxies(map) = P BY DEF Proxies
<1>2. \A i \in B : i \in DOMAIN map /\ NameOf(i) = Proxy(i) BY DEF Behind, NameOf
<1>3. \A i, j \in B : Proxy(i) = Proxy(j) => i = j BY <1>2, NamesLeadBack
<1>4. IsFiniteSet(B)
  <2>1. B \in SUBSET DOMAIN map BY DEF Behind
  <2> QED BY <2>1, FS_Subset
<1> HIDE DEF B
<1>5. p \in Bijection(B, P) BY <1>3 DEF Bijection, Injection, Surjection, IsInjective
<1>6. ExistsBijection(B, P) BY <1>5 DEF ExistsBijection
<1>7. Cardinality(P) = Cardinality(B)
  <2> HIDE DEF P
  <2> QED BY <1>4, <1>6, FS_Bijection
<1> QED BY <1>1, <1>7 DEF B

\* The driver resolves a name it exported to the interface it exported.
LEMMA TransmittedBack ==
  ASSUME NamesAreUnique, Configured, NEW map,
         DOMAIN map \in SUBSET ((DOMAIN joint_claims) \X STRING),
         transmission_command_interface_map = Proxies(map), NEW i \in DOMAIN map
  PROVE  Transmitted(NameOf(i)) = i
<1> DEFINE B == Behind(map)
<1>1. \A j \in B : j \in DOMAIN map /\ NameOf(j) = Proxy(j) BY DEF Behind, NameOf
<1>2. \A j \in DOMAIN map : NameOf(i) = NameOf(j) => i = j BY NamesLeadBack
<1>3. /\ DOMAIN transmission_command_interface_map = {Proxy(j) : j \in B}
      /\ \A x \in {Proxy(j) : j \in B} :
           transmission_command_interface_map[x] = CHOOSE j \in B : Proxy(j) = x
  BY DEF Proxies
<1>4. i \in B \/ (i \notin B /\ NameOf(i) = i) BY DEF Behind, NameOf
<1> HIDE DEF B
<1>5. CASE i \in B
  <2>1. NameOf(i) \in {Proxy(j) : j \in B} BY <1>1, <1>5
  <2> DEFINE k == CHOOSE j \in B : Proxy(j) = NameOf(i)
  <2>2. k \in B /\ Proxy(k) = NameOf(i) BY <1>1, <1>5
  <2>3. k = i BY <1>1, <1>2, <2>2
  <2> QED BY <1>3, <2>1, <2>3 DEF Transmitted
<1>6. CASE i \notin B /\ NameOf(i) = i
  <2>1. NameOf(i) \notin {Proxy(j) : j \in B} BY <1>1, <1>2, <1>6
  <2> QED BY <1>3, <1>6, <2>1 DEF Transmitted
<1> QED BY <1>4, <1>5, <1>6

\* No two of the names a controller may claim lead to one interface.
LEMMA TransmittedOnce ==
  ASSUME NamesAreUnique, Configured, NEW map,
         DOMAIN map \in SUBSET ((DOMAIN joint_claims) \X STRING),
         transmission_command_interface_map = Proxies(map),
         \A h \in command_interfaces : \E i \in DOMAIN map : h.name = NameOf(i),
         NEW x \in Available, NEW y \in Available, Transmitted(x) = Transmitted(y)
  PROVE  x = y
<1> DEFINE Own == {NameOf(i) : i \in DOMAIN map}
<1>1. \A i \in DOMAIN map : Transmitted(NameOf(i)) = i /\ i[1] \in DOMAIN joint_claims
  BY TransmittedBack
<1>2. ASSUME NEW z \in Available, z \notin Own
      PROVE  Transmitted(z) = z /\ z[1] \notin DOMAIN joint_claims
  <2>1. z \in Foreign BY <1>2 DEF Available
  <2>2. z[1] \notin DOMAIN joint_claims BY <2>1 DEF NamesAreUnique, Configured
  <2>3. DOMAIN transmission_command_interface_map = {Proxy(j) : j \in Behind(map)}
    BY DEF Proxies
  <2>4. \A j \in Behind(map) : j \in DOMAIN map /\ NameOf(j) = Proxy(j)
    BY DEF Behind, NameOf
  <2>5. z \notin DOMAIN transmission_command_interface_map BY <1>2, <2>3, <2>4
  <2> QED BY <2>2, <2>5 DEF Transmitted
<1>3. CASE x \in Own /\ y \in Own BY <1>1, <1>3
<1>4. CASE x \in Own /\ y \notin Own
  <2>1. PICK i \in DOMAIN map : x = NameOf(i) BY <1>4
  <2>2. y = i BY <1>1, <1>2, <1>4, <2>1
  <2> QED BY <1>1, <1>2, <1>4, <2>2
<1>5. CASE x \notin Own /\ y \in Own
  <2>1. PICK i \in DOMAIN map : y = NameOf(i) BY <1>5
  <2>2. x = i BY <1>1, <1>2, <1>5, <2>1
  <2> QED BY <1>1, <1>2, <1>5, <2>2
<1>6. CASE x \notin Own /\ y \notin Own BY <1>2, <1>6
<1> QED BY <1>3, <1>4, <1>5, <1>6

-----------------------------------------------------------------------------
(* What a switch asks of a slave *)

\* An element more.
LEMMA AppendedSet ==
  ASSUME NEW T, NEW t \in Seq(T), NEW x \in T
  PROVE  ToSet(Append(t, x)) = ToSet(t) \cup {x}
<1> DEFINE n == Len(t)
           u == Append(t, x)
<1>1. /\ n \in Nat /\ DOMAIN t = 1..n /\ DOMAIN u = 1..(n + 1)
      /\ u[n + 1] = x /\ \A i \in 1..n : u[i] = t[i]
  OBVIOUS
<1> HIDE DEF n, u
<1>2. \A i : i \in 1..(n + 1) <=> i \in 1..n \/ i = n + 1 BY <1>1
<1>3. \A y : y \in ToSet(u) <=> \E i \in 1..(n + 1) : y = u[i] BY <1>1 DEF ToSet
<1>4. \A y : y \in ToSet(t) <=> \E i \in 1..n : y = t[i] BY <1>1 DEF ToSet
<1>5. \A y : y \in ToSet(u) <=> y \in ToSet(t) \cup {x} BY <1>1, <1>2, <1>3, <1>4
<1> QED BY <1>5 DEF u

\* The interfaces a switch starts are those its controllers claim.
LEMMA StartNames ==
  ASSUME NEW switch \in Switches
  PROVE  /\ \E n \in Nat : DOMAIN StartInterfaces(switch) = 1..n
         /\ ToSet(StartInterfaces(switch)) = {Transmitted(i) : i \in ClaimedBy(ToSet(switch.start))}
<1> DEFINE start == switch.start
           seqs == [k \in DOMAIN start |-> Interfaces[start[k]]]
           all == FlattenSeq(seqs)
           names == StartInterfaces(switch)
<1>1. PICK n \in 0..MaxStart : start \in [1..n -> Controller] BY DEF Switches
<1>2. n \in Nat /\ DOMAIN start = 1..n /\ \A k \in 1..n : start[k] \in Controller
  BY <1>1, MaxStartAssumption
<1>3. \A k \in 1..n : Interfaces[start[k]] \in Seq(Name)
  BY <1>2, InterfacesAssumption DEF Controller, Name
<1>4. seqs \in [1..n -> Seq(Name)] /\ \A k \in 1..n : seqs[k] = Interfaces[start[k]]
  BY <1>2, <1>3
<1> HIDE DEF seqs
<1>5. seqs \in Seq(Seq(Name)) /\ DOMAIN seqs = 1..n BY <1>2, <1>4
<1>6. all \in Seq(Name) /\ ToSet(all) = UNION {ToSet(seqs[k]) : k \in 1..n}
  BY <1>5, Flattened
<1>7. names = [k \in DOMAIN all |-> Transmitted(all[k])] BY DEF StartInterfaces, seqs
<1> HIDE DEF all, names, start
<1>8. Len(all) \in Nat /\ DOMAIN all = 1..Len(all) BY <1>6
<1>9. DOMAIN names = 1..Len(all) BY <1>7, <1>8
<1>10. ToSet(names) = {Transmitted(i) : i \in ToSet(all)} BY <1>7 DEF ToSet
<1>11. ToSet(all) = ClaimedBy(ToSet(start))
  <2>1. \A x : x \in ToSet(all) <=> \E k \in 1..n : x \in ToSet(Interfaces[start[k]])
    BY <1>4, <1>6
  <2>2. \A c : c \in ToSet(start) <=> \E k \in 1..n : c = start[k] BY <1>2 DEF ToSet
  <2>3. \A x : x \in ClaimedBy(ToSet(start)) <=> \E c \in ToSet(start) : x \in ToSet(Interfaces[c])
    BY DEF ClaimedBy
  <2> QED BY <2>1, <2>2, <2>3, ZenonT(60)
<1> QED BY <1>8, <1>9, <1>10, <1>11 DEF names, start

\* The claims of a slave are those the map gives for the interfaces.
LEMMA StartClaimsOfSlave ==
  ASSUME NEW map, NEW slave, NEW start, NEW n \in Nat, DOMAIN start = 1..n,
         \A i \in ToSet(start) : map[i].slave = slave => map[i].interface \in Claim
  PROVE  /\ StartClaims(map, slave, start) \in Seq(Claim)
         /\ ToSet(StartClaims(map, slave, start))
              = {map[i].interface : i \in {j \in ToSet(start) : map[j].slave = slave}}
<1> DEFINE T == Seq(Claim)
           held(k) == {map[start[l]].interface : l \in {m \in 1..k : map[start[m]].slave = slave}}
<1>1. \A k \in 1..n : start[k] \in ToSet(start) BY DEF ToSet
<1>2. \A t \in T, k \in 1..n : PushClaim(map, slave, t, start[k]) \in T
  BY <1>1 DEF PushClaim
<1>3. <<>> \in T OBVIOUS
<1> HIDE DEF T
<1>4. PICK f \in [0..n -> T] : StartClaimsSteps(f, n, map, slave, start)
  BY <1>2, <1>3, StartClaimsFold
<1>5. /\ StartClaims(map, slave, start) = f[n] /\ f[0] = <<>>
      /\ \A k \in 1..n : f[k] = PushClaim(map, slave, f[k - 1], start[k])
  BY <1>4 DEF StartClaimsSteps
<1> DEFINE S == {k \in 0..n : ToSet(f[k]) = held(k)}
<1>6. 0 \in S
  <2>1. held(0) = {} /\ ToSet(<<>>) = {} BY DEF ToSet
  <2> QED BY <1>5, <2>1
<1>7. ASSUME NEW k \in 0..n, k \in S, k < n PROVE k + 1 \in S
  <2>1. k + 1 \in 1..n /\ (k + 1) - 1 = k /\ k + 1 \in 0..n BY <1>7
  <2>2. f[k + 1] = PushClaim(map, slave, f[k], start[k + 1]) BY <1>5, <2>1
  <2>3. f[k] \in Seq(Claim) /\ ToSet(f[k]) = held(k) BY <1>7 DEF T
  <2>4. \A l : l \in 1..(k + 1) <=> l \in 1..k \/ l = k + 1 OBVIOUS
  <2> DEFINE x == map[start[k + 1]].interface
  <2>5. CASE map[start[k + 1]].slave = slave
    <3>1. x \in Claim BY <1>1, <2>1, <2>5
    <3>2. f[k + 1] = Append(f[k], x) BY <2>2, <2>5 DEF PushClaim
    <3>3. held(k + 1) = held(k) \cup {x} BY <2>4, <2>5
    <3> HIDE DEF x
    <3> DEFINE t == f[k]
    <3>5. t \in Seq(Claim) BY <2>3
    <3>6. ToSet(t) = held(k) BY <2>3
    <3> HIDE DEF t, held
    <3>7. ToSet(Append(t, x)) = ToSet(t) \cup {x} BY <3>1, <3>5, AppendedSet
    <3>4. ToSet(f[k + 1]) = held(k + 1) BY <3>2, <3>3, <3>6, <3>7 DEF t
    <3> QED BY <2>1, <3>4
  <2>6. CASE map[start[k + 1]].slave # slave
    <3>1. f[k + 1] = f[k] BY <2>2, <2>6 DEF PushClaim
    <3>2. held(k + 1) = held(k) BY <2>4, <2>6
    <3> HIDE DEF held
    <3> QED BY <2>1, <2>3, <3>1, <3>2
  <2> QED BY <2>5, <2>6
<1>8. held(n) = {map[i].interface : i \in {j \in ToSet(start) : map[j].slave = slave}}
  <2>1. \A i : i \in ToSet(start) <=> \E l \in 1..n : i = start[l] BY DEF ToSet
  <2> QED BY <1>1, <2>1
<1> HIDE DEF S, held
<1>9. \A k \in 0..n : k \in S BY <1>6, <1>7, BoundedInduction
<1>10. n \in S BY <1>9
<1>11. f[n] \in Seq(Claim) BY DEF T
<1> QED BY <1>5, <1>8, <1>10, <1>11 DEF S

-----------------------------------------------------------------------------
(* What the maps give for a switch *)

\* Looking up what it does not know leaves an entry that leads to nobody.
Extends(map, resolved) ==
  /\ DOMAIN resolved \subseteq DOMAIN map
  /\ \A i \in DOMAIN map : map[i] = IF i \in DOMAIN resolved THEN resolved[i] ELSE Nobody

\* Transmitted, for any actuator interfaces.
Through(back, i) == IF i \in DOMAIN back THEN back[i] ELSE i

\* The claims of a slave behind interfaces of these names.
ClaimsIn(resolved, back, names, s) ==
  {resolved[i].interface :
     i \in {j \in {Through(back, n) : n \in names} : j \in DOMAIN resolved /\ resolved[j].slave = s}}

\* Looking up extends the map.
LEMMA LookedExtends ==
  ASSUME NEW resolved, Extends(command_interface_map, resolved), NEW switch
  PROVE  /\ Extends(Looked(switch), resolved)
         /\ ToSet(StartInterfaces(switch)) \cup StopInterfaces(switch) \subseteq DOMAIN Looked(switch)
         /\ \A i \in DOMAIN command_interface_map :
              i \in DOMAIN Looked(switch) /\ Looked(switch)[i] = command_interface_map[i]
BY DEF Extends, Looked, Lookup

\* The first claim that offers an interface has it, also after look-ups.
LEMMA FirstOfExtended ==
  ASSUME Configured, NEW kind \in Kind, NEW map, Extends(map, Resolve(joint_claims, kind))
  PROVE  FirstOf(map, kind)
<1> DEFINE R == Resolve(joint_claims, kind)
<1>1. joint_claims \in Configurations BY DEF Configured
<1>2. \A j \in DOMAIN joint_claims :
        FromFirst(R, j, joint_claims[j], kind, Len(joint_claims[j]))
  BY <1>1, Resolved
<1>3. \A j \in DOMAIN joint_claims : joint_claims[j] \in Seq(ClaimRecord)
  BY <1>1, ConfigurationsAssumption DEF ClaimRecord
<1>4. Extends(map, R) OBVIOUS
<1> HIDE DEF R
<1> SUFFICES ASSUME NEW j \in DOMAIN joint_claims,
                    NEW x \in ExportedNames(kind)
             PROVE  LET claims == joint_claims[j]
                        offering == {k \in DOMAIN claims : Offers(claims[k], kind, x)}
                    IN IF offering = {} THEN <<j, x>> \notin DOMAIN map \/ map[<<j, x>>] = Nobody
                       ELSE LET k == Min(offering)
                            IN /\ <<j, x>> \in DOMAIN map
                               /\ map[<<j, x>>].slave = claims[k].slave
                               /\ map[<<j, x>>].interface = <<claims[k].claim, x>>
  BY DEF FirstOf
<1> DEFINE cs == joint_claims[j]
           n == Len(cs)
           O == {k \in DOMAIN cs : Offers(cs[k], kind, x)}
<1>5. n \in Nat /\ DOMAIN cs = 1..n BY <1>3
<1>6. FromFirst(R, j, cs, kind, n) BY <1>2
<1>8. \A k : k \in O <=> k \in 1..n /\ Offers(cs[k], kind, x) BY <1>5
<1> HIDE DEF n
<1>9. CASE O = {}
  <2>1. <<j, x>> \notin DOMAIN R BY <1>6, <1>8, <1>9 DEF FromFirst
  <2>2. <<j, x>> \notin DOMAIN map \/ map[<<j, x>>] = Nobody BY <1>4, <2>1 DEF Extends
  <2> QED BY <1>9, <2>2
<1>10. CASE O # {}
  <2>1. O \in SUBSET Nat BY <1>5, <1>8
  <2> DEFINE k == Min(O)
  <2> HIDE DEF O
  <2>2. k \in O /\ \A i \in O : k <= i BY <1>10, <2>1, MinOfNaturals
  <2> HIDE DEF k
  <2>3. k \in 1..n /\ Offers(cs[k], kind, x) BY <1>8, <2>2
  <2>4. \A i \in 1..n : i < k => ~Offers(cs[i], kind, x)
    <3> SUFFICES ASSUME NEW i \in 1..n, i < k, Offers(cs[i], kind, x) PROVE FALSE
      OBVIOUS
    <3>1. k <= i BY <1>8, <2>2
    <3> QED BY <1>5, <2>3, <3>1
  <2>5. /\ <<j, x>> \in DOMAIN R
        /\ R[<<j, x>>] = [slave |-> cs[k].slave, interface |-> <<cs[k].claim, x>>]
    BY <1>6, <2>3, <2>4 DEF FromFirst
  <2>6. <<j, x>> \in DOMAIN map /\ map[<<j, x>>] = R[<<j, x>>] BY <1>4, <2>5 DEF Extends
  <2>7. /\ map[<<j, x>>].slave = cs[k].slave
        /\ map[<<j, x>>].interface = <<cs[k].claim, x>>
    BY <2>5, <2>6
  <2> QED BY <1>10, <2>6, <2>7 DEF k, O
<1> QED BY <1>9, <1>10

\* The claims a switch starts and stops at a drive, and its answer to them.
LEMMA SwitchClaims ==
  ASSUME Configured, NEW resolved, resolved = Resolve(joint_claims, "command"),
         Extends(command_interface_map, resolved),
         NEW s \in Trinamic, NEW switch \in Switches, NEW map, map = Looked(switch),
         NEW back, back = transmission_command_interface_map
  PROVE  /\ StartClaims(map, s, StartInterfaces(switch)) \in Seq(Claim)
         /\ ToSet(StartClaims(map, s, StartInterfaces(switch)))
              = ClaimsIn(resolved, back, ClaimedBy(ToSet(switch.start)), s)
         /\ StopClaims(map, s, StopInterfaces(switch))
              = ClaimsIn(resolved, back, ClaimedBy(switch.stop), s)
<1> DEFINE start == StartInterfaces(switch)
           stop == StopInterfaces(switch)
<1>1. /\ Extends(map, resolved)
      /\ ToSet(start) \subseteq DOMAIN map /\ stop \subseteq DOMAIN map
  BY LookedExtends
<1>2. /\ \E n \in Nat : DOMAIN start = 1..n
      /\ ToSet(start) = {Through(back, i) : i \in ClaimedBy(ToSet(switch.start))}
  BY StartNames DEF Transmitted, Through
<1>3. stop = {Through(back, i) : i \in ClaimedBy(switch.stop)}
  BY DEF StopInterfaces, ClaimedBy, Transmitted, Through
<1> HIDE DEF start, stop
<1>4. s # "" /\ s \in Slave BY TrinamicAssumption DEF Slave
<1>5. resolved \in [DOMAIN resolved -> Target("command")]
  <2>1. joint_claims \in Configurations /\ "command" \in Kind BY DEF Configured, Kind
  <2> QED BY <2>1, Resolved
<1>15. Nobody.slave # s BY <1>4 DEF Nobody
<1>16. /\ DOMAIN resolved \subseteq DOMAIN map
       /\ \A i \in DOMAIN map : i \in DOMAIN resolved => map[i] = resolved[i]
       /\ \A i \in DOMAIN map : i \notin DOMAIN resolved => map[i] = Nobody
  BY <1>1 DEF Extends
<1>6. \A i \in DOMAIN map : map[i].slave = s <=> i \in DOMAIN resolved /\ resolved[i].slave = s
  BY <1>15, <1>16
<1>7. \A i \in DOMAIN map : map[i].slave = s => map[i] = resolved[i]
  BY <1>15, <1>16
<1>8. \A i \in DOMAIN resolved : resolved[i].slave = s => resolved[i].interface \in Claim
  <2> SUFFICES ASSUME NEW t \in Target("command"), t.slave = s PROVE t.interface \in Claim
    BY <1>5
  <2>1. PICK u \in Slave : t \in {[slave |-> u, interface |-> i] : i \in ToSet(Exports[u]["command"])}
    BY DEF Target
  <2>2. PICK i \in ToSet(Exports[u]["command"]) : t = [slave |-> u, interface |-> i] BY <2>1
  <2>3. u = s /\ t.interface = i BY <2>2
  <2> QED BY <2>2, <2>3, TrinamicAssumption
<1>9. \A i \in ToSet(start) : map[i].slave = s => map[i].interface \in Claim
  BY <1>1, <1>6, <1>7, <1>8
<1>10. /\ StartClaims(map, s, start) \in Seq(Claim)
       /\ ToSet(StartClaims(map, s, start))
            = {map[i].interface : i \in {j \in ToSet(start) : map[j].slave = s}}
  <2>1. PICK n \in Nat : DOMAIN start = 1..n BY <1>2
  <2> QED BY <1>9, <2>1, StartClaimsOfSlave
<1>11. ASSUME NEW names, NEW P, P = {Through(back, n) : n \in names}, P \subseteq DOMAIN map
       PROVE  {map[i].interface : i \in {j \in P : map[j].slave = s}}
                = ClaimsIn(resolved, back, names, s)
  <2>1. \A i \in P : map[i].slave = s <=> i \in DOMAIN resolved /\ resolved[i].slave = s
    BY <1>6, <1>11
  <2>2. \A i \in P : map[i].slave = s => map[i].interface = resolved[i].interface
    BY <1>7, <1>11
  <2>3. {j \in P : map[j].slave = s} = {j \in P : j \in DOMAIN resolved /\ resolved[j].slave = s}
    BY <2>1
  <2> DEFINE Q == {j \in P : map[j].slave = s}
  <2>4. \A i \in Q : map[i].interface = resolved[i].interface BY <2>2
  <2>5. ClaimsIn(resolved, back, names, s) = {resolved[i].interface : i \in Q}
    BY <1>11, <2>3 DEF ClaimsIn
  <2> HIDE DEF Q
  <2>6. {map[i].interface : i \in Q} = {resolved[i].interface : i \in Q} BY <2>4
  <2> QED BY <2>5, <2>6 DEF Q
<1>12. {map[i].interface : i \in {j \in ToSet(start) : map[j].slave = s}}
         = ClaimsIn(resolved, back, ClaimedBy(ToSet(switch.start)), s)
  BY <1>1, <1>2, <1>11
<1>13. {map[i].interface : i \in {j \in stop : map[j].slave = s}}
         = ClaimsIn(resolved, back, ClaimedBy(switch.stop), s)
  BY <1>1, <1>3, <1>11
<1>14. StopClaims(map, s, stop) = {map[i].interface : i \in {j \in stop : map[j].slave = s}}
  BY DEF StopClaims
<1> QED BY <1>10, <1>12, <1>13, <1>14 DEF start, stop

-----------------------------------------------------------------------------
(* The mode of a drive and the claims that are held *)

Resolved_commands == Resolve(joint_claims, "command")

\* The claims of a drive behind what these controllers claim.
ClaimsOf(controllers, s) ==
  ClaimsIn(Resolved_commands, transmission_command_interface_map, ClaimedBy(controllers), s)

\* A drive's mode is one of a held claim, and no held claim has another.
Matches(mode, held) ==
  /\ mode # "STOP" => command_mode_to_claim[mode] \in held
  /\ \A c \in held : claim_to_command_mode[c] \in {mode, "STOP"}

\* What is known of the maps once the interfaces are exported.
MapsExported ==
  /\ Extends(command_interface_map, Resolved_commands)
  /\ state_interface_map = Resolve(joint_claims, "state")
  /\ transmission_command_interface_map = Proxies(Resolved_commands)

\* The claims of a drive are claims of its module.
LEMMA ClaimsOfDrive ==
  ASSUME Configured, NEW s \in Trinamic, NEW controllers
  PROVE  ClaimsOf(controllers, s) \subseteq Claim
<1> DEFINE R == Resolved_commands
<1>1. R \in [DOMAIN R -> Target("command")]
  <2>1. joint_claims \in Configurations /\ "command" \in Kind BY DEF Configured, Kind
  <2> QED BY <2>1, Resolved DEF Resolved_commands
<1> HIDE DEF R
<1>2. SUFFICES ASSUME NEW i \in DOMAIN R, R[i].slave = s PROVE R[i].interface \in Claim
  BY DEF ClaimsOf, ClaimsIn, R
<1>3. R[i] \in Target("command") BY <1>1, <1>2
<1>4. PICK u \in Slave : R[i] \in {[slave |-> u, interface |-> x] : x \in ToSet(Exports[u]["command"])}
  BY <1>3 DEF Target
<1>5. PICK x \in ToSet(Exports[u]["command"]) : R[i] = [slave |-> u, interface |-> x] BY <1>4
<1>6. u = s /\ R[i].interface = x BY <1>2, <1>5
<1> QED BY <1>5, <1>6, TrinamicAssumption

\* The mode a switch leads to.
LEMMA Answered ==
  ASSUME Configured, MapsExported, NEW s \in Trinamic, NEW switch \in Switches,
         NEW mode \in COMMAND_MODE, mode = command_mode[s],
         NEW r, r = Next_mode(s, switch)
  PROVE  /\ r \in Answer
         /\ r # "refused" =>
              /\ \A c \in ClaimsOf(ToSet(switch.start), s) : claim_to_command_mode[c] \in {r, "STOP"}
              /\ mode # "STOP" /\ command_mode_to_claim[mode] \notin ClaimsOf(switch.stop, s) => r = mode
              /\ r # "STOP" =>
                   \/ r = mode /\ command_mode_to_claim[mode] \notin ClaimsOf(switch.stop, s)
                   \/ \E c \in ClaimsOf(ToSet(switch.start), s) : claim_to_command_mode[c] = r
         /\ ClaimsOf(ToSet(switch.start), s) = {} /\ ClaimsOf(switch.stop, s) = {} => r = mode
<1> DEFINE map == Looked(switch)
           cs == StartClaims(map, s, StartInterfaces(switch))
           stopped == StopClaims(map, s, StopInterfaces(switch))
           m == IF command_mode_to_claim[mode] \in stopped THEN "STOP" ELSE mode
<1>1. /\ cs \in Seq(Claim) /\ ToSet(cs) = ClaimsOf(ToSet(switch.start), s)
      /\ stopped = ClaimsOf(switch.stop, s)
  <2>1. Resolved_commands = Resolve(joint_claims, "command")
        /\ Extends(command_interface_map, Resolved_commands)
    BY DEF Resolved_commands, MapsExported
  <2> QED BY <2>1, SwitchClaims DEF ClaimsOf
<1>2. r = FoldLeft(StartClaim, m, cs)
  BY DEF Next_mode, NextMode
<1> HIDE DEF map, cs, stopped
<1>3. m \in COMMAND_MODE BY ModesOfClaims
<1>4. /\ m = "STOP" <=> mode = "STOP" \/ command_mode_to_claim[mode] \in stopped
      /\ m # "STOP" => m = mode /\ command_mode_to_claim[mode] \notin stopped
      /\ mode = "STOP" => m = mode
  OBVIOUS
<1> HIDE DEF m
<1>5. /\ r \in Answer
      /\ r # "refused" =>
           /\ \A c \in ToSet(cs) : claim_to_command_mode[c] \in {r, "STOP"}
           /\ m # "STOP" => r = m
           /\ r # "STOP" /\ r # m => \E c \in ToSet(cs) : claim_to_command_mode[c] = r
      /\ ToSet(cs) = {} => r = m
  BY <1>1, <1>2, <1>3, StartedMode
<1> DEFINE start == ClaimsOf(ToSet(switch.start), s)
           stop == ClaimsOf(switch.stop, s)
<1>6. ToSet(cs) = start /\ stopped = stop BY <1>1
<1>7. ASSUME start = {}, stop = {} PROVE r = mode
  BY <1>4, <1>5, <1>6, <1>7
<1>8. ASSUME r # "refused", mode # "STOP", command_mode_to_claim[mode] \notin stop PROVE r = mode
  BY <1>4, <1>5, <1>6, <1>8
<1>9. ASSUME r # "refused", r # "STOP"
      PROVE  \/ r = mode /\ command_mode_to_claim[mode] \notin stop
             \/ \E c \in start : claim_to_command_mode[c] = r
  BY <1>4, <1>5, <1>6, <1>9
<1>10. ASSUME r # "refused" PROVE \A c \in start : claim_to_command_mode[c] \in {r, "STOP"}
  BY <1>5, <1>6, <1>10
<1> QED BY <1>5, <1>7, <1>8, <1>9, <1>10

\* No interface is claimed by two of these controllers.
Disjoint(controllers) ==
  \A c, d \in controllers : c # d => ClaimedBy({c}) \cap ClaimedBy({d}) = {}

\* Each handle bears the name of an interface that was resolved.
NamesExported ==
  \A h \in command_interfaces : \E i \in DOMAIN Resolved_commands : h.name = NameOf(i)

\* What staying controllers hold is not what stopped ones held.
LEMMA StayingClaims ==
  ASSUME NamesAreUnique, NoOverallocation, Configured, MapsExported, NamesExported,
         Disjoint(active), ClaimedBy(active) \subseteq Available,
         NEW stop \in SUBSET active, NEW s
  PROVE  ClaimsOf(active \ stop, s) \cap ClaimsOf(stop, s) = {}
<1> DEFINE R == Resolved_commands
           back == transmission_command_interface_map
<1> SUFFICES ASSUME NEW x \in ClaimsOf(active \ stop, s), x \in ClaimsOf(stop, s) PROVE FALSE
  OBVIOUS
<1>1. ASSUME NEW controllers, x \in ClaimsOf(controllers, s)
      PROVE  \E n \in ClaimedBy(controllers) : /\ Through(back, n) \in DOMAIN R
                                               /\ R[Through(back, n)].slave = s
                                               /\ R[Through(back, n)].interface = x
  BY <1>1 DEF ClaimsOf, ClaimsIn
<1>2. PICK n \in ClaimedBy(active \ stop) : /\ Through(back, n) \in DOMAIN R
                                            /\ R[Through(back, n)].slave = s
                                            /\ R[Through(back, n)].interface = x
  BY <1>1
<1>3. PICK p \in ClaimedBy(stop) : /\ Through(back, p) \in DOMAIN R
                                   /\ R[Through(back, p)].slave = s
                                   /\ R[Through(back, p)].interface = x
  BY <1>1
<1>4. joint_claims \in Configurations /\ "command" \in Kind BY DEF Configured, Kind
<1>5. /\ R \in [DOMAIN R -> Target("command")]
      /\ DOMAIN R \in SUBSET ((DOMAIN joint_claims) \X STRING)
  BY <1>4, Resolved DEF Resolved_commands
<1>6. \A t, u \in Target("command") : t.slave = u.slave /\ t.interface = u.interface => t = u
  BY DEF Target
<1> HIDE DEF R
<1>7. R[Through(back, n)] = R[Through(back, p)] BY <1>2, <1>3, <1>5, <1>6
<1>8. Through(back, n) = Through(back, p)
  BY <1>2, <1>3, <1>7 DEF NoOverallocation, R, Resolved_commands
<1>9. Transmitted(n) = Transmitted(p) BY <1>8 DEF Transmitted, Through
<1>10. PICK c \in active \ stop : n \in ToSet(Interfaces[c]) BY DEF ClaimedBy
<1>11. PICK d \in stop : p \in ToSet(Interfaces[d]) BY DEF ClaimedBy
<1>12. n \in ClaimedBy(active) /\ p \in ClaimedBy(active) BY <1>10, <1>11 DEF ClaimedBy
<1>13. n \in Available /\ p \in Available BY <1>12
<1>14. /\ transmission_command_interface_map = Proxies(R)
       /\ \A h \in command_interfaces : \E i \in DOMAIN R : h.name = NameOf(i)
  BY DEF MapsExported, NamesExported, R
<1>15. n = p BY <1>5, <1>9, <1>13, <1>14, TransmittedOnce
<1>16. c # d /\ c \in active /\ d \in active BY <1>10, <1>11
<1>17. n \in ClaimedBy({c}) /\ p \in ClaimedBy({d}) BY <1>10, <1>11 DEF ClaimedBy
<1> QED BY <1>15, <1>16, <1>17 DEF Disjoint

\* A switch that is performed leaves a mode that matches again.
LEMMA SwitchedMatches ==
  ASSUME NamesAreUnique, NoOverallocation, Configured, MapsExported, NamesExported,
         Disjoint(active), ClaimedBy(active) \subseteq Available,
         NEW switch \in Switches, Askable(switch), NEW s \in Trinamic,
         NEW mode \in COMMAND_MODE, mode = command_mode[s],
         Matches(mode, ClaimsOf(active, s)),
         NEW r, r = Next_mode(s, switch), r # "refused"
  PROVE  Matches(r, ClaimsOf((active \ switch.stop) \cup ToSet(switch.start), s))
<1> DEFINE stay == ClaimsOf(active \ switch.stop, s)
           stop == ClaimsOf(switch.stop, s)
           start == ClaimsOf(ToSet(switch.start), s)
           held == ClaimsOf(active, s)
           new == ClaimsOf((active \ switch.stop) \cup ToSet(switch.start), s)
<1>1. switch.stop \in SUBSET active BY DEF Askable
<1>2. ASSUME NEW A, NEW B PROVE ClaimsOf(A \cup B, s) = ClaimsOf(A, s) \cup ClaimsOf(B, s)
  <2> DEFINE back == transmission_command_interface_map
             through(names) == {Through(back, n) : n \in names}
  <2>1. ClaimedBy(A \cup B) = ClaimedBy(A) \cup ClaimedBy(B) BY DEF ClaimedBy
  <2>2. through(ClaimedBy(A \cup B)) = through(ClaimedBy(A)) \cup through(ClaimedBy(B))
    BY <2>1
  <2> DEFINE claims(P) == {Resolved_commands[i].interface :
                 i \in {j \in P : j \in DOMAIN Resolved_commands /\ Resolved_commands[j].slave = s}}
  <2>3. \A P, Q : claims(P \cup Q) = claims(P) \cup claims(Q) OBVIOUS
  <2>4. \A C : ClaimsOf(C, s) = claims(through(ClaimedBy(C))) BY DEF ClaimsOf, ClaimsIn
  <2> DEFINE a == through(ClaimedBy(A))
             b == through(ClaimedBy(B))
  <2>5. ClaimsOf(A \cup B, s) = claims(a \cup b) BY <2>2, <2>4
  <2>6. ClaimsOf(A, s) = claims(a) /\ ClaimsOf(B, s) = claims(b) BY <2>4
  <2>7. claims(a \cup b) = claims(a) \cup claims(b) BY <2>3
  <2> HIDE DEF claims, a, b
  <2> QED BY <2>5, <2>6, <2>7
<1>3. new = stay \cup start BY <1>2
<1>4. held = stay \cup stop
  <2>1. active = (active \ switch.stop) \cup switch.stop BY <1>1
  <2> QED BY <1>2, <2>1
<1>5. stay \cap stop = {} BY <1>1, StayingClaims
<1>6. start \subseteq Claim /\ stay \subseteq Claim /\ held \subseteq Claim BY ClaimsOfDrive
<1>7. /\ r \in Answer
      /\ \A c \in start : claim_to_command_mode[c] \in {r, "STOP"}
      /\ mode # "STOP" /\ command_mode_to_claim[mode] \notin stop => r = mode
      /\ r # "STOP" =>
           \/ r = mode /\ command_mode_to_claim[mode] \notin stop
           \/ \E c \in start : claim_to_command_mode[c] = r
  BY Answered
<1>8. /\ mode # "STOP" => command_mode_to_claim[mode] \in held
      /\ \A c \in held : claim_to_command_mode[c] \in {mode, "STOP"}
  BY DEF Matches
<1>15. Matches(r, new) <=> Matches(r, ClaimsOf((active \ switch.stop) \cup ToSet(switch.start), s))
  OBVIOUS
<1> HIDE DEF stay, stop, start, held, new
<1>9. ASSUME r # "STOP" PROVE command_mode_to_claim[r] \in new
  <2>1. CASE r = mode /\ command_mode_to_claim[mode] \notin stop
    BY <1>3, <1>4, <1>8, <1>9, <2>1
  <2>2. CASE \E c \in start : claim_to_command_mode[c] = r
    <3>1. PICK c \in start : claim_to_command_mode[c] = r BY <2>2
    <3>2. command_mode_to_claim[r] = c BY <1>6, <1>9, <3>1, ModesOfClaims
    <3> QED BY <1>3, <3>2
  <2> QED BY <1>7, <1>9, <2>1, <2>2
<1>10. ASSUME NEW c \in stay PROVE claim_to_command_mode[c] \in {r, "STOP"}
  <2>1. c \in held /\ c \notin stop BY <1>4, <1>5
  <2> SUFFICES ASSUME claim_to_command_mode[c] # "STOP" PROVE claim_to_command_mode[c] = r
    OBVIOUS
  <2>2. claim_to_command_mode[c] = mode /\ mode # "STOP" BY <1>8, <2>1
  <2>3. command_mode_to_claim[mode] = c BY <1>6, <2>2, ModesOfClaims
  <2> QED BY <1>7, <2>1, <2>2, <2>3
<1>11. \A c \in new : claim_to_command_mode[c] \in {r, "STOP"} BY <1>3, <1>7, <1>10
<1>12. Matches(r, new) BY <1>9, <1>11 DEF Matches
<1> QED BY <1>12, <1>15

-----------------------------------------------------------------------------
(* Between the calls of a switch *)

\* Looking interfaces up a second time finds what the first time left.
LEMMA LookupTwice ==
  ASSUME NEW interfaces, command_interface_map' = Lookup(interfaces)
  PROVE  Lookup(interfaces)' = command_interface_map'
BY DEF Lookup

\* The names a switch asks for depend on what was exported only.
LEMMA SwitchNames ==
  ASSUME UNCHANGED transmission_command_interface_map, NEW switch
  PROVE  /\ StartInterfaces(switch)' = StartInterfaces(switch)
         /\ StopInterfaces(switch)' = StopInterfaces(switch)
BY DEF StartInterfaces, StopInterfaces, Transmitted

\* A slave answers alike as long as its mode and what was looked up stay.
LEMMA AnswersStay ==
  ASSUME NEW switch, command_interface_map' = Looked(switch),
         UNCHANGED <<transmission_command_interface_map, command_mode>>
  PROVE  Accepted(switch)' <=> Accepted(switch)
<1>1. /\ StartInterfaces(switch)' = StartInterfaces(switch)
      /\ StopInterfaces(switch)' = StopInterfaces(switch)
  BY SwitchNames
<1>2. Looked(switch)' = Looked(switch)
  BY <1>1 DEF Looked, Lookup
<1>3. \A s : /\ StartClaims(Looked(switch), s, StartInterfaces(switch))'
                = StartClaims(Looked(switch), s, StartInterfaces(switch))
            /\ StopClaims(Looked(switch), s, StopInterfaces(switch))'
                = StopClaims(Looked(switch), s, StopInterfaces(switch))
  BY <1>1, <1>2
<1>4. \A s : Next_mode(s, switch)' = Next_mode(s, switch)
  BY <1>3 DEF Next_mode
<1> QED BY <1>4 DEF Accepted

-----------------------------------------------------------------------------
(* The inductive invariant *)

HandlesOf(handles, map) == \E v, N : Assigned(handles, transmissions, map, DOMAIN map, v, N)
HandlesExported ==
  /\ HandlesOf(command_interfaces, Resolved_commands)
  /\ HandlesOf(state_interfaces, Resolve(joint_claims, "state"))

NothingExported ==
  /\ command_interface_map = <<>> /\ state_interface_map = <<>>
  /\ command_interfaces = {} /\ state_interfaces = {}
  /\ transmission_command_interface_map = <<>>
  /\ active = {} /\ pending = NoSwitch

\* The maps and handles are what Export made them, but for look-ups; controllers
\* that are active, or about to be, were free to claim what they claim.
IInv ==
  /\ Configured /\ exported \in BOOLEAN
  /\ exported => MapsExported /\ HandlesExported
  /\ ~exported => NothingExported
  /\ command_mode \in [Trinamic -> COMMAND_MODE]
  /\ active \subseteq Controller /\ pending \in Switches
  /\ Disjoint(active) /\ ClaimedBy(active) \subseteq Available
  /\ pending # NoSwitch => Askable(pending)
  /\ PreparedIsPerformed

\* That nothing is prepared is a value of pending.
LEMMA NoSwitchIsOne == NoSwitch \in Switches
<1>1. 0 \in 0..MaxStart BY MaxStartAssumption
<1>2. 1..0 = {} /\ <<>> \in [{} -> Controller] OBVIOUS
<1>3. <<>> \in [1..0 -> Controller] BY <1>2
<1> QED BY <1>1, <1>3 DEF Switches, NoSwitch

\* Nothing is exported at first.
LEMMA InitHolds == Init => IInv
<1> SUFFICES ASSUME Init PROVE IInv
  OBVIOUS
<1> USE DEF Init
<1>1. Configured BY DEF Configured
<1>2. command_mode \in [Trinamic -> COMMAND_MODE] BY ModesOfClaims
<1>3. NothingExported /\ PreparedIsPerformed BY DEF NothingExported, PreparedIsPerformed
<1>4. Disjoint(active) /\ ClaimedBy(active) \subseteq Available BY DEF Disjoint, ClaimedBy
<1>5. pending \in Switches BY NoSwitchIsOne
<1> QED BY <1>1, <1>2, <1>3, <1>4, <1>5 DEF IInv

\* What Export makes.
LEMMA ExportMakes ==
  ASSUME Configured, Export
  PROVE  Configured' /\ MapsExported' /\ HandlesExported'
<1> DEFINE R == Resolve(joint_claims, "command")
           S == Resolve(joint_claims, "state")
<1>1. /\ command_interface_map' = R /\ state_interface_map' = S
      /\ transmission_command_interface_map' = Proxies(R)
      /\ joint_claims' = joint_claims /\ transmissions' = transmissions
  BY DEF Export
<1>2. PICK joints \in SetToSeqs(DOMAIN joint_claims) :
        command_interfaces' = Handles(R, joints) /\ state_interfaces' = Handles(S, joints)
  BY <1>1 DEF Export
<1>3. joint_claims \in Configurations /\ "command" \in Kind /\ "state" \in Kind
  BY DEF Configured, Kind
<1>4. /\ IsFiniteSet(DOMAIN R) /\ DOMAIN R \in SUBSET ((DOMAIN joint_claims) \X STRING)
      /\ IsFiniteSet(DOMAIN S) /\ DOMAIN S \in SUBSET ((DOMAIN joint_claims) \X STRING)
  BY <1>3, Resolved
<1>5. IsFiniteSet(DOMAIN joint_claims) BY <1>3, ConfigurationsAssumption
<1>6. Resolved_commands' = R /\ Resolve(joint_claims, "state")' = S
  BY <1>1 DEF Resolved_commands
<1> HIDE DEF R, S
<1>7. ASSUME NEW map, IsFiniteSet(DOMAIN map),
             DOMAIN map \in SUBSET ((DOMAIN joint_claims) \X STRING)
      PROVE  \E v, N : Assigned(Handles(map, joints), transmissions, map, DOMAIN map, v, N)
  <2>1. \A i \in DOMAIN map : i[1] \in DOMAIN joint_claims BY <1>7
  <2> DEFINE J == DOMAIN joint_claims
  <2>2. IsFiniteSet(J) /\ joints \in SetToSeqs(J) /\ \A i \in DOMAIN map : i[1] \in J
    BY <1>2, <1>5, <2>1
  <2> HIDE DEF J
  <2> QED BY <1>7, <2>2, HandlesAssigned
<1>8. \E v, N : Assigned(command_interfaces', transmissions, R, DOMAIN R, v, N)
  BY <1>2, <1>4, <1>7
<1>9. \E v, N : Assigned(state_interfaces', transmissions, S, DOMAIN S, v, N)
  BY <1>2, <1>4, <1>7
<1>10. HandlesExported'
  BY <1>1, <1>6, <1>8, <1>9 DEF HandlesExported, HandlesOf
<1>11. Proxies(Resolved_commands)' = Proxies(R)
  BY <1>1, <1>6 DEF Proxies, Behind, Proxy
<1>12. MapsExported'
  BY <1>1, <1>6, <1>11 DEF MapsExported, Extends
<1>13. Configured' BY <1>1 DEF Configured
<1> QED BY <1>10, <1>12, <1>13

\* What stays when nothing is exported.
LEMMA ExportedStays ==
  ASSUME MapsExported, HandlesExported, Configured, UNCHANGED Claimed,
         \/ UNCHANGED command_interface_map
         \/ \E switch : command_interface_map' = Looked(switch)
  PROVE  MapsExported' /\ HandlesExported' /\ Configured' /\ Available' = Available
<1>1. /\ joint_claims' = joint_claims /\ transmissions' = transmissions
      /\ state_interface_map' = state_interface_map
      /\ transmission_command_interface_map' = transmission_command_interface_map
      /\ command_interfaces' = command_interfaces /\ state_interfaces' = state_interfaces
  BY DEF Claimed
<1>2. Resolved_commands' = Resolved_commands
      /\ Resolve(joint_claims, "state")' = Resolve(joint_claims, "state")
  BY <1>1 DEF Resolved_commands
<1>3. Extends(command_interface_map', Resolved_commands)
  BY LookedExtends DEF MapsExported
<1>4. Proxies(Resolved_commands)' = Proxies(Resolved_commands)
  BY <1>1, <1>2 DEF Proxies, Behind, Proxy
<1>5. MapsExported' BY <1>1, <1>2, <1>3, <1>4 DEF MapsExported
<1>6. HandlesExported' BY <1>1, <1>2 DEF HandlesExported, HandlesOf
<1> QED BY <1>1, <1>5, <1>6 DEF Configured, Available

\* The controllers a switch leaves are free to claim what they claim.
LEMMA SwitchIsFree ==
  ASSUME Disjoint(active), ClaimedBy(active) \subseteq Available,
         NEW switch \in Switches, Askable(switch),
         NEW next, next = (active \ switch.stop) \cup ToSet(switch.start)
  PROVE  Disjoint(next) /\ ClaimedBy(next) \subseteq Available
<1> DEFINE stay == active \ switch.stop
           start == ToSet(switch.start)
<1>1. /\ ClaimedBy(start) \subseteq Available
      /\ ClaimedBy(start) \cap ClaimedBy(stay) = {}
      /\ \A c, d \in start : c # d => ClaimedBy({c}) \cap ClaimedBy({d}) = {}
  BY DEF Askable
<1>2. next = stay \cup start /\ stay \subseteq active OBVIOUS
<1> HIDE DEF stay, start
<1>3. \A A, c : c \in A => ClaimedBy({c}) \subseteq ClaimedBy(A) BY DEF ClaimedBy
<1>4. ClaimedBy(next) \subseteq Available BY <1>1, <1>2 DEF ClaimedBy
<1>5. ASSUME NEW c \in next, NEW d \in next, c # d
      PROVE  ClaimedBy({c}) \cap ClaimedBy({d}) = {}
  <2>1. CASE c \in stay /\ d \in stay BY <1>2, <1>5, <2>1 DEF Disjoint
  <2>2. CASE c \in start /\ d \in start BY <1>1, <1>5, <2>2
  <2>3. CASE c \in stay /\ d \in start BY <1>1, <1>3, <2>3
  <2>4. CASE c \in start /\ d \in stay BY <1>1, <1>3, <2>4
  <2> QED BY <1>2, <2>1, <2>2, <2>3, <2>4
<1> QED BY <1>4, <1>5 DEF Disjoint

\* Who starts is a controller.
LEMMA StartedControllers ==
  ASSUME NEW switch \in Switches
  PROVE  ToSet(switch.start) \subseteq Controller
<1>1. PICK n \in 0..MaxStart : switch.start \in [1..n -> Controller] BY DEF Switches
<1> QED BY <1>1 DEF ToSet

\* Every step keeps the invariant.
LEMMA StepHolds == IInv /\ [Next]_vars => IInv'
<1> SUFFICES ASSUME IInv, [Next]_vars PROVE IInv'
  OBVIOUS
<1>0. /\ Configured /\ exported \in BOOLEAN
      /\ exported => MapsExported /\ HandlesExported
      /\ ~exported => NothingExported
      /\ command_mode \in [Trinamic -> COMMAND_MODE]
      /\ active \subseteq Controller /\ pending \in Switches
      /\ Disjoint(active) /\ ClaimedBy(active) \subseteq Available
      /\ pending # NoSwitch => Askable(pending)
      /\ PreparedIsPerformed
  BY DEF IInv
<1>1. CASE Export
  <2>1. Configured' /\ MapsExported' /\ HandlesExported' BY <1>0, <1>1, ExportMakes
  <2>2. /\ ~exported /\ exported' = TRUE
        /\ UNCHANGED <<command_mode, active, pending, result>>
    BY <1>1 DEF Export
  <2>3. active' = {} /\ pending' = NoSwitch BY <1>0, <2>2 DEF NothingExported
  <2>4. Disjoint(active') /\ ClaimedBy(active') \subseteq Available'
    BY <2>3 DEF Disjoint, ClaimedBy
  <2>5. PreparedIsPerformed' BY <1>0, <2>2, <2>3 DEF PreparedIsPerformed
  <2>6. pending' \in Switches /\ active' \subseteq Controller /\ command_mode' \in [Trinamic -> COMMAND_MODE]
    BY <1>0, <2>2
  <2> QED BY <2>1, <2>2, <2>3, <2>4, <2>5, <2>6 DEF IInv
<1>2. CASE Prepare
  <2>1. PICK switch \in Switches :
          /\ Askable(switch)
          /\ command_interface_map' = Looked(switch)
          /\ pending' = IF Accepted(switch) THEN switch ELSE NoSwitch
    BY <1>2 DEF Prepare
  <2>2. /\ UNCHANGED Claimed /\ UNCHANGED <<command_mode, active, result>>
        /\ exported /\ UNCHANGED <<exported, transmission_command_interface_map, command_interfaces>>
    BY <1>2 DEF Prepare, Claimed
  <2>3. MapsExported' /\ HandlesExported' /\ Configured' /\ Available' = Available
    BY <1>0, <2>1, <2>2, ExportedStays
  <2>4. Accepted(switch)' <=> Accepted(switch) BY <2>1, <2>2, AnswersStay
  <2>5. PreparedIsPerformed'
    <3>1. CASE Accepted(switch)
      <4>1. pending' = switch /\ Accepted(switch)' BY <2>1, <2>4, <3>1
      <4>2. Accepted(pending)'
        BY <4>1 DEF Accepted, Next_mode, Looked, Lookup, StartInterfaces, StopInterfaces, Transmitted
      <4> QED BY <1>0, <2>2, <4>2 DEF PreparedIsPerformed
    <3>2. CASE ~Accepted(switch)
      BY <1>0, <2>1, <2>2, <3>2 DEF PreparedIsPerformed
    <3> QED BY <3>1, <3>2
  <2>6. pending' # NoSwitch => Askable(pending)'
    <3> SUFFICES ASSUME pending' # NoSwitch PROVE Askable(pending)'
      OBVIOUS
    <3>1. pending' = switch BY <2>1
    <3> QED BY <2>1, <2>2, <2>3, <3>1 DEF Askable
  <2>7. pending' \in Switches BY <2>1, NoSwitchIsOne
  <2>8. Disjoint(active') /\ ClaimedBy(active') \subseteq Available'
    BY <1>0, <2>2, <2>3
  <2> QED BY <1>0, <2>2, <2>3, <2>5, <2>6, <2>7, <2>8 DEF IInv
<1>3. CASE Perform
  <2>1. /\ pending # NoSwitch /\ pending' = NoSwitch
        /\ command_interface_map' = Looked(pending)
        /\ command_mode' = [s \in Trinamic |-> Switched(s, Next_mode(s, pending))]
        /\ result' = IF Accepted(pending) THEN "OK" ELSE "ERROR"
        /\ active' = (active \ pending.stop) \cup ToSet(pending.start)
        /\ UNCHANGED Claimed /\ UNCHANGED exported
    BY <1>3 DEF Perform, Claimed
  <2>2. exported /\ Askable(pending) /\ Accepted(pending)
    BY <1>0, <2>1 DEF NothingExported, PreparedIsPerformed
  <2>3. MapsExported' /\ HandlesExported' /\ Configured' /\ Available' = Available
    BY <1>0, <2>1, <2>2, ExportedStays
  <2>4. Disjoint(active') /\ ClaimedBy(active') \subseteq Available'
    BY <1>0, <2>1, <2>2, <2>3, SwitchIsFree
  <2>5. active' \subseteq Controller BY <1>0, <2>1, StartedControllers
  <2>6. pending' \in Switches BY <2>1, NoSwitchIsOne
  <2>7. command_mode' \in [Trinamic -> COMMAND_MODE]
    <3> SUFFICES ASSUME NEW s \in Trinamic
                 PROVE  Switched(s, Next_mode(s, pending)) \in COMMAND_MODE
      BY <2>1
    <3> DEFINE mode == command_mode[s]
               r == Next_mode(s, pending)
    <3>1. mode \in COMMAND_MODE BY <1>0
    <3>2. Configured /\ MapsExported /\ pending \in Switches BY <1>0, <2>2
    <3> HIDE DEF r
    <3>3. r \in Answer BY <3>1, <3>2, Answered DEF r
    <3> QED BY <3>1, <3>3 DEF Switched, Answer, r
  <2>8. PreparedIsPerformed' BY <2>1, <2>2 DEF PreparedIsPerformed
  <2> QED BY <1>0, <2>1, <2>2, <2>3, <2>4, <2>5, <2>6, <2>7, <2>8 DEF IInv
<1>4. CASE Abandon
  <2>1. /\ pending # NoSwitch /\ pending' = NoSwitch /\ UNCHANGED Claimed
        /\ UNCHANGED <<command_interface_map, command_mode, active, result, exported>>
    BY <1>4 DEF Abandon, Claimed
  <2>2. exported BY <1>0, <2>1 DEF NothingExported
  <2>3. MapsExported' /\ HandlesExported' /\ Configured' /\ Available' = Available
    BY <1>0, <2>1, <2>2, ExportedStays
  <2>4. PreparedIsPerformed' BY <1>0, <2>1 DEF PreparedIsPerformed
  <2>5. Disjoint(active') /\ ClaimedBy(active') \subseteq Available' /\ pending' \in Switches
    BY <1>0, <2>1, <2>3, NoSwitchIsOne
  <2> QED BY <1>0, <2>1, <2>2, <2>3, <2>4, <2>5 DEF IInv
<1>5. CASE UNCHANGED vars
  <2>1. /\ UNCHANGED Claimed
        /\ UNCHANGED <<command_interface_map, command_mode, active, pending, result, exported>>
    BY <1>5 DEF vars, Claimed
  <2>2. exported => MapsExported' /\ HandlesExported'
    BY <1>0, <2>1, ExportedStays
  <2>3. ~exported => NothingExported' BY <1>0, <2>1 DEF NothingExported, Claimed
  <2>4. Configured' /\ Available' = Available BY <1>0, <2>1 DEF Claimed, Configured, Available
  <2>5. PreparedIsPerformed'
    <3>1. Accepted(pending)' <=> Accepted(pending)
      BY <2>1 DEF Claimed, Accepted, Next_mode, Looked, Lookup, StartInterfaces,
         StopInterfaces, Transmitted
    <3> QED BY <1>0, <2>1, <3>1 DEF PreparedIsPerformed
  <2>6. pending' # NoSwitch => Askable(pending)' BY <1>0, <2>1, <2>4 DEF Askable
  <2>7. Disjoint(active') /\ ClaimedBy(active') \subseteq Available' BY <1>0, <2>1, <2>4
  <2> QED BY <1>0, <2>1, <2>2, <2>3, <2>4, <2>5, <2>6, <2>7 DEF IInv
<1> QED BY <1>1, <1>2, <1>3, <1>4, <1>5 DEF Next

-----------------------------------------------------------------------------
(* What follows *)

\* The invariant holds in every state.
LEMMA Invariance == Spec => []IInv
BY InitHolds, StepHolds, PTL DEF Spec

\* A handle leads to a target.
LEMMA HandlesTyped ==
  ASSUME NEW kind \in Kind, NEW map, map \in [DOMAIN map -> Target(kind)],
         NEW handles, HandlesOf(handles, map)
  PROVE  \A h \in handles : h.behind \in Target(kind)
BY DEF HandlesOf, Assigned, Numbered, BehindOf

\* Modes stay modes and maps lead to interfaces a slave exports, whatever the
\* URDF claims and the controllers ask for.
THEOREM TypeCorrect == Spec => []TypeOK
<1>1. IInv => TypeOK
  <2> SUFFICES ASSUME IInv PROVE TypeOK
    OBVIOUS
  <2> USE DEF IInv
  <2> DEFINE R == Resolved_commands
             S == Resolve(joint_claims, "state")
  <2>1. joint_claims \in Configurations /\ transmissions \in Loaded BY DEF Configured
  <2>2. "command" \in Kind /\ "state" \in Kind BY DEF Kind
  <2>3. R \in [DOMAIN R -> Target("command")] /\ S \in [DOMAIN S -> Target("state")]
    BY <2>1, <2>2, Resolved DEF Resolved_commands
  <2> HIDE DEF R, S
  <2>4. /\ \A h \in command_interfaces : h.behind \in Target("command")
        /\ \A h \in state_interfaces : h.behind \in Target("state")
        /\ Range(command_interface_map) \subseteq Target("command") \cup {Nobody}
        /\ Range(state_interface_map) \subseteq Target("state")
    <3>1. CASE ~exported
      BY <3>1 DEF NothingExported, Range
    <3>2. CASE exported
      <4>1. HandlesOf(command_interfaces, R) /\ HandlesOf(state_interfaces, S)
        BY <3>2 DEF HandlesExported, R, S
      <4>2. /\ \A h \in command_interfaces : h.behind \in Target("command")
            /\ \A h \in state_interfaces : h.behind \in Target("state")
        BY <2>2, <2>3, <4>1, HandlesTyped
      <4>3. Extends(command_interface_map, R) /\ state_interface_map = S
        BY <3>2 DEF MapsExported, R, S
      <4>4. Range(command_interface_map) \subseteq Target("command") \cup {Nobody}
        BY <2>3, <4>3 DEF Range, Extends
      <4>5. Range(state_interface_map) \subseteq Target("state")
        BY <2>3, <4>3 DEF Range
      <4> QED BY <4>2, <4>4, <4>5
    <3> QED BY <3>1, <3>2
  <2>5. result \in {"OK", "ERROR"} BY DEF PreparedIsPerformed
  <2> QED BY <2>1, <2>4, <2>5 DEF TypeOK
<1> QED BY <1>1, Invariance, PTL

\* Whatever joints, claims and controllers there are and however switches are
\* prepared, given up and performed: no slave refuses what it had accepted.
THEOREM AcceptedIsPerformed == Spec => []PreparedIsPerformed
<1>1. IInv => PreparedIsPerformed BY DEF IInv
<1> QED BY <1>1, Invariance, PTL

\* An interface of a joint is the one the first of its claims offers, for any
\* claims, and looking interfaces up never changes that.
THEOREM FirstClaimHasIt == Spec => []FirstClaimWins
<1>1. IInv => FirstClaimWins
  <2> SUFFICES ASSUME IInv, exported
               PROVE  /\ FirstOf(command_interface_map, "command")
                      /\ FirstOf(state_interface_map, "state")
    BY DEF FirstClaimWins
  <2>1. Configured /\ MapsExported BY DEF IInv
  <2>2. "command" \in Kind /\ "state" \in Kind BY DEF Kind
  <2>3. Extends(command_interface_map, Resolve(joint_claims, "command"))
    BY <2>1 DEF MapsExported, Resolved_commands
  <2>4. Extends(state_interface_map, Resolve(joint_claims, "state"))
    BY <2>1 DEF MapsExported, Extends
  <2> QED BY <2>1, <2>2, <2>3, <2>4, FirstOfExtended
<1> QED BY <1>1, Invariance, PTL

\* Where names are unique, a handle leads to one interface of one slave, in
\* whatever order the joints are iterated: for commands the one a switch of its
\* name is resolved to, for state the one of its own name.
THEOREM HandlesLeadToClaims ==
  ASSUME NamesAreUnique
  PROVE  Spec => []HandleLeadsToClaim
<1>1. IInv => HandleLeadsToClaim
  <2> SUFFICES ASSUME IInv PROVE HandleLeadsToClaim
    OBVIOUS
  <2>1. CASE ~exported
    BY <2>1 DEF IInv, NothingExported, HandleLeadsToClaim
  <2>2. CASE exported
    <3> DEFINE R == Resolved_commands
               S == Resolve(joint_claims, "state")
               back == transmission_command_interface_map
    <3>1. Configured /\ MapsExported /\ HandlesExported BY <2>2 DEF IInv
    <3>2. joint_claims \in Configurations /\ "command" \in Kind /\ "state" \in Kind
      BY <3>1 DEF Configured, Kind
    <3>3. /\ DOMAIN R \in SUBSET ((DOMAIN joint_claims) \X STRING) /\ IsFiniteSet(DOMAIN R)
          /\ DOMAIN S \in SUBSET ((DOMAIN joint_claims) \X STRING) /\ IsFiniteSet(DOMAIN S)
      BY <3>2, Resolved DEF Resolved_commands
    <3>4. /\ Extends(command_interface_map, R) /\ state_interface_map = S
          /\ back = Proxies(R)
      BY <3>1 DEF MapsExported
    <3>5. /\ \E v, N : Assigned(command_interfaces, transmissions, R, DOMAIN R, v, N)
          /\ \E v, N : Assigned(state_interfaces, transmissions, S, DOMAIN S, v, N)
      BY <3>1 DEF HandlesExported, HandlesOf
    <3> HIDE DEF R, S
    <3>6. ASSUME NEW h \in command_interfaces
          PROVE  /\ Reached(command_interfaces, h.name) = {command_interface_map[Transmitted(h.name)]}
                 /\ h.value <= Cardinality(DOMAIN back)
      <4>1. /\ \E i \in DOMAIN R : h.name = NameOf(i) /\ Reached(command_interfaces, h.name) = {R[i]}
            /\ h.value <= Cardinality(Behind(R))
        BY <3>1, <3>3, <3>5, HandlesLead
      <4>2. PICK i \in DOMAIN R : /\ h.name = NameOf(i)
                                  /\ Reached(command_interfaces, h.name) = {R[i]}
        BY <4>1
      <4>3. Transmitted(h.name) = i BY <3>1, <3>3, <3>4, <4>2, TransmittedBack
      <4>4. command_interface_map[i] = R[i] BY <3>4 DEF Extends
      <4>5. Cardinality(DOMAIN back) = Cardinality(Behind(R))
        BY <3>1, <3>3, <3>4, ProxiesCounted
      <4> QED BY <4>1, <4>2, <4>3, <4>4, <4>5
    <3>7. ASSUME NEW h \in state_interfaces
          PROVE  /\ Reached(state_interfaces, h.name) =
                      {state_interface_map[i] : i \in {j \in DOMAIN state_interface_map :
                         IF j[1] \in DOMAIN transmissions THEN Proxy(j) = h.name ELSE j = h.name}}
                 /\ h.value <= Cardinality(Behind(state_interface_map))
      <4>1. /\ \E i \in DOMAIN S : h.name = NameOf(i) /\ Reached(state_interfaces, h.name) = {S[i]}
            /\ h.value <= Cardinality(Behind(S))
        BY <3>1, <3>3, <3>5, HandlesLead
      <4>2. PICK i \in DOMAIN S : /\ h.name = NameOf(i)
                                  /\ Reached(state_interfaces, h.name) = {S[i]}
        BY <4>1
      <4>3. \A j \in DOMAIN S : (IF j[1] \in DOMAIN transmissions THEN Proxy(j) = h.name
                                 ELSE j = h.name) <=> NameOf(j) = h.name
        BY DEF NameOf
      <4>4. \A j \in DOMAIN S : NameOf(j) = h.name <=> j = i
        BY <3>1, <3>3, <4>2, NamesLeadBack
      <4>5. {j \in DOMAIN S : IF j[1] \in DOMAIN transmissions THEN Proxy(j) = h.name
                              ELSE j = h.name} = {i}
        BY <4>3, <4>4
      <4>6. {S[j] : j \in {i}} = {S[i]} OBVIOUS
      <4> QED BY <3>4, <4>1, <4>2, <4>5, <4>6
    <3> QED BY <3>6, <3>7 DEF HandleLeadsToClaim
  <2> QED BY <2>1, <2>2
<1> QED BY <1>1, Invariance, PTL

\* The invariant of the modes, given IInv.
ModesMatch ==
  NoOverallocation => \A s \in Trinamic : Matches(command_mode[s], ClaimsOf(active, s))

\* Without a controller no claim is held.
LEMMA NobodyHolds ==
  \A s : ClaimsIn(Resolved_commands, transmission_command_interface_map, ClaimedBy({}), s) = {}
BY DEF ClaimsIn, ClaimedBy

\* Only Perform changes the modes and who is active, and it changes both.
LEMMA ModesStep ==
  ASSUME NamesAreUnique, IInv, ModesMatch, [Next]_vars
  PROVE  ModesMatch'
<1>0. /\ Configured /\ exported \in BOOLEAN
      /\ exported => MapsExported /\ HandlesExported
      /\ ~exported => NothingExported
      /\ command_mode \in [Trinamic -> COMMAND_MODE]
      /\ pending \in Switches
      /\ Disjoint(active) /\ ClaimedBy(active) \subseteq Available
      /\ pending # NoSwitch => Askable(pending)
      /\ PreparedIsPerformed
  BY DEF IInv
<1>1. CASE Export
  <2>1. /\ active = {} /\ active' = {} /\ command_mode' = command_mode
        /\ joint_claims' = joint_claims
    BY <1>0, <1>1 DEF Export, NothingExported
  <2>2. NoOverallocation' <=> NoOverallocation BY <2>1 DEF NoOverallocation
  <2>3. \A s : ClaimsOf(active, s) = {} BY <2>1, NobodyHolds DEF ClaimsOf
  <2>4. \A s : ClaimsOf(active, s)' = {}
    BY <2>1 DEF ClaimsOf, ClaimsIn, ClaimedBy
  <2> QED BY <2>1, <2>2, <2>3, <2>4 DEF ModesMatch
<1>2. CASE UNCHANGED <<joint_claims, transmission_command_interface_map, command_mode, active>>
  <2>1. NoOverallocation' <=> NoOverallocation BY <1>2 DEF NoOverallocation
  <2>2. \A s : ClaimsOf(active, s)' = ClaimsOf(active, s)
    BY <1>2 DEF ClaimsOf, Resolved_commands
  <2> QED BY <1>2, <2>1, <2>2 DEF ModesMatch
<1>3. CASE Perform
  <2>1. /\ pending # NoSwitch
        /\ command_mode' = [s \in Trinamic |-> Switched(s, Next_mode(s, pending))]
        /\ active' = (active \ pending.stop) \cup ToSet(pending.start)
        /\ joint_claims' = joint_claims
        /\ transmission_command_interface_map' = transmission_command_interface_map
    BY <1>3 DEF Perform, Claimed
  <2>2. exported /\ Askable(pending) /\ Accepted(pending)
    BY <1>0, <2>1 DEF NothingExported, PreparedIsPerformed
  <2>3. NoOverallocation' <=> NoOverallocation BY <2>1 DEF NoOverallocation
  <2> SUFFICES ASSUME NoOverallocation, NEW s \in Trinamic
               PROVE  Matches(command_mode'[s], ClaimsOf(active, s)')
    BY <2>3 DEF ModesMatch
  <2> DEFINE mode == command_mode[s]
             r == Next_mode(s, pending)
             next == (active \ pending.stop) \cup ToSet(pending.start)
  <2>4. NamesExported
    <3>1. HandlesOf(command_interfaces, Resolved_commands) BY <1>0, <2>2 DEF HandlesExported
    <3>2. PICK v, N : Assigned(command_interfaces, transmissions, Resolved_commands,
                               DOMAIN Resolved_commands, v, N)
      BY <3>1 DEF HandlesOf
    <3> DEFINE R == Resolved_commands
               B == BehindOf(transmissions, R)
    <3>3. command_interfaces = Numbered(transmissions, R, DOMAIN R, v) BY <3>2 DEF Assigned
    <3>4. \A i \in DOMAIN R : /\ i \in B => NameOf(i) = ProxyOf(transmissions, i)
                              /\ i \notin B => NameOf(i) = i
      BY DEF BehindOf, NameOf, Proxy, ProxyOf
    <3> HIDE DEF R, B
    <3>5. ASSUME NEW h \in command_interfaces PROVE \E i \in DOMAIN R : h.name = NameOf(i)
      <4>1. CASE h \in {[name |-> ProxyOf(transmissions, i), value |-> v[i], behind |-> R[i]] :
                          i \in DOMAIN R \cap B}
        BY <3>4, <4>1
      <4>2. CASE h \in {[name |-> i, value |-> 0, behind |-> R[i]] : i \in DOMAIN R \ B}
        BY <3>4, <4>2
      <4> QED BY <3>3, <4>1, <4>2 DEF Numbered, B
    <3> QED BY <3>5 DEF NamesExported, R
  <2>5. r # "refused" BY <2>2 DEF Accepted
  <2>6. command_mode'[s] = r BY <2>1, <2>5 DEF Switched
  <2>7. mode \in COMMAND_MODE /\ Matches(mode, ClaimsOf(active, s))
    BY <1>0 DEF ModesMatch
  <2>8. ClaimsOf(active, s)' = ClaimsOf(next, s)
    BY <2>1 DEF ClaimsOf, Resolved_commands
  <2>9. MapsExported BY <1>0, <2>2
  <2> HIDE DEF r
  <2>10. Matches(r, ClaimsOf(next, s))
    BY <1>0, <2>2, <2>4, <2>5, <2>7, <2>9, SwitchedMatches DEF r
  <2> HIDE DEF next
  <2> QED BY <2>6, <2>8, <2>10
<1>4. CASE Prepare
  BY <1>2, <1>4 DEF Prepare, Claimed
<1>5. CASE Abandon
  BY <1>2, <1>5 DEF Abandon, Claimed
<1>6. CASE UNCHANGED vars
  BY <1>2, <1>6 DEF vars, Claimed
<1> QED BY <1>1, <1>3, <1>4, <1>5, <1>6 DEF Next

\* Where names are unique and no claim is allocated twice, a drive's mode is
\* that of the claims active controllers hold, after any history of switches.
THEOREM ModesAreOfClaims ==
  ASSUME NamesAreUnique
  PROVE  Spec => []ModeMatchesClaims
<1>1. Init => ModesMatch
  <2> SUFFICES ASSUME Init, NEW s \in Trinamic
               PROVE  Matches(command_mode[s], ClaimsOf(active, s))
    BY DEF ModesMatch
  <2>1. command_mode[s] = "STOP" /\ active = {} BY DEF Init
  <2>2. ClaimsOf(active, s) = {} BY <2>1, NobodyHolds DEF ClaimsOf
  <2> QED BY <2>1, <2>2 DEF Matches
<1>2. IInv /\ ModesMatch /\ [Next]_vars => ModesMatch' BY ModesStep
<1>3. IInv /\ ModesMatch => ModeMatchesClaims
  <2> SUFFICES ASSUME IInv, ModesMatch, NoOverallocation, NEW s \in Trinamic
               PROVE  /\ command_mode[s] # "STOP" => command_mode_to_claim[command_mode[s]] \in Held(s)
                      /\ \A c \in Held(s) : claim_to_command_mode[c] \in {command_mode[s], "STOP"}
    BY DEF ModeMatchesClaims
  <2>1. Matches(command_mode[s], ClaimsOf(active, s)) BY DEF ModesMatch
  <2>2. Held(s) = ClaimsOf(active, s)
    <3>1. CASE ~exported
      <4>1. active = {} BY <3>1 DEF IInv, NothingExported
      <4>2. ClaimsOf(active, s) = {} BY <4>1, NobodyHolds DEF ClaimsOf
      <4>3. Held(s) = {} BY <4>1 DEF Held, ClaimedBy
      <4> QED BY <4>2, <4>3
    <3>2. CASE exported
      <4> DEFINE R == Resolved_commands
                 map == command_interface_map
                 names == {Transmitted(j) : j \in ClaimedBy(active)}
                 P == names \cap {k \in DOMAIN map : map[k].slave = s}
                 Q == {k \in names : k \in DOMAIN R /\ R[k].slave = s}
      <4>1. Extends(map, R) BY <3>2 DEF IInv, MapsExported
      <4>2. Nobody.slave # s BY TrinamicAssumption DEF Nobody
      <4>3. Held(s) = {map[i].interface : i \in P} BY DEF Held
      <4>4. ClaimsOf(active, s) = {R[i].interface : i \in Q}
        BY DEF ClaimsOf, ClaimsIn, Transmitted, Through
      <4> HIDE DEF R, names
      <4>5. P = Q BY <4>1, <4>2 DEF Extends
      <4>6. \A i \in Q : map[i] = R[i] BY <4>1 DEF Extends
      <4> HIDE DEF P, Q
      <4> QED BY <4>3, <4>4, <4>5, <4>6
    <3> QED BY <3>1, <3>2
  <2> QED BY <2>1, <2>2 DEF Matches
<1> QED BY <1>1, <1>2, <1>3, Invariance, PTL DEF Spec

\* For any claims and switches: a drive none of whose claims is named keeps
\* its mode, and so does one behind a name nobody knows.
THEOREM OnlyNamedSwitch == Spec => OnlyNamedSlavesSwitch
<1> DEFINE Named(s) ==
             \E i \in ToSet(StartInterfaces(pending)) \cup StopInterfaces(pending) :
               i \in DOMAIN command_interface_map /\ command_interface_map[i].slave = s
           A == \A s \in Trinamic : command_mode'[s] # command_mode[s] => Named(s)
<1>1. IInv /\ [Next]_vars => [A]_vars
  <2> SUFFICES ASSUME IInv, Next PROVE A
    OBVIOUS
  <2>1. CASE Perform
    <3> SUFFICES ASSUME NEW s \in Trinamic, ~Named(s) PROVE command_mode'[s] = command_mode[s]
      OBVIOUS
    <3>1. /\ pending # NoSwitch
          /\ command_mode' = [t \in Trinamic |-> Switched(t, Next_mode(t, pending))]
      BY <2>1 DEF Perform
    <3>2. exported /\ Configured /\ MapsExported /\ pending \in Switches
          /\ command_mode \in [Trinamic -> COMMAND_MODE]
      BY <3>1 DEF IInv, NothingExported
    <3> DEFINE mode == command_mode[s]
               r == Next_mode(s, pending)
    <3>3. mode \in COMMAND_MODE BY <3>2
    <3>4. Extends(command_interface_map, Resolved_commands) BY <3>2 DEF MapsExported
    <3>5. ASSUME NEW C, {Transmitted(i) : i \in ClaimedBy(C)}
                          \subseteq ToSet(StartInterfaces(pending)) \cup StopInterfaces(pending)
          PROVE  ClaimsOf(C, s) = {}
      <4> SUFFICES ASSUME NEW x \in ClaimsOf(C, s) PROVE FALSE
        OBVIOUS
      <4>1. PICK i \in {Transmitted(j) : j \in ClaimedBy(C)} :
              i \in DOMAIN Resolved_commands /\ Resolved_commands[i].slave = s
        BY DEF ClaimsOf, ClaimsIn, Transmitted, Through
      <4>2. i \in DOMAIN command_interface_map /\ command_interface_map[i].slave = s
        BY <3>4, <4>1 DEF Extends
      <4> QED BY <3>5, <4>1, <4>2
    <3>6. ClaimsOf(ToSet(pending.start), s) = {}
      BY <3>2, <3>5, StartNames
    <3>7. ClaimsOf(pending.stop, s) = {}
      <4>1. StopInterfaces(pending) = {Transmitted(i) : i \in ClaimedBy(pending.stop)}
        BY DEF StopInterfaces, ClaimedBy
      <4> QED BY <3>5, <4>1
    <3> HIDE DEF r, Named
    <3>8. r = mode BY <3>2, <3>3, <3>6, <3>7, Answered DEF r
    <3>9. r # "refused" BY <3>3, <3>8, ModesOfClaims
    <3> QED BY <3>1, <3>8, <3>9 DEF Switched, r
  <2>2. CASE Export \/ Prepare \/ Abandon
    BY <2>2 DEF Export, Prepare, Abandon
  <2> QED BY <2>1, <2>2 DEF Next
<1> QED BY <1>1, Invariance, PTL DEF Spec, OnlyNamedSlavesSwitch
=============================================================================
