---------------------------- MODULE EgressProofs ----------------------------
(* Proofs about Egress, for all names, addresses, allowlists and answers.   *)
EXTENDS Egress, TLAPS

(* What has been checked when, and that nothing else is connected to.       *)
Pinned ==
  /\ Enforcing => host = url
  /\ pc \in {"build", "check"} => reached = {} /\ ~isPinned
  /\ pc \in {"blocked", "invalid"} => reached = {}
  /\ pc \in {"connect", "connected", "reading"} /\ Enforcing => isPinned \/ HostAllowed(url)
  /\ isPinned => pinned = checked /\ \A a \in pinned : ~IsBlockedIp(a)
  /\ Enforcing => \A r \in reached :
       r[1] = url /\ (HostAllowed(url) \/ (isPinned /\ r[2] \in pinned))
  /\ pc = "blocked" =>
       /\ Enforcing /\ ~HostAllowed(url)
       /\ (\E a \in checked : IsBlockedIp(a))
            \/ (checked = {} /\ (IsLiteral(url) => IsBracketed(url)))

IInv == TypeOK /\ Pinned

-----------------------------------------------------------------------------
(* Octets p, q, r lie in the block of a given size that begins at x, y, z.   *)
In(p, q, r, x, y, z, size) ==
  Within((p * 256 + q) * 256 + r, (x * 256 + y) * 256 + z, size)

(* Blocks that begin with a given first octet.                               *)
LEMMA FirstOctetBlocks ==
  ASSUME NEW p \in Octets, NEW q \in Octets, NEW r \in Octets
  PROVE  /\ In(p, q, r, 0, 0, 0, 65536) <=> p = 0
         /\ In(p, q, r, 10, 0, 0, 65536) <=> p = 10
         /\ In(p, q, r, 127, 0, 0, 65536) <=> p = 127
         /\ In(p, q, r, 224, 0, 0, 1048576) <=> p \in 224..239
         /\ In(p, q, r, 240, 0, 0, 1048576) <=> p \in 240..255
<1>1. In(p, q, r, 0, 0, 0, 65536) <=> p = 0
  BY DEF In, Within, Octets
<1>2. In(p, q, r, 10, 0, 0, 65536) <=> p = 10
  BY DEF In, Within, Octets
<1>3. In(p, q, r, 127, 0, 0, 65536) <=> p = 127
  BY DEF In, Within, Octets
<1>4. In(p, q, r, 224, 0, 0, 1048576) <=> p \in 224..239
  BY DEF In, Within, Octets
<1>5. In(p, q, r, 240, 0, 0, 1048576) <=> p \in 240..255
  BY DEF In, Within, Octets
<1>6. QED  BY <1>1, <1>2, <1>3, <1>4, <1>5

(* Blocks that begin with given first two octets.                            *)
LEMMA SecondOctetBlocks ==
  ASSUME NEW p \in Octets, NEW q \in Octets, NEW r \in Octets
  PROVE  /\ In(p, q, r, 169, 254, 0, 256) <=> p = 169 /\ q = 254
         /\ In(p, q, r, 192, 168, 0, 256) <=> p = 192 /\ q = 168
         /\ In(p, q, r, 172, 16, 0, 4096) <=> p = 172 /\ q \in 16..31
         /\ In(p, q, r, 100, 64, 0, 16384) <=> p = 100 /\ q \in 64..127
         /\ In(p, q, r, 198, 18, 0, 512) <=> p = 198 /\ q \in 18..19
<1>1. In(p, q, r, 169, 254, 0, 256) <=> p = 169 /\ q = 254
  BY DEF In, Within, Octets
<1>2. In(p, q, r, 192, 168, 0, 256) <=> p = 192 /\ q = 168
  BY DEF In, Within, Octets
<1>3. In(p, q, r, 172, 16, 0, 4096) <=> p = 172 /\ q \in 16..31
  BY DEF In, Within, Octets
<1>4. In(p, q, r, 100, 64, 0, 16384) <=> p = 100 /\ q \in 64..127
  BY DEF In, Within, Octets
<1>5. In(p, q, r, 198, 18, 0, 512) <=> p = 198 /\ q \in 18..19
  BY DEF In, Within, Octets
<1>6. QED  BY <1>1, <1>2, <1>3, <1>4, <1>5

(* Blocks of one value of the first three octets.                            *)
LEMMA ThirdOctetBlocks ==
  ASSUME NEW p \in Octets, NEW q \in Octets, NEW r \in Octets
  PROVE  /\ In(p, q, r, 192, 0, 0, 1) <=> p = 192 /\ q = 0 /\ r = 0
         /\ In(p, q, r, 192, 0, 2, 1) <=> p = 192 /\ q = 0 /\ r = 2
         /\ In(p, q, r, 198, 51, 100, 1) <=> p = 198 /\ q = 51 /\ r = 100
         /\ In(p, q, r, 203, 0, 113, 1) <=> p = 203 /\ q = 0 /\ r = 113
<1>1. In(p, q, r, 192, 0, 0, 1) <=> p = 192 /\ q = 0 /\ r = 0
  BY DEF In, Within, Octets
<1>2. In(p, q, r, 192, 0, 2, 1) <=> p = 192 /\ q = 0 /\ r = 2
  BY DEF In, Within, Octets
<1>3. In(p, q, r, 198, 51, 100, 1) <=> p = 198 /\ q = 51 /\ r = 100
  BY DEF In, Within, Octets
<1>4. In(p, q, r, 203, 0, 113, 1) <=> p = 203 /\ q = 0 /\ r = 113
  BY DEF In, Within, Octets
<1>5. QED  BY <1>1, <1>2, <1>3, <1>4

(* The masks of the code, as ranges.                                         *)
LEMMA Masks ==
  ASSUME NEW q \in Octets
  PROVE  /\ q - (q % 64) = 64 <=> q \in 64..127
         /\ q - (q % 2) = 18 <=> q \in 18..19
BY DEF Octets

(* The masks and predicates of is_blocked_v4 are exactly the special blocks, *)
(* without 240.0.0.0/4 but with the broadcast address.                       *)
LEMMA BlockedV4Exactly ==
  ASSUME NEW o \in [1..4 -> Octets]
  PROVE  IsBlockedV4(o) <=>
           /\ \E b \in Blocks4 : Within(First24(o), First24(b[1]), b[2])
           /\ ~(o[1] \in 240..255 /\ o # <<255, 255, 255, 255>>)
<1>1. PICK p \in Octets, q \in Octets, r \in Octets : p = o[1] /\ q = o[2] /\ r = o[3]
  <2>1. o[1] \in Octets /\ o[2] \in Octets /\ o[3] \in Octets
    OBVIOUS
  <2>2. QED  BY <2>1, Zenon
<1>2. IsBlockedV4(o) <=>
        \/ p = 10 \/ (p = 172 /\ q \in 16..31) \/ (p = 192 /\ q = 168)
        \/ p = 127 \/ (p = 169 /\ q = 254) \/ o = <<255, 255, 255, 255>>
        \/ (p = 192 /\ q = 0 /\ r = 2) \/ (p = 198 /\ q = 51 /\ r = 100)
        \/ (p = 203 /\ q = 0 /\ r = 113)
        \/ p \in 224..239 \/ p = 0
        \/ (p = 100 /\ q \in 64..127)
        \/ (p = 192 /\ q = 0 /\ r = 0)
        \/ (p = 198 /\ q \in 18..19)
  BY <1>1, Masks DEF IsBlockedV4
<1> DEFINE F(b) == Within(First24(o), First24(b[1]), b[2])
           I(x, y, z, size) == In(p, q, r, x, y, z, size)
<1>3. ASSUME NEW x, NEW y, NEW z, NEW size
      PROVE  F(<<<<x, y, z>>, size>>) <=> I(x, y, z, size)
  BY <1>1 DEF First24, In
<1>4. (\E b \in Blocks4 : F(b)) <=>
        \/ I(0, 0, 0, 65536) \/ I(10, 0, 0, 65536) \/ I(100, 64, 0, 16384)
        \/ I(127, 0, 0, 65536) \/ I(169, 254, 0, 256) \/ I(172, 16, 0, 4096)
        \/ I(192, 0, 0, 1) \/ I(192, 0, 2, 1) \/ I(192, 168, 0, 256)
        \/ I(198, 18, 0, 512) \/ I(198, 51, 100, 1) \/ I(203, 0, 113, 1)
        \/ I(224, 0, 0, 1048576) \/ I(240, 0, 0, 1048576)
  <2> HIDE DEF F, I
  <2>1. QED  BY <1>3 DEF Blocks4
<1>5. (\E b \in Blocks4 : F(b)) <=>
        \/ p = 0 \/ p = 10 \/ (p = 100 /\ q \in 64..127)
        \/ p = 127 \/ (p = 169 /\ q = 254) \/ (p = 172 /\ q \in 16..31)
        \/ (p = 192 /\ q = 0 /\ r = 0) \/ (p = 192 /\ q = 0 /\ r = 2) \/ (p = 192 /\ q = 168)
        \/ (p = 198 /\ q \in 18..19) \/ (p = 198 /\ q = 51 /\ r = 100)
        \/ (p = 203 /\ q = 0 /\ r = 113) \/ p \in 224..239
        \/ p \in 240..255
  <2>1. /\ I(192, 0, 0, 1) <=> p = 192 /\ q = 0 /\ r = 0
        /\ I(192, 0, 2, 1) <=> p = 192 /\ q = 0 /\ r = 2
        /\ I(198, 51, 100, 1) <=> p = 198 /\ q = 51 /\ r = 100
        /\ I(203, 0, 113, 1) <=> p = 203 /\ q = 0 /\ r = 113
    BY ThirdOctetBlocks
  <2>2. /\ I(0, 0, 0, 65536) <=> p = 0
        /\ I(10, 0, 0, 65536) <=> p = 10
        /\ I(127, 0, 0, 65536) <=> p = 127
        /\ I(224, 0, 0, 1048576) <=> p \in 224..239
        /\ I(240, 0, 0, 1048576) <=> p \in 240..255
    BY FirstOctetBlocks
  <2>3. /\ I(169, 254, 0, 256) <=> p = 169 /\ q = 254
        /\ I(192, 168, 0, 256) <=> p = 192 /\ q = 168
        /\ I(172, 16, 0, 4096) <=> p = 172 /\ q \in 16..31
        /\ I(100, 64, 0, 16384) <=> p = 100 /\ q \in 64..127
        /\ I(198, 18, 0, 512) <=> p = 198 /\ q \in 18..19
    BY SecondOctetBlocks
  <2> HIDE DEF F, I
  <2>4. QED  BY <1>4, <2>1, <2>2, <2>3
<1>6. o = <<255, 255, 255, 255>> => p = 255
  BY <1>1
<1> DEFINE Broadcast == o = <<255, 255, 255, 255>>
           Found == \E b \in Blocks4 : F(b)
<1>7. IsBlockedV4(o) <=> Found /\ ~(p \in 240..255 /\ ~Broadcast)
  <2> HIDE DEF F
  <2>1. Broadcast => p = 255
    BY <1>6
  <2> HIDE DEF Found, Broadcast
  <2>2. Found <=>
        \/ p = 0 \/ p = 10 \/ (p = 100 /\ q \in 64..127)
        \/ p = 127 \/ (p = 169 /\ q = 254) \/ (p = 172 /\ q \in 16..31)
        \/ (p = 192 /\ q = 0 /\ r = 0) \/ (p = 192 /\ q = 0 /\ r = 2) \/ (p = 192 /\ q = 168)
        \/ (p = 198 /\ q \in 18..19) \/ (p = 198 /\ q = 51 /\ r = 100)
        \/ (p = 203 /\ q = 0 /\ r = 113) \/ p \in 224..239 \/ p \in 240..255
    BY <1>5 DEF Found
  <2>3. IsBlockedV4(o) <=>
        \/ p = 10 \/ (p = 172 /\ q \in 16..31) \/ (p = 192 /\ q = 168)
        \/ p = 127 \/ (p = 169 /\ q = 254) \/ Broadcast
        \/ (p = 192 /\ q = 0 /\ r = 2) \/ (p = 198 /\ q = 51 /\ r = 100)
        \/ (p = 203 /\ q = 0 /\ r = 113)
        \/ p \in 224..239 \/ p = 0
        \/ (p = 100 /\ q \in 64..127)
        \/ (p = 192 /\ q = 0 /\ r = 0)
        \/ (p = 198 /\ q \in 18..19)
    BY <1>2 DEF Broadcast
  <2>4. QED  BY <1>1, <2>1, <2>2, <2>3
<1>8. QED  BY <1>1, <1>7

(* What is_blocked_v6 blocks: ::, ::1 and the three masks, as ranges.        *)
LEMMA BlockedV6Ranges ==
  ASSUME NEW s \in Segments, NEW t \in Segments, NEW rest \in {0, 1, 2}
  PROVE  IsBlockedV6(s, t, rest) <=>
           \/ s = 0 /\ t = 0 /\ rest # 2
           \/ s \in 64512..65023 \/ s \in 65152..65215 \/ s \in 65280..65535
<1>1. s \div 256 = 255 <=> s \in 65280..65535
  BY DEF Segments
<1>2. s - (s % 512) = 64512 <=> s \in 64512..65023
  BY DEF Segments
<1>3. s - (s % 64) = 65152 <=> s \in 65152..65215
  BY DEF Segments
<1>4. rest \in {0, 1} <=> rest # 2
  OBVIOUS
<1> DEFINE M1 == s \div 256 = 255
           M2 == s - (s % 512) = 64512
           M3 == s - (s % 64) = 65152
           R1 == s \in 65280..65535
           R2 == s \in 64512..65023
           R3 == s \in 65152..65215
           Low == s = 0 /\ t = 0 /\ rest \in {0, 1}
<1>5. (M1 <=> R1) /\ (M2 <=> R2) /\ (M3 <=> R3)
  BY <1>1, <1>2, <1>3
<1>6. IsBlockedV6(s, t, rest) <=> Low \/ M1 \/ M2 \/ M3
  BY DEF IsBlockedV6
<1>7. Low <=> s = 0 /\ t = 0 /\ rest # 2
  BY <1>4
<1> HIDE DEF M1, M2, M3, Low
<1>8. QED  BY <1>5, <1>6, <1>7

(* The guard blocks the special addresses, but for those it overlooks, and   *)
(* no global one.                                                            *)
THEOREM BlockedIffSpecial ==
  ASSUME NEW a \in Addresses
  PROVE  IsBlockedIp(a) <=> IsSpecial(a) /\ ~Overlooked(a)
<1>1. IsAddress(a)
  BY EgressAssumption
<1>2. CASE a.kind = "v6"
  <2>1. PICK s \in Segments, t \in Segments, rest \in {0, 1, 2} :
          s = a.seg0 /\ t = a.seg1 /\ rest = a.rest
    BY <1>1 DEF IsAddress
  <2>2. IsBlockedIp(a) <=>
          \/ s = 0 /\ t = 0 /\ rest # 2
          \/ s \in 64512..65023 \/ s \in 65152..65215 \/ s \in 65280..65535
    BY <1>2, <2>1, BlockedV6Ranges DEF IsBlockedIp
  <2>3. IsSpecial(a) <=> ~(8192 <= s /\ s < 16384) \/ Reserved6(s, t)
    BY <1>2, <2>1 DEF IsSpecial, Within, Segments
  <2>4. Overlooked(a) <=>
          \/ Reserved6(s, t)
          \/ s < 8192 /\ ~(s = 0 /\ t = 0 /\ rest # 2)
          \/ (16384 <= s /\ s < 64512) \/ (65024 <= s /\ s < 65152)
          \/ (65216 <= s /\ s < 65280)
    BY <1>2, <2>1 DEF Overlooked, Within, Segments
  <2>5. Reserved6(s, t) => 8192 <= s /\ s < 16384
    BY <2>1 DEF Reserved6, Segments
  <2>6. /\ s \in Nat /\ s < 65536
        /\ s \in 64512..65023 <=> 64512 <= s /\ s < 65024
        /\ s \in 65152..65215 <=> 65152 <= s /\ s < 65216
        /\ s \in 65280..65535 <=> 65280 <= s
    BY <2>1 DEF Segments
  <2> DEFINE Low == s = 0 /\ t = 0 /\ rest # 2
             R == Reserved6(s, t)
  <2>7. (Low => s = 0) /\ (R => 8192 <= s /\ s < 16384)
    BY <2>5
  <2>8. IsBlockedIp(a) <=>
          \/ Low
          \/ (64512 <= s /\ s < 65024) \/ (65152 <= s /\ s < 65216) \/ 65280 <= s
    BY <2>2, <2>6
  <2>9. IsSpecial(a) <=> ~(8192 <= s /\ s < 16384) \/ R
    BY <2>3
  <2>10. Overlooked(a) <=>
           \/ R \/ (s < 8192 /\ ~Low)
           \/ (16384 <= s /\ s < 64512) \/ (65024 <= s /\ s < 65152)
           \/ (65216 <= s /\ s < 65280)
    BY <2>4
  <2> HIDE DEF Low, R
  <2>11. QED  BY <2>6, <2>7, <2>8, <2>9, <2>10
<1>3. CASE a.kind # "v6"
  <2>1. IsBlockedV4(a.octets) <=>
          /\ \E b \in Blocks4 : Within(First24(a.octets), First24(b[1]), b[2])
          /\ ~(a.octets[1] \in 240..255 /\ a.octets # <<255, 255, 255, 255>>)
    BY <1>1, BlockedV4Exactly DEF IsAddress
  <2>2. QED  BY <1>3, <2>1 DEF IsBlockedIp, IsSpecial, Overlooked
<1>4. QED  BY <1>2, <1>3

-----------------------------------------------------------------------------
(* A lookup, for the guard or the connector, answers with addresses.         *)
LEMMA LookupTyped ==
  ASSUME NEW h \in Hosts, NEW addrs \in Lookup(h)
  PROVE  addrs \subseteq Addresses /\ h.addrs \subseteq Addresses
<1>1. h.addrs \subseteq Addresses
  BY DEF Hosts
<1>2. addrs \in {h.addrs} \cup Answers
  BY DEF Lookup
<1>3. QED  BY <1>1, <1>2, EgressAssumption

(* The invariant is inductive. *)
THEOREM Inductive == Spec => []IInv
<1> USE DEF outcome, input
<1>1. Init => IInv
  <2> SUFFICES ASSUME Init PROVE IInv
    OBVIOUS
  <2>1. TypeOK
    <3>1. MaxHops \in Nat
      BY EgressAssumption
    <3>2. hops \in 0..MaxHops
      BY <3>1 DEF Init
    <3>3. allowlist \in Allowlists /\ url \in Hosts /\ host \in Hosts
      BY DEF Init
    <3>4. pinned = {} /\ checked = {} /\ reached = {} /\ isPinned = FALSE
      BY DEF Init
    <3>5. pc = "build" /\ exit = "none" /\ failed = FALSE
      BY DEF Init
    <3>6. QED  BY <3>2, <3>3, <3>4, <3>5 DEF TypeOK
  <2>2. Pinned
    BY DEF Init, Pinned
  <2>3. QED  BY <2>1, <2>2 DEF IInv
<1>2. IInv /\ [Next]_vars => IInv'
  <2> SUFFICES ASSUME IInv, [Next]_vars PROVE IInv'
    OBVIOUS
  <2>0. TypeOK /\ Pinned
    BY DEF IInv
  <2>1. ASSUME UNCHANGED <<allowlist, url>>
        PROVE  (Enforcing' <=> Enforcing) /\ \A h : HostAllowed(h)' <=> HostAllowed(h)
    BY <2>1 DEF Enforcing, HostAllowed
  <2>2. CASE BuildRequest
    BY <2>0, <2>1, <2>2 DEF BuildRequest, IInv, TypeOK, Pinned
  <2>3. CASE InvalidPayload
    BY <2>0, <2>1, <2>3 DEF InvalidPayload, IInv, TypeOK, Pinned
  <2>4. CASE ResolveChecked
    <3>1. PICK addrs \in GuardLookup(host) :
            /\ checked' = addrs
            /\ IF addrs # {} /\ \A a \in addrs : ~IsBlockedIp(a)
                 THEN pc' = "connect" /\ pinned' = addrs /\ isPinned' = TRUE
                 ELSE pc' = "blocked" /\ UNCHANGED <<pinned, isPinned>>
      BY <2>4 DEF ResolveChecked
    <3>2. addrs \subseteq Addresses
      BY <2>0, LookupTyped DEF GuardLookup, TypeOK
    <3>3. /\ pc = "check" /\ ~isPinned /\ reached = {}
          /\ UNCHANGED <<allowlist, url, host, hops, reached, exit, failed>>
      BY <2>0, <2>4 DEF ResolveChecked, Pinned
    <3>4. TypeOK'
      BY <2>0, <3>1, <3>2, <3>3 DEF TypeOK
    <3>5. Enforcing /\ host = url /\ ~HostAllowed(url)
      BY <2>0, <2>4 DEF ResolveChecked, Pinned
    <3>6. addrs = {} => (IsLiteral(url) => IsBracketed(url))
      BY <3>1, <3>5 DEF GuardLookup, Lookup, IsLiteral
    <3>7. Pinned'
      BY <2>0, <2>1, <3>1, <3>3, <3>5, <3>6 DEF Pinned, IsLiteral, IsBracketed
    <3>8. QED  BY <3>4, <3>7 DEF IInv
  <2>5. CASE SkipCheck
    BY <2>0, <2>1, <2>5 DEF SkipCheck, IInv, TypeOK, Pinned
  <2>6. CASE Connect
    <3>1. PICK addrs \in (IF isPinned /\ host = url THEN {pinned} ELSE Lookup(host)) :
            \E a \in addrs : reached' = {<<host, a>>}
      BY <2>6 DEF Connect
    <3>2. PICK a \in addrs : reached' = {<<host, a>>}
      BY <3>1
    <3>3. a \in Addresses
      BY <2>0, <3>1, LookupTyped DEF TypeOK
    <3>4. /\ pc = "connect" /\ pc' = "connected"
          /\ UNCHANGED <<allowlist, url, host, pinned, isPinned, hops, checked, exit, failed>>
      BY <2>6 DEF Connect
    <3>5. TypeOK'
      BY <2>0, <3>2, <3>3, <3>4 DEF TypeOK
    <3>6. Enforcing => host = url /\ (HostAllowed(url) \/ (isPinned /\ a \in pinned))
      BY <2>0, <3>1, <3>4 DEF Pinned
    <3>7. Pinned'
      BY <2>0, <2>1, <3>2, <3>4, <3>6 DEF Pinned
    <3>8. QED  BY <3>5, <3>7 DEF IInv
  <2>7. CASE RequestFails
    BY <2>0, <2>1, <2>7 DEF RequestFails, IInv, TypeOK, Pinned
  <2>8. CASE Respond
    BY <2>0, <2>1, <2>8 DEF Respond, IInv, TypeOK, Pinned
  <2>9. CASE ReadBody
    BY <2>0, <2>1, <2>9 DEF ReadBody, IInv, TypeOK, Pinned
  <2>10. CASE HardTimeoutElapses
    BY <2>0, <2>1, <2>10 DEF HardTimeoutElapses, IInv, TypeOK, Pinned
  <2>11. ASSUME NEW h \in Hosts, FollowRedirect(h)
         PROVE  IInv'
    <3>1. TypeOK'
      BY <2>0, <2>11, EgressAssumption DEF FollowRedirect, TypeOK
    <3>2. Pinned'
      BY <2>0, <2>1, <2>11 DEF FollowRedirect, Pinned
    <3>3. QED  BY <3>1, <3>2 DEF IInv
  <2>12. CASE UNCHANGED vars
    <3>1. TypeOK'
      BY <2>0, <2>12 DEF vars, TypeOK
    <3>2. Pinned'
      BY <2>0, <2>1, <2>12 DEF vars, Pinned
    <3>3. QED  BY <3>1, <3>2 DEF IInv
  <2>13. QED
    BY <2>2, <2>3, <2>4, <2>5, <2>6, <2>7, <2>8, <2>9, <2>10, <2>11, <2>12 DEF Next
<1>3. QED  BY <1>1, <1>2, PTL DEF Spec

(* The handler's variables keep their types. *)
THEOREM TypeCorrect == Spec => []TypeOK
BY Inductive, PTL DEF IInv

(* The guard connects to the host asked for, at an address it has checked. *)
THEOREM ConnectsAsChecked == Spec => []ReachedAsChecked
<1>1. IInv => ReachedAsChecked
  BY DEF IInv, Pinned, ReachedAsChecked
<1>2. QED  BY <1>1, Inductive, PTL

(* Under the guard no special address is connected to, but for the ranges    *)
(* that Overlooked names, unless the operator exempted its host.             *)
THEOREM ReachesGlobal == Spec => []OnlyGlobalReached
<1>1. IInv => OnlyGlobalReached
  <2> SUFFICES ASSUME IInv, Enforcing, NEW r \in reached, ~HostAllowed(r[1])
               PROVE  ~IsSpecial(r[2]) \/ Overlooked(r[2])
    BY DEF OnlyGlobalReached
  <2>1. r[2] \in pinned /\ isPinned
    BY DEF IInv, Pinned
  <2>2. r[2] \in Addresses /\ ~IsBlockedIp(r[2])
    BY <2>1 DEF IInv, TypeOK, Pinned
  <2>3. QED  BY <2>2, BlockedIffSpecial
<1>2. QED  BY <1>1, Inductive, PTL

(* A host is refused for a special address it has, or for having none: an    *)
(* exempt host, a global IPv4 literal, and a name whose addresses are all    *)
(* global are never refused.                                                 *)
THEOREM RefusesForCause == Spec => []RefusedForCause
<1>1. IInv => RefusedForCause
  <2> SUFFICES ASSUME IInv, pc = "blocked", NEW b \in checked, IsBlockedIp(b)
               PROVE  \E a \in checked : IsSpecial(a)
    BY DEF RefusedForCause, IInv, Pinned
  <2>1. b \in Addresses
    BY DEF IInv, TypeOK
  <2>2. QED  BY <2>1, BlockedIffSpecial
<1>2. QED  BY <1>1, Inductive, PTL

-----------------------------------------------------------------------------
(* How far a request can still go: each redirect takes it back by one stage, *)
(* and uses up one of the hops, which weigh more.                            *)
Left ==
  3 * (MaxHops - hops) +
  CASE pc = "build" -> 6
    [] pc = "check" -> 5
    [] pc = "connect" -> 4
    [] pc = "connected" -> 3
    [] pc = "reading" -> 2
    [] OTHER -> 0

Bound == 3 * MaxHops + 6

(* Every step of a request, a redirect too, brings it nearer to its end: no  *)
(* server can keep the handler following redirects without end, with the     *)
(* guard or without it.                                                      *)
THEOREM RedirectsEnd == Spec => [](Left \in 0..Bound) /\ [][Left' < Left]_vars
<1>1. IInv => Left \in 0..Bound
  BY EgressAssumption DEF IInv, TypeOK, Left, Bound
<1>2. IInv /\ [Next]_vars => [Left' < Left]_vars
  <2> SUFFICES ASSUME IInv, Next PROVE Left' < Left
    BY DEF vars
  <2>0. MaxHops \in Nat /\ hops \in 0..MaxHops
    BY EgressAssumption DEF IInv, TypeOK
  <2>1. CASE BuildRequest
    BY <2>0, <2>1 DEF BuildRequest, Left
  <2>2. CASE InvalidPayload
    BY <2>0, <2>2 DEF InvalidPayload, Left
  <2>3. CASE ResolveChecked
    <3>1. pc = "check" /\ pc' \in {"connect", "blocked"} /\ hops' = hops
      BY <2>3 DEF ResolveChecked
    <3>2. QED  BY <2>0, <3>1 DEF Left
  <2>4. CASE SkipCheck
    BY <2>0, <2>4 DEF SkipCheck, Left
  <2>5. CASE Connect
    BY <2>0, <2>5 DEF Connect, Left
  <2>6. CASE RequestFails
    BY <2>0, <2>6 DEF RequestFails, Left
  <2>7. CASE Respond
    BY <2>0, <2>7 DEF Respond, Left
  <2>8. CASE ReadBody
    BY <2>0, <2>8 DEF ReadBody, Left
  <2>9. CASE HardTimeoutElapses
    BY <2>0, <2>9 DEF HardTimeoutElapses, Left, outcome
  <2>10. ASSUME NEW h \in Hosts, FollowRedirect(h)
         PROVE  Left' < Left
    BY <2>0, <2>10 DEF FollowRedirect, Left
  <2>11. QED
    BY <2>1, <2>2, <2>3, <2>4, <2>5, <2>6, <2>7, <2>8, <2>9, <2>10 DEF Next
<1>3. QED  BY <1>1, <1>2, Inductive, PTL DEF Spec

-----------------------------------------------------------------------------
(* Under the guard nothing has been connected to before the one attempt, and *)
(* no redirect was followed.                                                 *)
BeforeTheAttempt ==
  Enforcing => /\ hops = 0
               /\ pc \in {"build", "check", "connect"} => reached = {}

(* Under the guard a request makes one connection, which is never replaced;  *)
(* and what was checked and pinned is final from the moment the check is     *)
(* over, however often DNS is asked again.                                   *)
OneConnection ==
  /\ Enforcing /\ reached # {} => reached' = reached
  /\ pc \notin {"build", "check"} =>
       pinned' = pinned /\ isPinned' = isPinned /\ checked' = checked

(* The guard's one decision is used for one connection and for no other. *)
THEOREM OneCheckOneConnection ==
  Spec => []BeforeTheAttempt /\ [][OneConnection]_vars
<1> USE DEF outcome, input
<1>1. Init => BeforeTheAttempt
  BY DEF Init, BeforeTheAttempt
<1>2. BeforeTheAttempt /\ [Next]_vars => BeforeTheAttempt' /\ [OneConnection]_vars
  <2> SUFFICES ASSUME BeforeTheAttempt, Next PROVE BeforeTheAttempt' /\ OneConnection
    BY DEF BeforeTheAttempt, Enforcing, vars
  <2>0. Enforcing' <=> Enforcing
    <3>1. allowlist' = allowlist
      BY DEF Next, BuildRequest, InvalidPayload, ResolveChecked, SkipCheck, Connect,
             RequestFails, Respond, ReadBody, HardTimeoutElapses, FollowRedirect
    <3>2. QED  BY <3>1 DEF Enforcing
  <2> USE DEF BeforeTheAttempt, OneConnection
  <2>1. CASE BuildRequest
    BY <2>0, <2>1 DEF BuildRequest
  <2>2. CASE InvalidPayload
    BY <2>0, <2>2 DEF InvalidPayload
  <2>3. CASE ResolveChecked
    BY <2>0, <2>3 DEF ResolveChecked
  <2>4. CASE SkipCheck
    BY <2>0, <2>4 DEF SkipCheck
  <2>5. CASE Connect
    BY <2>0, <2>5 DEF Connect
  <2>6. CASE RequestFails
    BY <2>0, <2>6 DEF RequestFails
  <2>7. CASE Respond
    BY <2>0, <2>7 DEF Respond
  <2>8. CASE ReadBody
    BY <2>0, <2>8 DEF ReadBody
  <2>9. CASE HardTimeoutElapses
    BY <2>0, <2>9 DEF HardTimeoutElapses
  <2>10. ASSUME NEW h \in Hosts, FollowRedirect(h)
         PROVE  BeforeTheAttempt' /\ OneConnection
    BY <2>0, <2>10 DEF FollowRedirect
  <2>11. QED
    BY <2>1, <2>2, <2>3, <2>4, <2>5, <2>6, <2>7, <2>8, <2>9, <2>10 DEF Next
<1>3. QED  BY <1>1, <1>2, PTL DEF Spec
=============================================================================
