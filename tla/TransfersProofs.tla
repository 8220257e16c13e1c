---------------------------- MODULE TransfersProofs ----------------------------
(***************************************************************************)
(* Proofs about Transfers, for any instruments, messages and flags: who is   *)
(* addressed when data moves or a command is sent, and what the instruments  *)
(* have heard of a write cut into blocks.                                    *)
(*                                                                           *)
(* What a string of command bytes does to a party of the bus is defined by   *)
(* recursion over the string, and so is the string that a list of addresses  *)
(* comes to.  The facts about them are proved by induction, and induction    *)
(* from the fact that a nonempty set of numbers has a least member.          *)
(***************************************************************************)
EXTENDS Transfers, FiniteSets, FiniteSetTheorems, FunctionTheorems,
        SequenceTheorems, WellFoundedInduction, TLAPS

-----------------------------------------------------------------------------
(* Induction over the natural numbers, for sets instead of predicates.       *)

(* A nonempty set of natural numbers has a least member.                     *)
LEMMA Least ==
  ASSUME NEW T \in SUBSET Nat, T # {}
  PROVE \E m \in T : \A k \in T : m <= k
<1> DEFINE R == OpToRel(<, Nat)
<1>1. R = {ss \in Nat \X Nat : ss[1] < ss[2]}
  BY DEF OpToRel
<1>2. IsWellFoundedOn(R, Nat)
  BY NatLessThanWellFounded, Zenon
<1>3. QED
  <2> HIDE DEF R
  <2>1. PICK m \in T : \A k \in T : ~(<<k, m>> \in R)
    BY <1>2, WFMin
  <2>2. ASSUME NEW k \in T PROVE m <= k
    <3>1. <<k, m>> \in Nat \X Nat /\ <<k, m>>[1] = k /\ <<k, m>>[2] = m
      OBVIOUS
    <3>2. ~(k < m)
      BY <1>1, <2>1, <3>1, Zenon
    <3>3. QED
      BY <3>2
  <2>3. QED
    BY <2>2

(* A set that holds 0 and with every number the next one holds them all.     *)
LEMMA Induct ==
  ASSUME NEW T \in SUBSET Nat, 0 \in T, \A n \in T : n + 1 \in T
  PROVE T = Nat
<1> DEFINE U == Nat \ T
<1>1. SUFFICES ASSUME U # {} PROVE FALSE
  OBVIOUS
<1>2. PICK m \in U : \A k \in U : m <= k
  BY <1>1, Least
<1>3. m # 0 /\ m \in Nat
  BY <1>2
<1>4. m - 1 \in Nat /\ m - 1 \notin U
  BY <1>2, <1>3
<1>5. (m - 1) + 1 \in T
  BY <1>4
<1>6. QED
  BY <1>2, <1>3, <1>5

-----------------------------------------------------------------------------
(* The bytes of addresses.                                                   *)

(* The commands that address a party: listen 32 to 62, talk 64 to 94, and     *)
(* secondary 96 to 126.                                                      *)
LEMMA AddressBytes ==
  ASSUME NEW a \in 0 .. 30
  PROVE  MLA(a) = a + 32 /\ MTA(a) = a + 64 /\ MSA(a) = a + 96
<1>1. a \div 32 = 0 /\ a \div 64 = 0 /\ (a + 32) \div 64 = 0
  OBVIOUS
<1>2. With(32, a) = a + 32 /\ With(64, a) = a + 64 /\ With(64, a + 32) = a + 96
  BY <1>1 DEF With
<1>3. cmd_byte.LAD = 32 /\ cmd_byte.TAD = 64
  BY DEF cmd_byte
<1>4. (a + 32) % 256 = a + 32 /\ (a + 64) % 256 = a + 64 /\ (a + 96) % 256 = a + 96
  OBVIOUS
<1>5. QED
  BY <1>2, <1>3, <1>4 DEF MLA, MTA, MSA

(* The ranges of a legal address.                                            *)
LEMMA LegalAddress ==
  ASSUME NEW d \in Legal
  PROVE  d.pad \in 0 .. 30 /\ d.sad \in -1 .. 30 /\ (d.sad >= 0 => d.sad \in 0 .. 30)
BY DEF Legal, gpib_addr_max

(* Packing a legal address and unpacking it gives the address.               *)
LEMMA PackedAddress ==
  ASSUME NEW d \in Legal
  PROVE  /\ Unpacked(Packed(d)) = [pad |-> d.pad, sad |-> d.sad]
         /\ addressIsValid(Packed(d))
<1>1. d.pad \in 0 .. 30 /\ d.sad \in -1 .. 30
  BY LegalAddress
<1>2. extractPAD(Packed(d)) = d.pad
  <2>1. d.pad % 256 = d.pad
    BY <1>1
  <2>2. CASE d.sad >= 0
    <3>1. Packed(d) = d.pad + 256 * (d.sad + 96)
      BY <1>1, <2>1, <2>2, AddressBytes DEF Packed, packAddress
    <3>2. Packed(d) % 256 = d.pad
      BY <3>1, <1>1
    <3>3. QED
      BY <3>2, <1>1 DEF extractPAD, gpib_addr_max
  <2>3. CASE ~(d.sad >= 0)
    <3>1. Packed(d) = d.pad
      BY <1>1, <2>1, <2>3 DEF Packed, packAddress
    <3>2. QED
      BY <3>1, <2>1, <1>1 DEF extractPAD, gpib_addr_max
  <2>4. QED
    BY <2>2, <2>3
<1>3. extractSAD(Packed(d)) = d.sad
  <2>1. d.pad % 256 = d.pad
    BY <1>1
  <2>2. CASE d.sad >= 0
    <3>1. Packed(d) = d.pad + 256 * (d.sad + 96)
      BY <1>1, <2>1, <2>2, AddressBytes DEF Packed, packAddress
    <3>2. (Packed(d) \div 256) % 256 = d.sad + 96
      BY <3>1, <1>1, <2>2
    <3>3. /\ (d.sad + 96) % 32 = d.sad /\ (d.sad + 96) \div 128 = 0
          /\ ((d.sad + 96) \div 32) % 4 = 3
      BY <1>1, <2>2
    <3>4. QED
      BY <3>2, <3>3, <1>1, <2>2 DEF extractSAD, gpib_addr_max, NO_SAD
  <2>3. CASE ~(d.sad >= 0)
    <3>1. Packed(d) = d.pad /\ d.sad = -1
      BY <1>1, <2>1, <2>3 DEF Packed, packAddress
    <3>2. (Packed(d) \div 256) % 256 = 0
      BY <3>1, <1>1
    <3>3. QED
      BY <3>1, <3>2 DEF extractSAD, NO_SAD, SAD_DISABLED
  <2>4. QED
    BY <2>2, <2>3
<1>4. QED
  BY <1>1, <1>2, <1>3 DEF Unpacked, addressIsValid, ADDR_INVALID

(* An address that ibconfig left out of range is not valid.                   *)
LEMMA MisnamedAddress ==
  ASSUME NEW d \in Misnamed
  PROVE  ~addressIsValid(Packed(d)) /\ d \notin Legal
<1>1. d.pad \in 31 .. 255 /\ d.sad = -1
  BY TransfersAssumption DEF gpib_addr_max
<1>2. Packed(d) = d.pad /\ d.pad % 256 = d.pad
  BY <1>1 DEF Packed, packAddress
<1>3. QED
  BY <1>1, <1>2 DEF addressIsValid, extractPAD, gpib_addr_max, Legal

(* Two parties of one primary address differ in their secondary addresses.    *)
LEMMA PartiesDiffer ==
  ASSUME NEW p \in Parties, NEW d \in Parties, p # d, p.pad = d.pad
  PROVE  p.sad \in 0 .. 30 /\ d.sad \in 0 .. 30 /\ p.sad # d.sad
<1>1. p \in Legal /\ d \in Legal
  BY TransfersAssumption DEF Parties
<1>2. p.sad >= 0 /\ d.sad >= 0
  BY TransfersAssumption DEF Parties
<1>3. p.sad # d.sad
  BY <1>1 DEF Legal
<1>4. QED
  BY <1>1, <1>2, <1>3, LegalAddress

(* Every party has a legal address.                                          *)
LEMMA PartyLegal ==
  ASSUME NEW p \in Parties
  PROVE  p \in Legal
BY TransfersAssumption DEF Parties

(* The address bytes of a party, as numbers.                                 *)
LEMMA PartyBytes ==
  ASSUME NEW p \in Parties
  PROVE  /\ p.pad \in 0 .. 30
         /\ MLA(p.pad) = p.pad + 32 /\ MLA(p.pad) \in Nat
         /\ MTA(p.pad) = p.pad + 64 /\ MTA(p.pad) \in Nat
         /\ p.sad >= 0 => MSA(p.sad) = p.sad + 96 /\ MSA(p.sad) \in Nat
<1>1. p.pad \in 0 .. 30 /\ (p.sad >= 0 => p.sad \in 0 .. 30)
  BY PartyLegal, LegalAddress
<1>2. QED
  BY <1>1, AddressBytes

-----------------------------------------------------------------------------
(* What a string of command bytes does.                                      *)

Roles == [listens : BOOLEAN, talks : BOOLEAN, primary : {"none", "listen", "talk"}]

(* The roles of party p after 0 .. n bytes of the string s.                  *)
Run(p, role, r, s, n) ==
  role = [i \in 0 .. n |-> IF i = 0 THEN r ELSE Hear(p, role[i - 1], s[i])]

(* There are such roles, for a string of any length.                         *)
LEMMA RunExists ==
  ASSUME NEW p, NEW r, NEW s
  PROVE  \A n \in Nat : \E role : Run(p, role, r, s, n)
<1> DEFINE T == {n \in Nat : \E role : Run(p, role, r, s, n)}
<1>1. 0 \in T
  <2> DEFINE role == [i \in 0 .. 0 |-> r]
  <2>1. Run(p, role, r, s, 0)
    BY DEF Run
  <2>2. QED
    BY <2>1
<1>2. ASSUME NEW n \in T PROVE n + 1 \in T
  <2>1. PICK role : Run(p, role, r, s, n)
    OBVIOUS
  <2> DEFINE next == [i \in 0 .. n + 1 |->
                        IF i = n + 1 THEN Hear(p, role[n], s[n + 1]) ELSE role[i]]
  <2>2. \A i \in 0 .. n + 1 :
          next[i] = IF i = 0 THEN r ELSE Hear(p, next[i - 1], s[i])
    BY <2>1 DEF Run
  <2>3. Run(p, next, r, s, n + 1)
    BY <2>2 DEF Run
  <2>4. QED
    BY <2>3
<1>3. QED
  <2> HIDE DEF T
  <2>1. T = Nat
    BY <1>1, <1>2, Induct DEF T
  <2>2. QED
    BY <2>1 DEF T

(* The roles after the first bytes do not depend on the byte that follows.   *)
Prolongs(p, r, role, s, longer, u, n) ==
  /\ Run(p, role, r, s, n)
  /\ Run(p, longer, r, u, n + 1)
  /\ \A i \in 1 .. n : u[i] = s[i]

(* Two such runs agree as long as their strings do.                          *)
LEMMA RunPrefix ==
  ASSUME NEW n \in Nat, NEW p, NEW r, NEW role, NEW s, NEW longer, NEW u,
         Prolongs(p, r, role, s, longer, u, n)
  PROVE  role[n] = longer[n]
<1> DEFINE T == {i \in Nat : i \in 0 .. n => role[i] = longer[i]}
<1>1. 0 \in T
  BY DEF Prolongs, Run
<1>2. ASSUME NEW i \in T PROVE i + 1 \in T
  <2>1. SUFFICES ASSUME i + 1 \in 0 .. n PROVE role[i + 1] = longer[i + 1]
    OBVIOUS
  <2>2. /\ i \in 0 .. n /\ role[i] = longer[i] /\ i + 1 # 0 /\ (i + 1) - 1 = i
        /\ i + 1 \in 1 .. n /\ i + 1 \in 0 .. n + 1
    BY <2>1
  <2>3. /\ role[i + 1] = Hear(p, role[i], s[i + 1])
        /\ longer[i + 1] = Hear(p, longer[i], u[i + 1])
    BY <2>2, <2>1 DEF Prolongs, Run
  <2>4. QED
    BY <2>2, <2>3 DEF Prolongs
<1>3. QED
  <2> HIDE DEF T
  <2>1. T = Nat
    BY <1>1, <1>2, Induct DEF T
  <2>2. QED
    BY <2>1 DEF T

(* Hears is the last role of such a run.                                     *)
LEMMA HearsRun ==
  ASSUME NEW p, NEW r, NEW s, Len(s) \in Nat
  PROVE  \E role : Run(p, role, r, s, Len(s)) /\ Hears(p, r, s) = role[Len(s)]
<1> DEFINE role == CHOOSE g : Run(p, g, r, s, Len(s))
<1>1. Run(p, role, r, s, Len(s))
  BY RunExists, Zenon
<1>2. Hears(p, r, s) = role[Len(s)]
  BY Zenon DEF Hears, Run
<1>3. QED
  BY <1>1, <1>2

(* A string of no bytes leaves the role as it is.                            *)
LEMMA HearsNone ==
  ASSUME NEW p, NEW r
  PROVE  Hears(p, r, <<>>) = r
<1>1. Len(<<>>) = 0
  OBVIOUS
<1>2. PICK role : Run(p, role, r, <<>>, 0) /\ Hears(p, r, <<>>) = role[0]
  BY <1>1, HearsRun
<1>3. QED
  BY <1>2 DEF Run

(* One more byte.                                                            *)
LEMMA HearsNext ==
  ASSUME NEW S, NEW s \in Seq(S), NEW byte \in S, NEW p, NEW r
  PROVE  Hears(p, r, Append(s, byte)) = Hear(p, Hears(p, r, s), byte)
<1> DEFINE u == Append(s, byte)
<1> DEFINE n == Len(s)
<1>1. /\ n \in Nat /\ Len(u) = n + 1 /\ u[n + 1] = byte
      /\ \A i \in 1 .. n : u[i] = s[i]
  OBVIOUS
<1> HIDE DEF u
<1>2. PICK role : Run(p, role, r, s, n) /\ Hears(p, r, s) = role[n]
  BY <1>1, HearsRun
<1>3. PICK longer : Run(p, longer, r, u, n + 1) /\ Hears(p, r, u) = longer[n + 1]
  <2>1. Len(u) \in Nat
    BY <1>1
  <2>2. QED
    BY <1>1, <2>1, HearsRun
<1>4. role[n] = longer[n]
  <2> HIDE DEF n
  <2>1. Prolongs(p, r, role, s, longer, u, n)
    BY <1>1, <1>2, <1>3 DEF Prolongs
  <2>2. QED
    BY <1>1, <2>1, RunPrefix
<1>5. longer[n + 1] = Hear(p, longer[n], u[n + 1])
  <2> HIDE DEF n
  <2>1. n + 1 \in 0 .. n + 1 /\ n + 1 # 0 /\ (n + 1) - 1 = n
    BY <1>1
  <2>2. QED
    BY <1>3, <2>1 DEF Run
<1>6. QED
  BY <1>1, <1>2, <1>3, <1>4, <1>5 DEF u

(* A party always has a role.                                                *)
LEMMA HearType ==
  ASSUME NEW p, NEW r \in Roles, NEW byte
  PROVE  Hear(p, r, byte) \in Roles
<1>1. HearSecondary(p, r, byte) \in Roles
  BY DEF HearSecondary, Roles, Listening, Talking
<1>2. HearPrimary(p, r, byte) \in Roles
  BY DEF HearPrimary, Roles, Listening, Talking
<1>3. QED
  BY <1>1, <1>2 DEF Hear

(* A party has a role after any string.                                      *)
LEMMA HearsType ==
  ASSUME NEW p, NEW r \in Roles, NEW s, Len(s) \in Nat
  PROVE  Hears(p, r, s) \in Roles
<1>1. PICK role : Run(p, role, r, s, Len(s)) /\ Hears(p, r, s) = role[Len(s)]
  BY HearsRun
<1> DEFINE n == Len(s)
<1> HIDE DEF n
<1> DEFINE T == {i \in Nat : i \in 0 .. n => role[i] \in Roles}
<1>2. 0 \in T
  BY <1>1 DEF Run, n
<1>3. ASSUME NEW i \in T PROVE i + 1 \in T
  <2>1. SUFFICES ASSUME i + 1 \in 0 .. n PROVE role[i + 1] \in Roles
    OBVIOUS
  <2>2. i \in 0 .. n /\ role[i] \in Roles /\ i + 1 # 0 /\ (i + 1) - 1 = i
    BY <2>1 DEF n
  <2>3. role[i + 1] = Hear(p, role[i], s[i + 1])
    BY <1>1, <2>2, <2>1 DEF Run, n
  <2>4. QED
    BY <2>2, <2>3, HearType
<1>4. QED
  <2> HIDE DEF T
  <2>1. T = Nat
    BY <1>2, <1>3, Induct DEF T
  <2>2. QED
    BY <1>1, <2>1 DEF T, n

-----------------------------------------------------------------------------
(* One address, heard by one party.                                          *)

(* What a party makes of the listen address of a party.                      *)
LEMMA HearListenByte ==
  ASSUME NEW p \in Parties, NEW d \in Parties, NEW r \in Roles
  PROVE  Hear(p, r, MLA(d.pad)) =
           IF p.pad # d.pad THEN [r EXCEPT !.primary = "none"]
           ELSE IF Extended(p) THEN [r EXCEPT !.primary = "listen"]
           ELSE Listening(r)
<1>1. p.pad \in 0 .. 30 /\ d.pad \in 0 .. 30
  BY PartyLegal, LegalAddress
<1>2. /\ MLA(d.pad) = d.pad + 32 /\ MLA(p.pad) = p.pad + 32 /\ MTA(p.pad) = p.pad + 64
  BY <1>1, AddressBytes
<1>3. cmd_byte.SAD = 96 /\ cmd_byte.UNL = 63 /\ cmd_byte.TAD = 64 /\ cmd_byte.UNT = 95
  BY DEF cmd_byte
<1>4. QED
  BY <1>1, <1>2, <1>3 DEF Hear, HearPrimary

(* What a party makes of the talk address of a party.                        *)
LEMMA HearTalkByte ==
  ASSUME NEW p \in Parties, NEW d \in Parties, NEW r \in Roles
  PROVE  Hear(p, r, MTA(d.pad)) =
           IF p.pad # d.pad THEN [r EXCEPT !.talks = FALSE, !.primary = "none"]
           ELSE IF Extended(p) THEN [r EXCEPT !.primary = "talk"]
           ELSE Talking(r)
<1>1. p.pad \in 0 .. 30 /\ d.pad \in 0 .. 30
  BY PartyLegal, LegalAddress
<1>2. /\ MTA(d.pad) = d.pad + 64 /\ MLA(p.pad) = p.pad + 32 /\ MTA(p.pad) = p.pad + 64
  BY <1>1, AddressBytes
<1>3. cmd_byte.SAD = 96 /\ cmd_byte.UNL = 63 /\ cmd_byte.TAD = 64 /\ cmd_byte.UNT = 95
  BY DEF cmd_byte
<1>4. QED
  BY <1>1, <1>2, <1>3 DEF Hear, HearPrimary

(* What a party makes of a secondary address.                                *)
LEMMA HearSecondaryByte ==
  ASSUME NEW p \in Parties, NEW d \in Parties, NEW r \in Roles, d.sad >= 0
  PROVE  Hear(p, r, MSA(d.sad)) = HearSecondary(p, r, MSA(d.sad))
<1>1. d.sad \in 0 .. 30
  BY PartyLegal, LegalAddress
<1>2. MSA(d.sad) = d.sad + 96 /\ cmd_byte.SAD = 96
  BY <1>1, AddressBytes DEF cmd_byte
<1>3. QED
  BY <1>1, <1>2 DEF Hear

(* Another party with this primary address does not answer to the secondary  *)
(* one.                                                                      *)
LEMMA SecondaryDiffers ==
  ASSUME NEW p \in Parties, NEW d \in Parties, p # d, p.pad = d.pad
  PROVE  p.sad >= 0 /\ d.sad >= 0 /\ MSA(d.sad) # MSA(p.sad)
<1>1. p.sad \in 0 .. 30 /\ d.sad \in 0 .. 30 /\ p.sad # d.sad
  BY PartiesDiffer
<1>2. MSA(d.sad) = d.sad + 96 /\ MSA(p.sad) = p.sad + 96
  BY <1>1, AddressBytes
<1>3. QED
  BY <1>1, <1>2

(* Both bytes of an address, or the only one.                                *)
HearAddress(p, r, byte, d) ==
  IF d.sad >= 0 THEN Hear(p, Hear(p, r, byte), MSA(d.sad)) ELSE Hear(p, r, byte)

(* A listen address makes its party a listener and leaves the others as they  *)
(* are.                                                                      *)
AlsoListens(p, r, z, d) ==
  /\ z \in Roles
  /\ z.listens <=> (r.listens \/ p = d)
  /\ z.talks <=> (r.talks /\ p # d)

(* Hear does that, byte by byte.                                             *)
LEMMA HearListenAddress ==
  ASSUME NEW p \in Parties, NEW d \in Parties, NEW r \in Roles
  PROVE  AlsoListens(p, r, HearAddress(p, r, MLA(d.pad), d), d)
<1> DEFINE z == HearAddress(p, r, MLA(d.pad), d)
<1> SUFFICES AlsoListens(p, r, z, d)
  OBVIOUS
<1> USE DEF AlsoListens
<1> DEFINE q == Hear(p, r, MLA(d.pad))
<1>1. q \in Roles /\ z \in Roles
  BY HearType DEF HearAddress
<1> HIDE DEF z
<1>2. CASE p = d
  <2>1. CASE d.sad >= 0
    <3>1. q = [r EXCEPT !.primary = "listen"]
      BY <1>2, <2>1, HearListenByte DEF Extended
    <3>2. z = HearSecondary(p, q, MSA(p.sad))
      BY <1>1, <1>2, <2>1, HearSecondaryByte DEF z, HearAddress
    <3> HIDE DEF q
    <3>3. z = [Listening(q) EXCEPT !.primary = "listen"]
      BY <3>1, <3>2 DEF HearSecondary, Roles
    <3>4. QED
      BY <1>1, <1>2, <3>3 DEF Listening, Roles
  <2>2. CASE ~(d.sad >= 0)
    <3>1. z = Listening(r)
      BY <1>2, <2>2, HearListenByte DEF z, Extended, HearAddress
    <3>2. QED
      BY <1>1, <1>2, <3>1 DEF Listening, Roles
  <2>3. QED
    BY <2>1, <2>2
<1>3. CASE p # d /\ p.pad = d.pad
  <2>1. /\ p.sad >= 0 /\ d.sad >= 0 /\ MSA(d.sad) # MSA(p.sad)
    BY <1>3, SecondaryDiffers
  <2>2. q = [r EXCEPT !.primary = "listen"]
    BY <1>3, <2>1, HearListenByte DEF Extended
  <2>3. z = HearSecondary(p, q, MSA(d.sad))
    BY <1>1, <2>1, HearSecondaryByte DEF z, HearAddress
  <2> HIDE DEF q
  <2>4. z = q
    BY <2>1, <2>2, <2>3 DEF HearSecondary, Roles
  <2>5. QED
    BY <1>1, <1>3, <2>2, <2>4 DEF Roles
<1>4. CASE p.pad # d.pad
  <2>1. q = [r EXCEPT !.primary = "none"]
    BY <1>4, HearListenByte
  <2>2. z = q \/ z = HearSecondary(p, q, MSA(d.sad))
    BY <1>1, HearSecondaryByte DEF z, HearAddress
  <2> HIDE DEF q
  <2>3. z = q
    BY <2>1, <2>2 DEF HearSecondary, Roles
  <2>4. QED
    BY <1>1, <1>4, <2>1, <2>3 DEF Roles
<1>5. QED
  BY <1>2, <1>3, <1>4

(* A talk address makes its party the only talker.                           *)
OnlyTalks(p, r, z, d) ==
  /\ z \in Roles
  /\ z.listens <=> (r.listens /\ p # d)
  /\ z.talks <=> p = d

(* Hear does that for a talk address.                                        *)
LEMMA HearTalkAddress ==
  ASSUME NEW p \in Parties, NEW d \in Parties, NEW r \in Roles
  PROVE  OnlyTalks(p, r, HearAddress(p, r, MTA(d.pad), d), d)
<1> DEFINE z == HearAddress(p, r, MTA(d.pad), d)
<1> SUFFICES OnlyTalks(p, r, z, d)
  OBVIOUS
<1> USE DEF OnlyTalks
<1> DEFINE q == Hear(p, r, MTA(d.pad))
<1>1. q \in Roles /\ z \in Roles
  BY HearType DEF HearAddress
<1> HIDE DEF z
<1>2. CASE p = d
  <2>1. CASE d.sad >= 0
    <3>1. q = [r EXCEPT !.primary = "talk"]
      BY <1>2, <2>1, HearTalkByte DEF Extended
    <3>2. z = HearSecondary(p, q, MSA(p.sad))
      BY <1>1, <1>2, <2>1, HearSecondaryByte DEF z, HearAddress
    <3> HIDE DEF q
    <3>3. z = [Talking(q) EXCEPT !.primary = "talk"]
      BY <3>1, <3>2 DEF HearSecondary, Roles
    <3>4. QED
      BY <1>1, <1>2, <3>3 DEF Talking, Roles
  <2>2. CASE ~(d.sad >= 0)
    <3>1. z = Talking(r)
      BY <1>2, <2>2, HearTalkByte DEF z, Extended, HearAddress
    <3>2. QED
      BY <1>1, <1>2, <3>1 DEF Talking, Roles
  <2>3. QED
    BY <2>1, <2>2
<1>3. CASE p # d /\ p.pad = d.pad
  <2>1. /\ p.sad >= 0 /\ d.sad >= 0 /\ MSA(d.sad) # MSA(p.sad)
    BY <1>3, SecondaryDiffers
  <2>2. q = [r EXCEPT !.primary = "talk"]
    BY <1>3, <2>1, HearTalkByte DEF Extended
  <2>3. z = HearSecondary(p, q, MSA(d.sad))
    BY <1>1, <2>1, HearSecondaryByte DEF z, HearAddress
  <2> HIDE DEF q
  <2>4. z = [q EXCEPT !.talks = FALSE]
    BY <2>1, <2>2, <2>3 DEF HearSecondary, Roles
  <2>5. QED
    BY <1>1, <1>3, <2>2, <2>4 DEF Roles
<1>4. CASE p.pad # d.pad
  <2>1. q = [r EXCEPT !.talks = FALSE, !.primary = "none"]
    BY <1>4, HearTalkByte
  <2>2. z = q \/ z = HearSecondary(p, q, MSA(d.sad))
    BY <1>1, HearSecondaryByte DEF z, HearAddress
  <2> HIDE DEF q
  <2>3. z = q
    BY <2>1, <2>2 DEF HearSecondary, Roles
  <2>4. QED
    BY <1>1, <1>4, <2>1, <2>3 DEF Roles
<1>5. QED
  BY <1>2, <1>3, <1>4

-----------------------------------------------------------------------------
(* Strings, heard by the whole bus.                                          *)

Stands(p, z, L, T) == z \in Roles /\ (z.listens <=> p \in L) /\ (z.talks <=> p \in T)

(* The string s leaves, from the roles r0, the listeners L and the talkers T. *)
Leaves(r0, s, L, T) ==
  /\ s \in Seq(Nat)
  /\ \A p \in Parties : Stands(p, Hears(p, r0[p], s), L, T)

(* One or two bytes more at the end of a string.                             *)
LEMMA Appended ==
  ASSUME NEW S, NEW s \in Seq(S), NEW a \in S, NEW b \in S
  PROVE  /\ s \o <<a>> = Append(s, a) /\ Append(s, a) \in Seq(S)
         /\ s \o (<<a>> \o <<>>) = Append(s, a)
         /\ s \o (<<a>> \o <<b>>) = Append(Append(s, a), b)
         /\ Append(Append(s, a), b) \in Seq(S)
OBVIOUS

(* A primary address byte and its secondary one, after the string s.         *)
WithAddress(s, byte, d) == s \o (<<byte>> \o Secondary(d.sad))

(* The address is heard byte by byte.                                        *)
LEMMA HearsAddress ==
  ASSUME NEW s \in Seq(Nat), NEW p \in Parties, NEW r, NEW d \in Parties, NEW byte \in Nat
  PROVE  /\ WithAddress(s, byte, d) \in Seq(Nat)
         /\ Hears(p, r, WithAddress(s, byte, d)) = HearAddress(p, Hears(p, r, s), byte, d)
<1> DEFINE u == s \o (<<byte>> \o Secondary(d.sad))
<1> SUFFICES u \in Seq(Nat) /\ Hears(p, r, u) = HearAddress(p, Hears(p, r, s), byte, d)
  BY DEF WithAddress
<1>1. CASE d.sad >= 0
  <2>1. MSA(d.sad) \in Nat
    BY <1>1, PartyBytes
  <2>2. u = Append(Append(s, byte), MSA(d.sad)) /\ Append(s, byte) \in Seq(Nat)
    BY <1>1, <2>1, Appended DEF Secondary
  <2>3. Append(Append(s, byte), MSA(d.sad)) \in Seq(Nat)
    BY <2>1, <2>2, Appended
  <2>4. Hears(p, r, u) = Hear(p, Hears(p, r, Append(s, byte)), MSA(d.sad))
    BY <2>1, <2>2, HearsNext
  <2>5. Hears(p, r, Append(s, byte)) = Hear(p, Hears(p, r, s), byte)
    BY HearsNext
  <2>6. QED
    BY <1>1, <2>2, <2>3, <2>4, <2>5 DEF HearAddress
<1>2. CASE ~(d.sad >= 0)
  <2>1. u = Append(s, byte) /\ Append(s, byte) \in Seq(Nat)
    BY <1>2, Appended DEF Secondary
  <2>2. QED
    BY <1>2, <2>1, HearsNext DEF HearAddress
<1>3. QED
  BY <1>1, <1>2

(* Before the first byte the listeners and talkers are those of before.      *)
LEMMA LeavesAtFirst ==
  ASSUME NEW r0 \in [Parties -> Roles]
  PROVE  Leaves(r0, <<>>, Listeners(r0), Talkers(r0))
<1>1. <<>> \in Seq(Nat)
  OBVIOUS
<1>2. ASSUME NEW p \in Parties
      PROVE  Stands(p, Hears(p, r0[p], <<>>), Listeners(r0), Talkers(r0))
  BY HearsNone DEF Stands, Listeners, Talkers
<1>3. QED
  BY <1>1, <1>2 DEF Leaves

(* A listen address adds its party to the listeners.                         *)
LEMMA LeavesListening ==
  ASSUME NEW r0, NEW s, NEW L, NEW T, Leaves(r0, s, L, T), NEW d \in Parties
  PROVE  Leaves(r0, s \o ListenAddress(d), L \union {d}, T \ {d})
<1> DEFINE u == s \o ListenAddress(d)
<1>1. s \in Seq(Nat) /\ MLA(d.pad) \in Nat
  BY PartyBytes DEF Leaves
<1>2. u = WithAddress(s, MLA(d.pad), d)
  BY DEF ListenAddress, WithAddress
<1> HIDE DEF u
<1>3. ASSUME NEW p \in Parties
      PROVE  u \in Seq(Nat) /\ Stands(p, Hears(p, r0[p], u), L \union {d}, T \ {d})
  <2> DEFINE r == Hears(p, r0[p], s)
  <2> DEFINE z == Hears(p, r0[p], u)
  <2>1. u \in Seq(Nat) /\ z = HearAddress(p, r, MLA(d.pad), d)
    BY <1>1, <1>2, HearsAddress
  <2>2. Stands(p, r, L, T) /\ r \in Roles
    BY DEF Leaves, Stands
  <2> HIDE DEF r, z
  <2>3. AlsoListens(p, r, z, d)
    BY <2>1, <2>2, HearListenAddress
  <2>4. Stands(p, z, L \union {d}, T \ {d})
    BY <2>2, <2>3 DEF Stands, AlsoListens
  <2>5. QED
    BY <2>1, <2>4 DEF z
<1>4. QED
  BY <1>3 DEF Leaves, u

(* A talk address leaves its party as the only talker.                       *)
LEMMA LeavesTalking ==
  ASSUME NEW r0, NEW s, NEW L, NEW T, Leaves(r0, s, L, T), NEW d \in Parties
  PROVE  Leaves(r0, s \o TalkAddress(d), L \ {d}, {d})
<1> DEFINE u == s \o TalkAddress(d)
<1>1. s \in Seq(Nat) /\ MTA(d.pad) \in Nat
  BY PartyBytes DEF Leaves
<1>2. u = WithAddress(s, MTA(d.pad), d)
  BY DEF TalkAddress, WithAddress
<1> HIDE DEF u
<1>3. ASSUME NEW p \in Parties
      PROVE  u \in Seq(Nat) /\ Stands(p, Hears(p, r0[p], u), L \ {d}, {d})
  <2> DEFINE r == Hears(p, r0[p], s)
  <2> DEFINE z == Hears(p, r0[p], u)
  <2>1. u \in Seq(Nat) /\ z = HearAddress(p, r, MTA(d.pad), d)
    BY <1>1, <1>2, HearsAddress
  <2>2. Stands(p, r, L, T) /\ r \in Roles
    BY DEF Leaves, Stands
  <2> HIDE DEF r, z
  <2>3. OnlyTalks(p, r, z, d)
    BY <2>1, <2>2, HearTalkAddress
  <2>4. Stands(p, z, L \ {d}, {d})
    BY <2>2, <2>3 DEF Stands, OnlyTalks
  <2>5. QED
    BY <2>1, <2>4 DEF z
<1>4. QED
  BY <1>3 DEF Leaves, u

(* One more byte of which it is known what each party makes of it.           *)
LEMMA LeavesByte ==
  ASSUME NEW r0, NEW s, NEW L, NEW T, Leaves(r0, s, L, T), NEW byte \in Nat, NEW K,
         \A p \in Parties : \A r \in Roles :
           Stands(p, r, L, T) => Stands(p, Hear(p, r, byte), K, T)
  PROVE  Leaves(r0, Append(s, byte), K, T) /\ s \o <<byte>> = Append(s, byte)
<1>1. s \in Seq(Nat) /\ Append(s, byte) \in Seq(Nat) /\ s \o <<byte>> = Append(s, byte)
  BY Appended DEF Leaves
<1>2. ASSUME NEW p \in Parties
      PROVE  Stands(p, Hears(p, r0[p], Append(s, byte)), K, T)
  <2>1. Hears(p, r0[p], Append(s, byte)) = Hear(p, Hears(p, r0[p], s), byte)
    BY <1>1, HearsNext
  <2>2. Stands(p, Hears(p, r0[p], s), L, T) /\ Hears(p, r0[p], s) \in Roles
    BY DEF Leaves, Stands
  <2>3. QED
    BY <2>1, <2>2
<1>3. QED
  BY <1>1, <1>2 DEF Leaves

(* Unlisten, heard by any party.                                             *)
LEMMA HearUnlisten ==
  ASSUME NEW p \in Parties, NEW r \in Roles
  PROVE  Hear(p, r, 63) = [r EXCEPT !.listens = FALSE, !.primary = "none"]
BY PartyBytes DEF Hear, HearPrimary, cmd_byte

(* Unlisten leaves no listener and every talker.                             *)
LEMMA LeavesUnlistened ==
  ASSUME NEW r0, NEW s, NEW L, NEW T, Leaves(r0, s, L, T)
  PROVE  Leaves(r0, s \o <<cmd_byte.UNL>>, {}, T)
<1>1. cmd_byte.UNL = 63
  BY DEF cmd_byte
<1>2. ASSUME NEW p \in Parties, NEW r \in Roles, Stands(p, r, L, T)
      PROVE  Stands(p, Hear(p, r, 63), {}, T)
  <2>1. Hear(p, r, 63) = [r EXCEPT !.listens = FALSE, !.primary = "none"]
    BY HearUnlisten
  <2>2. QED
    BY <1>2, <2>1 DEF Stands, Roles
<1>3. Leaves(r0, Append(s, 63), {}, T) /\ s \o <<63>> = Append(s, 63)
  <2>1. \A p \in Parties : \A r \in Roles :
          Stands(p, r, L, T) => Stands(p, Hear(p, r, 63), {}, T)
    BY <1>2
  <2>2. 63 \in Nat
    OBVIOUS
  <2>3. QED
    BY <2>1, <2>2, LeavesByte
<1>4. QED
  BY <1>1, <1>3

(* A command for the listeners does not change who they are.                 *)
LEMMA HearCommand ==
  ASSUME NEW p \in Parties, NEW r \in Roles, NEW byte \in {1, 4, 8, 20}
  PROVE  Hear(p, r, byte) = [r EXCEPT !.primary = "none"]
<1>1. p.pad \in 0 .. 30
  BY PartyLegal, LegalAddress
<1>2. MLA(p.pad) = p.pad + 32 /\ MTA(p.pad) = p.pad + 64
  BY <1>1, AddressBytes
<1>3. cmd_byte.SAD = 96 /\ cmd_byte.UNL = 63 /\ cmd_byte.TAD = 64 /\ cmd_byte.UNT = 95
  BY DEF cmd_byte
<1>4. QED
  BY <1>1, <1>2, <1>3 DEF Hear, HearPrimary

(* So the command at the end of a string changes neither listeners nor       *)
(* talkers.                                                                  *)
LEMMA LeavesCommanded ==
  ASSUME NEW r0, NEW s, NEW L, NEW T, Leaves(r0, s, L, T), NEW byte \in {1, 4, 8, 20}
  PROVE  Leaves(r0, Append(s, byte), L, T)
<1>1. ASSUME NEW p \in Parties, NEW r \in Roles, Stands(p, r, L, T)
      PROVE  Stands(p, Hear(p, r, byte), L, T)
  <2>1. Hear(p, r, byte) = [r EXCEPT !.primary = "none"]
    BY HearCommand
  <2>2. QED
    BY <1>1, <2>1 DEF Stands, Roles
<1>2. QED
  <2>1. \A p \in Parties : \A r \in Roles :
          Stands(p, r, L, T) => Stands(p, Hear(p, r, byte), L, T)
    BY <1>1
  <2>2. byte \in Nat
    OBVIOUS
  <2>3. QED
    BY <2>1, <2>2, LeavesByte

-----------------------------------------------------------------------------
(* The setups of create_send_setup and InternalReceiveSetup.                 *)

(* Two addresses with the same number are the same.                          *)
LEMMA Encoded ==
  ASSUME NEW a \in 0 .. 30, NEW b \in 0 .. 30, NEW x \in -1 .. 30, NEW y \in -1 .. 30,
         32 * a + x + 1 = 32 * b + y + 1
  PROVE  a = b /\ x = y
OBVIOUS

(* Addresses are few, so that a set of instruments is finite.                *)
LEMMA InstrumentsFinite ==
  ASSUME NEW ds, ds \subseteq Instruments
  PROVE  IsFiniteSet(ds)
<1> DEFINE f == [d \in ds |-> 32 * d.pad + d.sad + 1]
<1>1. \A d \in ds : d.pad \in 0 .. 30 /\ d.sad \in -1 .. 30 /\ d \in Legal
  BY TransfersAssumption, LegalAddress
<1>2. f \in [ds -> 0 .. 1023]
  BY <1>1
<1>3. \A d, e \in ds : f[d] = f[e] => d = e
  <2>1. SUFFICES ASSUME NEW d \in ds, NEW e \in ds, f[d] = f[e] PROVE d = e
    OBVIOUS
  <2>2. d.pad = e.pad /\ d.sad = e.sad
    <3>1. 32 * d.pad + d.sad + 1 = 32 * e.pad + e.sad + 1
      BY <2>1
    <3>2. /\ d.pad \in 0 .. 30 /\ e.pad \in 0 .. 30
          /\ d.sad \in -1 .. 30 /\ e.sad \in -1 .. 30
      BY <1>1
    <3> DEFINE a == d.pad
    <3> DEFINE b == e.pad
    <3> DEFINE x == d.sad
    <3> DEFINE y == e.sad
    <3>3. a = b /\ x = y
      <4>1. /\ a \in 0 .. 30 /\ b \in 0 .. 30 /\ x \in -1 .. 30 /\ y \in -1 .. 30
            /\ 32 * a + x + 1 = 32 * b + y + 1
        BY <3>1, <3>2
      <4> HIDE DEF a, b, x, y
      <4>2. QED
        BY <4>1, Encoded
    <3>4. QED
      BY <3>3
  <2>3. QED
    BY <1>1, <2>2 DEF Legal
<1>4. f \in Injection(ds, 0 .. 1023)
  <2> HIDE DEF f
  <2>1. QED
    BY <1>2, <1>3 DEF Injection, IsInjective
<1>5. IsFiniteSet(0 .. 1023)
  <2> DEFINE top == 1023
  <2>1. 0 \in Int /\ top \in Int
    OBVIOUS
  <2> HIDE DEF top
  <2>2. IsFiniteSet(0 .. top)
    BY <2>1, FS_Interval
  <2>3. QED
    BY <2>2 DEF top
<1>6. QED
  BY <1>4, <1>5, FS_Injection

(* The list of a set of devices names each of them.                          *)
PackedList(e) == [i \in DOMAIN e |-> Packed(e[i])]

(* SetToSeq lists every member of a finite set.                              *)
LEMMA ListNamesAll ==
  ASSUME NEW ds, IsFiniteSet(ds)
  PROVE  \E e \in Seq(ds) :
           ListOf(ds) = PackedList(e) /\ {e[i] : i \in 1 .. Len(e)} = ds
<1> DEFINE n == Cardinality(ds)
<1> DEFINE e == SetToSeq(ds)
<1>1. IsFiniteSet(ds) /\ n \in Nat /\ ExistsBijection(1 .. n, ds)
  BY FS_CardinalityType
<1>2. e \in [1 .. n -> ds] /\ IsInjective(e)
  <2> HIDE DEF n
  <2>1. PICK f : f \in Bijection(1 .. n, ds)
    BY <1>1 DEF ExistsBijection
  <2>2. f \in [1 .. n -> ds] /\ IsInjective(f)
    BY <2>1 DEF Bijection, Injection, IsInjective
  <2>3. QED
    BY <2>2 DEF SetToSeq, n
<1>3. e \in Injection(1 .. n, ds)
  <2> HIDE DEF n, e
  <2>1. QED
    BY <1>2 DEF Injection, IsInjective
<1>4. IsFiniteSet(1 .. n) /\ Cardinality(1 .. n) = n
  <2> HIDE DEF n
  <2>1. 1 \in Int /\ n \in Int /\ n - 1 + 1 = n /\ (1 > n => n = 0)
    BY <1>1
  <2>2. QED
    BY <1>1, <2>1, FS_Interval
<1>5. e \in Surjection(1 .. n, ds)
  <2> HIDE DEF e
  <2>1. QED
    BY <1>1, <1>3, <1>4, FS_Injection
<1>6. {e[i] : i \in 1 .. n} = ds
  <2> HIDE DEF e, n
  <2>1. QED
    BY <1>2, <1>5 DEF Surjection
<1>7. e \in Seq(ds) /\ Len(e) = n
  <2> HIDE DEF e, n
  <2>1. QED
    BY <1>1, <1>2
<1>8. ListOf(ds) = PackedList(e)
  BY DEF ListOf, PackedList
<1>9. QED
  <2> HIDE DEF e, n
  <2>1. QED
    BY <1>6, <1>7, <1>8

(* create_send_setup appends the addresses of the list one by one.           *)
AddressRun(cmdString, setup, list, n) ==
  cmdString = [j \in 0 .. n |->
                 IF j = 0 THEN setup
                 ELSE cmdString[j - 1] \o ListenAddress(Unpacked(list[j]))]

(* There are such strings, for a list of any length.                         *)
LEMMA AddressRunExists ==
  ASSUME NEW setup, NEW list
  PROVE  \A n \in Nat : \E cmdString : AddressRun(cmdString, setup, list, n)
<1> DEFINE T == {n \in Nat : \E cmdString : AddressRun(cmdString, setup, list, n)}
<1>1. 0 \in T
  <2> DEFINE cmdString == [j \in 0 .. 0 |-> setup]
  <2>1. AddressRun(cmdString, setup, list, 0)
    BY DEF AddressRun
  <2>2. QED
    BY <2>1
<1>2. ASSUME NEW n \in T PROVE n + 1 \in T
  <2>1. PICK cmdString : AddressRun(cmdString, setup, list, n)
    OBVIOUS
  <2> DEFINE next == [j \in 0 .. n + 1 |->
                        IF j = n + 1
                        THEN cmdString[n] \o ListenAddress(Unpacked(list[n + 1]))
                        ELSE cmdString[j]]
  <2>2. \A j \in 0 .. n + 1 :
          next[j] = IF j = 0 THEN setup
                    ELSE next[j - 1] \o ListenAddress(Unpacked(list[j]))
    BY <2>1 DEF AddressRun
  <2>3. AddressRun(next, setup, list, n + 1)
    BY <2>2 DEF AddressRun
  <2>4. QED
    BY <2>3
<1>3. QED
  <2> HIDE DEF T
  <2>1. T = Nat
    BY <1>1, <1>2, Induct DEF T
  <2>2. QED
    BY <2>1 DEF T

(* ListenAddresses is the last of them.                                      *)
LEMMA AddressesRun ==
  ASSUME NEW setup, NEW list, Len(list) \in Nat
  PROVE  \E cmdString : /\ AddressRun(cmdString, setup, list, Len(list))
                        /\ ListenAddresses(setup, list) = cmdString[Len(list)]
<1> DEFINE cmdString == CHOOSE c : AddressRun(c, setup, list, Len(list))
<1>1. AddressRun(cmdString, setup, list, Len(list))
  BY AddressRunExists, Zenon
<1>2. ListenAddresses(setup, list) = cmdString[Len(list)]
  BY Zenon DEF ListenAddresses, AddressRun
<1>3. QED
  BY <1>1, <1>2

(* Packing and unpacking do not change the bytes of an address.              *)
LEMMA UnpackedListen ==
  ASSUME NEW d \in Legal
  PROVE  /\ ListenAddress(Unpacked(Packed(d))) = ListenAddress(d)
         /\ TalkAddress(Unpacked(Packed(d))) = TalkAddress(d)
BY PackedAddress DEF ListenAddress, TalkAddress

(* The instruments of the list become the listeners, and the board stays the  *)
(* talker.                                                                   *)
LEMMA LeavesAddressed ==
  ASSUME NEW r0, NEW setup, Leaves(r0, setup, {}, {Board}), NEW e \in Seq(Instruments)
  PROVE  Leaves(r0, ListenAddresses(setup, PackedList(e)), {e[i] : i \in 1 .. Len(e)}, {Board})
<1> DEFINE list == PackedList(e)
<1> DEFINE n == Len(e)
<1>1. n \in Nat /\ Len(list) = n /\ \A i \in 1 .. n : e[i] \in Instruments /\ list[i] = Packed(e[i])
  BY DEF PackedList
<1> HIDE DEF list, n
<1>2. PICK c : AddressRun(c, setup, list, n) /\ ListenAddresses(setup, list) = c[n]
  BY <1>1, AddressesRun
<1> DEFINE Named(j) == {e[i] : i \in 1 .. j}
<1> DEFINE T == {j \in Nat : j \in 0 .. n => Leaves(r0, c[j], Named(j), {Board})}
<1>3. 0 \in T
  <2>1. Named(0) = {}
    OBVIOUS
  <2>2. 0 \in 0 .. n => c[0] = setup
    BY <1>1, <1>2 DEF AddressRun
  <2>3. QED
    BY <2>1, <2>2
<1>4. ASSUME NEW j \in T PROVE j + 1 \in T
  <2>1. SUFFICES ASSUME j + 1 \in 0 .. n
                 PROVE  Leaves(r0, c[j + 1], Named(j + 1), {Board})
    OBVIOUS
  <2>2. /\ j \in Nat /\ j \in 0 .. n /\ j + 1 # 0 /\ (j + 1) - 1 = j /\ j + 1 \in 1 .. n
        /\ Leaves(r0, c[j], Named(j), {Board})
    BY <1>1, <2>1
  <2> DEFINE d == e[j + 1]
  <2>3. d \in Instruments /\ d \in Parties /\ d \in Legal /\ d # Board /\ list[j + 1] = Packed(d)
    BY <1>1, <2>2, TransfersAssumption DEF Parties
  <2>4. c[j + 1] = c[j] \o ListenAddress(Unpacked(list[j + 1]))
    BY <1>2, <2>1, <2>2 DEF AddressRun
  <2>5. Named(j + 1) = Named(j) \union {d}
    <3>1. 1 .. j + 1 = (1 .. j) \union {j + 1}
      BY <2>2
    <3>2. QED
      BY <3>1
  <2> HIDE DEF d, Named
  <2>6. c[j + 1] = c[j] \o ListenAddress(d)
    BY <2>3, <2>4, UnpackedListen
  <2>7. Leaves(r0, c[j] \o ListenAddress(d), Named(j) \union {d}, {Board} \ {d})
    BY <2>2, <2>3, LeavesListening
  <2>8. {Board} \ {d} = {Board}
    BY <2>3
  <2>9. QED
    BY <2>5, <2>6, <2>7, <2>8
<1>5. T = Nat
  <2> HIDE DEF T
  <2>1. QED
    BY <1>3, <1>4, Induct DEF T
<1>6. Leaves(r0, c[n], Named(n), {Board})
  <2>1. n \in T
    <3> HIDE DEF T
    <3>1. QED
      BY <1>1, <1>5
  <2> HIDE DEF Named
  <2>2. QED
    BY <1>1, <2>1
<1>7. QED
  BY <1>2, <1>6 DEF list, n

(* A talk address is a string of bytes.                                      *)
LEMMA AddressesAreStrings ==
  ASSUME NEW d \in Parties
  PROVE  <<>> \o TalkAddress(d) = TalkAddress(d)
<1>1. CASE d.sad >= 0
  BY <1>1, PartyBytes DEF TalkAddress, Secondary
<1>2. CASE ~(d.sad >= 0)
  BY <1>2, PartyBytes DEF TalkAddress, Secondary
<1>3. QED
  BY <1>1, <1>2

(* The board and the instruments are the parties of the bus.                 *)
LEMMA BoardIsParty == Board \in Parties /\ Instruments \subseteq Parties
BY DEF Parties

(* The setup of a write or a command: none, or one that leaves the named      *)
(* instruments as the listeners and the board as the talker.                 *)
LEMMA SetupLeaves ==
  ASSUME NEW r0 \in [Parties -> Roles], NEW e \in Seq(Instruments \union Misnamed),
         NEW bytes \in create_send_setup(PackedList(e)), bytes # <<>>
  PROVE  /\ {e[i] : i \in 1 .. Len(e)} \subseteq Instruments
         /\ Leaves(r0, bytes, {e[i] : i \in 1 .. Len(e)}, {Board})
<1> DEFINE list == PackedList(e)
<1>1. /\ \A i \in DOMAIN list : addressIsValid(list[i])
      /\ bytes = Setup(list)
  BY DEF create_send_setup
<1>2. \A i \in 1 .. Len(e) : e[i] \in Instruments
  <2>1. SUFFICES ASSUME NEW i \in 1 .. Len(e) PROVE e[i] \in Instruments
    OBVIOUS
  <2>2. addressIsValid(Packed(e[i])) /\ e[i] \in Instruments \union Misnamed
    BY <1>1 DEF PackedList
  <2>3. QED
    BY <2>2, MisnamedAddress
<1>3. e \in Seq(Instruments)
  BY <1>2
<1> DEFINE setup == TalkAddress(Board) \o <<cmd_byte.UNL>>
<1>4. Leaves(r0, setup, {}, {Board})
  <2>1. Leaves(r0, <<>>, Listeners(r0), Talkers(r0))
    BY LeavesAtFirst
  <2>2. Leaves(r0, TalkAddress(Board), Listeners(r0) \ {Board}, {Board})
    <3>1. Leaves(r0, <<>> \o TalkAddress(Board), Listeners(r0) \ {Board}, {Board})
      BY <2>1, BoardIsParty, LeavesTalking
    <3>2. <<>> \o TalkAddress(Board) = TalkAddress(Board)
      BY BoardIsParty, AddressesAreStrings
    <3>3. QED
      BY <3>1, <3>2
  <2>3. QED
    BY <2>2, LeavesUnlistened
<1>5. Leaves(r0, ListenAddresses(setup, list), {e[i] : i \in 1 .. Len(e)}, {Board})
  <2> HIDE DEF setup
  <2>1. QED
    BY <1>3, <1>4, LeavesAddressed
<1>6. bytes = ListenAddresses(setup, list)
  BY <1>1 DEF Setup
<1>7. QED
  BY <1>2, <1>5, <1>6

(* The setup of a read leaves the instrument as the talker and the board as   *)
(* the listener.                                                             *)
LEMMA ReceiveLeaves ==
  ASSUME NEW r0 \in [Parties -> Roles], NEW d \in Instruments
  PROVE  Leaves(r0, ReceiveSetup(Packed(d)), {Board}, {d})
<1>1. d \in Parties /\ d # Board /\ d \in Legal
  BY TransfersAssumption DEF Parties
<1>2. Leaves(r0, <<cmd_byte.UNL>>, {}, Talkers(r0))
  <2>1. Leaves(r0, <<>> \o <<cmd_byte.UNL>>, {}, Talkers(r0))
    BY LeavesAtFirst, LeavesUnlistened
  <2>2. <<>> \o <<cmd_byte.UNL>> = <<cmd_byte.UNL>>
    OBVIOUS
  <2>3. QED
    BY <2>1, <2>2
<1>3. Leaves(r0, <<cmd_byte.UNL>> \o ListenAddress(Board), {} \union {Board}, Talkers(r0) \ {Board})
  BY <1>2, BoardIsParty, LeavesListening
<1>4. Leaves(r0, (<<cmd_byte.UNL>> \o ListenAddress(Board)) \o TalkAddress(d),
             ({} \union {Board}) \ {d}, {d})
  BY <1>1, <1>3, LeavesTalking
<1>5. ({} \union {Board}) \ {d} = {Board}
  BY <1>1
<1>6. ReceiveSetup(Packed(d)) = (<<cmd_byte.UNL>> \o ListenAddress(Board)) \o TalkAddress(d)
  BY <1>1, UnpackedListen DEF ReceiveSetup
<1>7. QED
  BY <1>4, <1>5, <1>6

-----------------------------------------------------------------------------
(* Types.                                                                    *)
Texts == {"plain", "eos", "eos7"}
Signals == [byte : Texts \union {"newline"}, eoi : BOOLEAN]
Transferring == {"ibwrt", "SendList", "ibrd", "Receive"}
Commanding == {"ibclr", "ibloc", "trigger", "DevClearList"}
Calls == [what : {"none"} \union Transferring \union Commanding,
          to : SUBSET Devices, at : {"idle", "data", "over"},
          message : Seq(Texts), left : Seq(Texts),
          flags : SUBSET {"REOS", "XEOS", "BIN", "eos"},
          eot : BOOLEAN, newline : {"no", "due", "next", "sent"},
          blind : BOOLEAN, limited : BOOLEAN, miscounts : Nat, ret : {0, -1}]

TypeOK ==
  /\ roles \in [Parties -> Roles]
  /\ eos_mode \in {"none", "settings", "call"}
  /\ call \in Calls
  /\ heard \in [Instruments -> Seq(Signals)]
  /\ obeyed \subseteq Instruments

(* The bus after the first bytes of a string, and after all of it.           *)
LEMMA AfterSome ==
  ASSUME roles \in [Parties -> Roles], NEW bytes, NEW count \in Nat
  PROVE  After(SubSeq(bytes, 1, count)) \in [Parties -> Roles]
<1> DEFINE s == SubSeq(bytes, 1, count)
<1>1. Len(s) \in Nat
  OBVIOUS
<1> HIDE DEF s
<1>2. ASSUME NEW p \in Parties PROVE Hears(p, roles[p], s) \in Roles
  BY <1>1, HearsType
<1>3. QED
  BY <1>2 DEF After, s

(* All of a string leaves what is known of its listeners and talkers.        *)
LEMMA AfterAll ==
  ASSUME roles \in [Parties -> Roles], NEW bytes, NEW L \in SUBSET Parties,
         NEW T \in SUBSET Parties, Leaves(roles, bytes, L, T)
  PROVE  /\ SubSeq(bytes, 1, Len(bytes)) = bytes
         /\ Listeners(After(bytes)) = L /\ Talkers(After(bytes)) = T
<1>1. SubSeq(bytes, 1, Len(bytes)) = bytes
  BY DEF Leaves
<1>2. ASSUME NEW p \in Parties
      PROVE  (After(bytes)[p].listens <=> p \in L) /\ (After(bytes)[p].talks <=> p \in T)
  <2>1. After(bytes)[p] = Hears(p, roles[p], bytes)
    BY DEF After
  <2>2. Stands(p, Hears(p, roles[p], bytes), L, T)
    BY DEF Leaves
  <2>3. QED
    BY <2>1, <2>2 DEF Stands
<1>3. QED
  BY <1>1, <1>2 DEF Listeners, Talkers

-----------------------------------------------------------------------------
(* The kinds of steps.                                                       *)

(* The bus is used for something else.                                       *)
BusStep ==
  /\ Free
  /\ roles' \in [Parties -> Roles]
  /\ UNCHANGED <<eos_mode, call, heard, obeyed>>

(* A transfer begins: it has addressed the bus, or has failed to.            *)
BeginStep ==
  /\ Free
  /\ roles' \in [Parties -> Roles]
  /\ eos_mode' \in {"none", "settings", "call"}
  /\ call' \in Calls
  /\ call'.what \in Transferring
  /\ call'.left = call'.message
  /\ call'.newline \in {"no", "due"}
  /\ call'.newline = "due" => call'.what = "SendList" /\ ~call'.eot
  /\ call'.what = "SendList" => call'.flags = {}
  /\ call'.at \in {"data", "over"}
  /\ call'.at = "over" => call'.ret = -1
  /\ AddressedRight'
  /\ NoForeignEos'
  /\ UNCHANGED <<heard, obeyed>>

(* The three kinds of devices.                                               *)
LEMMA Devices3 ==
  /\ Devices = Instruments \union Misnamed \union {Board} /\ Parties \subseteq Devices
  /\ Board \notin Instruments /\ Board \notin Misnamed
<1>1. Board \notin Misnamed
  BY TransfersAssumption, MisnamedAddress
<1>2. QED
  BY <1>1, TransfersAssumption DEF Devices, Parties

(* A call that is over with nothing sent.                                    *)
IsOver(c, what, to, ret) ==
  /\ c \in Calls
  /\ c.what = what /\ c.to = to /\ c.at = "over" /\ c.ret = ret
  /\ c.left = c.message /\ c.left = <<>> /\ c.newline = "no" /\ c.flags = {}
  /\ c.eot = FALSE

(* A call that Ends builds is such a call.                                   *)
LEMMA OverCall ==
  ASSUME NEW what \in Transferring \union Commanding, NEW to \in SUBSET Devices,
         NEW ret \in {0, -1}, NEW blind \in BOOLEAN
  PROVE  /\ IsOver([Over EXCEPT !.what = what, !.to = to, !.ret = ret], what, to, ret)
         /\ IsOver([Over EXCEPT !.what = what, !.to = to, !.blind = blind, !.ret = ret],
                   what, to, ret)
<1>1. <<>> \in Seq(Texts) /\ {} \in SUBSET {"REOS", "XEOS", "BIN", "eos"}
  OBVIOUS
<1> DEFINE c == [Over EXCEPT !.what = what, !.to = to, !.ret = ret]
<1> DEFINE e == [Over EXCEPT !.what = what, !.to = to, !.blind = blind, !.ret = ret]
<1>2. c \in Calls /\ e \in Calls
  BY <1>1 DEF Calls, Over, Idle
<1>3. /\ c.what = what /\ c.to = to /\ c.at = "over" /\ c.ret = ret
      /\ c.left = c.message /\ c.left = <<>> /\ c.newline = "no" /\ c.flags = {}
      /\ c.eot = FALSE
  BY DEF Over, Idle
<1>4. /\ e.what = what /\ e.to = to /\ e.at = "over" /\ e.ret = ret
      /\ e.left = e.message /\ e.left = <<>> /\ e.newline = "no" /\ e.flags = {}
      /\ e.eot = FALSE
  BY DEF Over, Idle
<1> HIDE DEF c, e
<1>5. IsOver(c, what, to, ret) /\ IsOver(e, what, to, ret)
  BY <1>2, <1>3, <1>4 DEF IsOver
<1>6. QED
  BY <1>5 DEF c, e

(* A setup that is not checked any further.                                  *)
Proceeded(transfer, L, T) ==
  \/ call' = [Over EXCEPT !.what = transfer.what, !.to = transfer.to, !.ret = -1]
  \/ \E blind \in BOOLEAN :
       /\ call' = [transfer EXCEPT !.at = "data", !.left = transfer.message, !.blind = blind]
       /\ blind \/ (Listeners(roles') = L /\ Talkers(roles') = T)

Addresses(bytes, L, T) ==
  /\ L \in SUBSET Parties /\ T \in SUBSET Parties
  /\ bytes # <<>> => Leaves(roles, bytes, L, T)

(* Proceeds comes to one of the two.                                         *)
LEMMA ProceedsTo ==
  ASSUME TypeOK, NEW transfer, NEW bytes, NEW L, NEW T, Addresses(bytes, L, T),
         Proceeds(bytes, transfer)
  PROVE  roles' \in [Parties -> Roles] /\ Proceeded(transfer, L, T)
<1>1. PICK count \in 0 .. Len(bytes), failed \in BOOLEAN :
        /\ my_ibcmd(bytes, count, failed)
        /\ IF failed THEN Ends(transfer.what, transfer.to, -1)
           ELSE call' = [transfer EXCEPT !.at = "data", !.left = transfer.message,
                                         !.blind = (bytes = <<>> \/ count < Len(bytes))]
  BY DEF Proceeds
<1>2. Len(bytes) \in Nat /\ count \in Nat
  BY DEF Leaves, Addresses
<1>3. roles' = After(SubSeq(bytes, 1, count))
  BY <1>1 DEF my_ibcmd
<1>4. roles' \in [Parties -> Roles]
  BY <1>2, <1>3, AfterSome DEF TypeOK
<1>5. CASE failed
  BY <1>1, <1>4, <1>5 DEF Ends, Proceeded
<1>6. CASE ~failed
  <2> DEFINE blind == bytes = <<>> \/ count < Len(bytes)
  <2>1. call' = [transfer EXCEPT !.at = "data", !.left = transfer.message, !.blind = blind]
    BY <1>1, <1>6
  <2>2. ASSUME ~blind PROVE Listeners(roles') = L /\ Talkers(roles') = T
    <3>1. count = Len(bytes) /\ bytes # <<>>
      BY <1>2, <2>2
    <3>2. roles' = After(bytes)
      BY <1>3, <3>1, AfterAll DEF TypeOK, Addresses
    <3>3. QED
      BY <3>1, <3>2, AfterAll DEF TypeOK, Addresses
  <2>3. blind \in BOOLEAN
    OBVIOUS
  <2> HIDE DEF blind
  <2>4. QED
    BY <1>4, <2>1, <2>2, <2>3 DEF Proceeded
<1>7. QED
  BY <1>5, <1>6

(* The list of a single device.                                              *)
LEMMA SingleList ==
  ASSUME NEW d \in Instruments \union Misnamed
  PROVE  /\ <<d>> \in Seq(Instruments \union Misnamed)
         /\ <<Packed(d)>> = PackedList(<<d>>)
         /\ {<<d>>[i] : i \in 1 .. Len(<<d>>)} = {d}
<1>1. <<d>> \in Seq(Instruments \union Misnamed) /\ Len(<<d>>) = 1 /\ <<d>>[1] = d
      /\ DOMAIN <<d>> = 1 .. 1
  OBVIOUS
<1>2. 1 .. 1 = {1}
  OBVIOUS
<1>3. <<Packed(d)>> = PackedList(<<d>>)
  BY <1>1 DEF PackedList
<1>4. QED
  BY <1>1, <1>2, <1>3

(* ibwrt begins a transfer: the instrument listens and the board talks.      *)
LEMMA StepIbwrt ==
  ASSUME TypeOK, NEW d \in Devices, NEW message \in Messages, NEW flags \in Flags,
         NEW eot \in BOOLEAN, ibwrt(d, message, flags, eot)
  PROVE  BeginStep
<1> DEFINE limited == d \in Limited
<1> DEFINE transfer == [Idle EXCEPT !.what = "ibwrt", !.to = {d} \intersect Instruments,
                                    !.message = message, !.flags = flags, !.eot = eot,
                                    !.limited = limited]
<1>1. message \in Seq(Texts) /\ flags \subseteq {"REOS", "XEOS", "BIN"} /\ limited \in BOOLEAN
  BY TransfersAssumption DEF Texts
<1>2. Free /\ UNCHANGED <<eos_mode, heard, obeyed>> /\ eos_mode' \in {"none", "settings", "call"}
  BY DEF ibwrt, TypeOK
<1>3. CASE d = Board
  <2>1. /\ call' = [transfer EXCEPT !.to = Listeners(roles), !.at = "data",
                                    !.left = message, !.blind = TRUE]
        /\ UNCHANGED roles
    BY <1>3 DEF ibwrt
  <2>2. Listeners(roles) \in SUBSET Devices
    BY Devices3 DEF Listeners
  <2>3. call' \in Calls
    BY <1>1, <2>1, <2>2 DEF Calls, Idle, Transferring
  <2>4. /\ call'.what = "ibwrt" /\ call'.left = call'.message /\ call'.newline = "no"
        /\ call'.at = "data" /\ call'.blind
    BY <2>1 DEF Idle
  <2>5. AddressedRight'
    BY <2>4 DEF AddressedRight
  <2>6. QED
    BY <1>2, <2>1, <2>3, <2>4, <2>5 DEF BeginStep, NoForeignEos, TypeOK, Transferring
<1>4. CASE d # Board
  <2>1. d \in Instruments \union Misnamed
    BY <1>4, Devices3
  <2>2. PICK bytes \in create_send_setup(<<Packed(d)>>) : Proceeds(bytes, transfer)
    BY <1>4 DEF ibwrt
  <2>3. ASSUME bytes # <<>>
        PROVE  d \in Instruments /\ Leaves(roles, bytes, {d}, {Board})
    <3> DEFINE e == <<d>>
    <3>1. e \in Seq(Instruments \union Misnamed) /\ bytes \in create_send_setup(PackedList(e))
          /\ {e[i] : i \in 1 .. Len(e)} = {d}
      BY <2>1, SingleList
    <3> HIDE DEF e
    <3>2. /\ {e[i] : i \in 1 .. Len(e)} \subseteq Instruments
          /\ Leaves(roles, bytes, {e[i] : i \in 1 .. Len(e)}, {Board})
      BY <2>3, <3>1, SetupLeaves DEF TypeOK
    <3>3. QED
      BY <3>1, <3>2
  <2> DEFINE to == {d} \intersect Instruments
  <2>4. Addresses(bytes, to, {Board})
    <3>1. to \in SUBSET Parties /\ {Board} \in SUBSET Parties
      BY BoardIsParty
    <3>2. bytes # <<>> => Leaves(roles, bytes, to, {Board})
      BY <2>3
    <3>3. QED
      BY <3>1, <3>2 DEF Addresses
  <2>5. transfer.what = "ibwrt" /\ transfer.to = to /\ transfer.message = message
    BY DEF Idle
  <2>6. roles' \in [Parties -> Roles] /\ Proceeded(transfer, to, {Board})
    <3> HIDE DEF transfer, to
    <3>1. QED
      BY <2>2, <2>4, ProceedsTo
  <2>7. to \in SUBSET Devices /\ to \subseteq Instruments
    BY Devices3
  <2>8. CASE call' = [Over EXCEPT !.what = "ibwrt", !.to = to, !.ret = -1]
    <3> HIDE DEF to
    <3>1. IsOver(call', "ibwrt", to, -1)
      BY <2>7, <2>8, OverCall DEF Transferring
    <3>2. QED
      BY <1>2, <2>6, <3>1 DEF IsOver, BeginStep, AddressedRight, NoForeignEos, Transferring
  <2>9. ASSUME NEW blind \in BOOLEAN,
               call' = [transfer EXCEPT !.at = "data", !.left = message, !.blind = blind],
               blind \/ (Listeners(roles') = to /\ Talkers(roles') = {Board})
        PROVE  BeginStep
    <3>1. call' \in Calls
      BY <1>1, <2>7, <2>9 DEF Calls, Idle, Transferring
    <3>2. /\ call'.what = "ibwrt" /\ call'.left = call'.message /\ call'.newline = "no"
          /\ call'.at = "data" /\ call'.to = to /\ call'.blind = blind
      BY <2>9 DEF Idle
    <3> HIDE DEF to
    <3>3. AddressedRight'
      BY <2>9, <3>2 DEF AddressedRight, Reads
    <3>4. QED
      BY <1>2, <2>6, <3>1, <3>2, <3>3 DEF BeginStep, NoForeignEos, Transferring
  <2>10. QED
    <3> HIDE DEF transfer, to
    <3>1. QED
      BY <2>5, <2>6, <2>8, <2>9 DEF Proceeded
<1>5. QED
  BY <1>3, <1>4

(* The lists that callers give: instruments, or one misnamed device.         *)
Lists == (SUBSET Instruments) \union {{d} : d \in Misnamed}

(* A list is finite and names devices.                                       *)
LEMMA ListsInDevices ==
  ASSUME NEW ds \in Lists
  PROVE  IsFiniteSet(ds) /\ ds \subseteq Instruments \union Misnamed /\ ds \in SUBSET Devices
<1>1. CASE ds \in SUBSET Instruments
  BY <1>1, InstrumentsFinite, Devices3
<1>2. CASE ds \in {{d} : d \in Misnamed}
  <2>1. PICK d \in Misnamed : ds = {d}
    BY <1>2
  <2>2. IsFiniteSet({d})
    BY FS_Singleton
  <2>3. QED
    BY <2>1, <2>2, Devices3
<1>3. QED
  BY <1>1, <1>2 DEF Lists

(* The setup of such a list leaves its instruments as the listeners.         *)
LEMMA ListLeaves ==
  ASSUME TypeOK, NEW ds \in Lists, NEW bytes \in create_send_setup(ListOf(ds)), bytes # <<>>
  PROVE  ds \subseteq Instruments /\ Leaves(roles, bytes, ds, {Board})
<1>1. IsFiniteSet(ds) /\ ds \subseteq Instruments \union Misnamed
  BY ListsInDevices
<1>2. PICK e \in Seq(ds) : ListOf(ds) = PackedList(e) /\ {e[i] : i \in 1 .. Len(e)} = ds
  BY <1>1, ListNamesAll
<1>3. e \in Seq(Instruments \union Misnamed) /\ bytes \in create_send_setup(PackedList(e))
  <2>1. \A i \in 1 .. Len(e) : e[i] \in Instruments \union Misnamed
    BY <1>1, <1>2
  <2>2. QED
    BY <1>2, <2>1
<1>4. /\ {e[i] : i \in 1 .. Len(e)} \subseteq Instruments
      /\ Leaves(roles, bytes, {e[i] : i \in 1 .. Len(e)}, {Board})
  BY <1>3, SetupLeaves DEF TypeOK
<1>5. QED
  BY <1>2, <1>4

(* A string of which the first count bytes are sent.                         *)
LEMMA SentSome ==
  ASSUME TypeOK, NEW bytes, NEW L, NEW T, Addresses(bytes, L, T), NEW count \in 0 .. Len(bytes),
         NEW failed, my_ibcmd(bytes, count, failed)
  PROVE  /\ roles' \in [Parties -> Roles]
         /\ (count = Len(bytes) /\ bytes # <<>>) => Listeners(roles') = L /\ Talkers(roles') = T
<1>1. Len(bytes) \in Nat /\ count \in Nat
  BY DEF Leaves, Addresses
<1>2. roles' = After(SubSeq(bytes, 1, count))
  BY DEF my_ibcmd
<1>3. roles' \in [Parties -> Roles]
  BY <1>1, <1>2, AfterSome DEF TypeOK
<1>4. ASSUME count = Len(bytes), bytes # <<>>
      PROVE  Listeners(roles') = L /\ Talkers(roles') = T
  <2>1. Leaves(roles, bytes, L, T) /\ L \in SUBSET Parties /\ T \in SUBSET Parties
    BY <1>4 DEF Addresses
  <2>2. roles' = After(bytes)
    BY <1>2, <1>4, <2>1, AfterAll DEF TypeOK
  <2>3. QED
    BY <2>1, <2>2, AfterAll DEF TypeOK
<1>5. QED
  BY <1>3, <1>4

(* SendList begins a transfer to the instruments of its list.                *)
LEMMA StepSendList ==
  ASSUME TypeOK, NEW ds \in Lists, NEW message \in Messages, NEW eotmode \in send_eotmode,
         SendList(ds, message, eotmode)
  PROVE  BeginStep
<1> DEFINE limited == Board \in Limited
<1> DEFINE transfer == [Idle EXCEPT !.what = "SendList", !.to = ds, !.message = message,
                               !.left = message, !.at = "data", !.limited = limited,
                               !.eot = eotmode = "DABend",
                               !.newline = IF eotmode = "NLend" THEN "due" ELSE "no"]
<1>1. message \in Seq(Texts) /\ ds \in SUBSET Devices /\ limited \in BOOLEAN
  BY TransfersAssumption, ListsInDevices DEF Texts
<1>2. Free /\ UNCHANGED <<eos_mode, heard, obeyed>> /\ eos_mode' \in {"none", "settings", "call"}
  BY DEF SendList, TypeOK
<1>3. ASSUME Ends("SendList", ds, -1), roles' \in [Parties -> Roles]
      PROVE  BeginStep
  <2>1. IsOver(call', "SendList", ds, -1)
    BY <1>1, <1>3, OverCall DEF Ends, Transferring
  <2>2. QED
    BY <1>2, <1>3, <2>1 DEF IsOver, BeginStep, AddressedRight, NoForeignEos, Transferring
<1>4. CASE ~ListIsValid(ds) \/ ds = {}
  <2>1. Ends("SendList", ds, -1) /\ UNCHANGED roles
    BY <1>4 DEF SendList
  <2>2. QED
    BY <1>3, <2>1 DEF TypeOK
<1>5. CASE ~(~ListIsValid(ds) \/ ds = {})
  <2>0. PICK bytes \in create_send_setup(ListOf(ds)), failed \in BOOLEAN :
          \E count \in 0 .. Len(bytes) :
            /\ my_ibcmd(bytes, count, failed)
            /\ IF failed \/ count # Len(bytes) THEN Ends("SendList", ds, -1)
               ELSE call' = [transfer EXCEPT !.blind = bytes = <<>>]
    BY <1>5 DEF SendList
  <2>1. PICK count \in 0 .. Len(bytes) :
          /\ my_ibcmd(bytes, count, failed)
          /\ IF failed \/ count # Len(bytes) THEN Ends("SendList", ds, -1)
             ELSE call' = [transfer EXCEPT !.blind = bytes = <<>>]
    BY <2>0
  <2> HIDE DEF transfer
  <2>2. bytes # <<>> => ds \subseteq Instruments /\ Leaves(roles, bytes, ds, {Board})
    BY ListLeaves
  <2> DEFINE L == IF bytes = <<>> THEN {} ELSE ds
  <2>3. Addresses(bytes, L, {Board})
    BY <2>2, BoardIsParty DEF Addresses
  <2> HIDE DEF L
  <2>4. /\ roles' \in [Parties -> Roles]
        /\ (count = Len(bytes) /\ bytes # <<>>) =>
              Listeners(roles') = L /\ Talkers(roles') = {Board}
    BY <2>1, <2>3, SentSome
  <2>5. CASE failed \/ count # Len(bytes)
    BY <1>3, <2>1, <2>4, <2>5
  <2>6. CASE ~(failed \/ count # Len(bytes))
    <3>1. call' = [transfer EXCEPT !.blind = bytes = <<>>]
      BY <2>1, <2>6
    <3> DEFINE blind == bytes = <<>>
    <3>2. call' = [transfer EXCEPT !.blind = blind] /\ blind \in BOOLEAN
      BY <3>1
    <3>3. blind \/ (Listeners(roles') = ds /\ Talkers(roles') = {Board})
      BY <2>4, <2>6 DEF L
    <3> HIDE DEF blind
    <3>4. call' \in Calls
      BY <1>1, <3>2 DEF Calls, Idle, Transferring, transfer
    <3>5. /\ call'.what = "SendList" /\ call'.left = call'.message /\ call'.at = "data"
          /\ call'.newline \in {"no", "due"} /\ call'.flags = {}
          /\ call'.to = ds /\ call'.blind = blind
      BY <3>2 DEF Idle, transfer
    <3>6. call'.newline = "due" => ~call'.eot
      BY <3>2 DEF Idle, transfer
    <3>7. AddressedRight'
      BY <3>3, <3>5 DEF AddressedRight, Reads
    <3>8. QED
      BY <1>2, <2>4, <3>4, <3>5, <3>6, <3>7 DEF BeginStep, NoForeignEos, Transferring
  <2>7. QED
    BY <2>5, <2>6
<1>6. QED
  BY <1>4, <1>5

(* What a read finds for its end-of-string mode.                             *)
OwnEos(what, flags, mode) ==
  /\ what = "ibrd" /\ Accepts(Bool("REOS", flags), Bool("BIN", flags)) =>
       mode = IF Bool("REOS", flags) THEN "settings" ELSE "none"
  /\ what = "Receive" => mode = IF flags = {} THEN "none" ELSE "call"

(* A transfer that ends before any data moves.                               *)
LEMMA BeginEnds ==
  ASSUME TypeOK, Free, NEW what \in {"ibrd", "Receive"}, NEW to \in SUBSET Devices,
         Ends(what, to, -1), roles' \in [Parties -> Roles],
         UNCHANGED <<heard, obeyed>>, eos_mode' \in {"none", "settings", "call"}
  PROVE  BeginStep
<1>1. IsOver(call', what, to, -1)
  BY OverCall DEF Ends, Transferring
<1>2. QED
  BY <1>1 DEF IsOver, BeginStep, AddressedRight, NoForeignEos, Transferring

(* The setup of a read.                                                      *)
LEMMA BeginRead ==
  ASSUME TypeOK, Free, NEW d \in Instruments \union Misnamed,
         NEW what \in {"ibrd", "Receive"}, NEW to \in SUBSET Devices,
         d \in Instruments => to = {d}, NEW flags \in SUBSET {"REOS", "XEOS", "BIN", "eos"},
         NEW limited \in BOOLEAN, NEW transfer,
         transfer = [Idle EXCEPT !.what = what, !.to = to, !.flags = flags, !.limited = limited],
         InternalReceiveSetup(Packed(d), transfer),
         UNCHANGED <<heard, obeyed>>, eos_mode' \in {"none", "settings", "call"},
         call'.at = "data" => OwnEos(what, flags, eos_mode')
  PROVE  BeginStep
<1>0. <<>> \in Seq(Texts) /\ {} \in SUBSET {"REOS", "XEOS", "BIN", "eos"}
  OBVIOUS
<1>1. transfer.what = what /\ transfer.to = to /\ transfer.message = <<>>
  BY DEF Idle
<1>2. ASSUME Ends(what, to, -1), roles' \in [Parties -> Roles]
      PROVE  BeginStep
  BY <1>2, BeginEnds
<1>3. CASE Ends(transfer.what, transfer.to, -1) /\ UNCHANGED roles
  BY <1>1, <1>2, <1>3 DEF TypeOK
<1>4. CASE addressIsValid(Packed(d)) /\ Proceeds(ReceiveSetup(Packed(d)), transfer)
  <2>1. d \in Instruments
    BY <1>4, MisnamedAddress
  <2> DEFINE bytes == ReceiveSetup(Packed(d))
  <2>2. Addresses(bytes, {Board}, {d})
    BY <2>1, ReceiveLeaves, BoardIsParty DEF Addresses, TypeOK
  <2> HIDE DEF bytes
  <2>3. Proceeds(bytes, transfer)
    BY <1>4 DEF bytes
  <2>4. roles' \in [Parties -> Roles] /\ Proceeded(transfer, {Board}, {d})
    BY <2>2, <2>3, ProceedsTo
  <2>5. CASE call' = [Over EXCEPT !.what = what, !.to = to, !.ret = -1]
    BY <1>2, <2>4, <2>5 DEF Ends
  <2>6. ASSUME NEW blind \in BOOLEAN,
               call' = [transfer EXCEPT !.at = "data", !.left = <<>>, !.blind = blind],
               blind \/ (Listeners(roles') = {Board} /\ Talkers(roles') = {d})
        PROVE  BeginStep
    <3>1. call' \in Calls
      BY <1>0, <2>6 DEF Calls, Idle, Transferring
    <3>2. /\ call'.what = what /\ call'.left = call'.message /\ call'.newline = "no"
          /\ call'.at = "data" /\ call'.to = to /\ call'.blind = blind
          /\ call'.flags = flags
      BY <2>6 DEF Idle
    <3>3. AddressedRight'
      BY <2>1, <2>6, <3>2 DEF AddressedRight, Reads
    <3>4. NoForeignEos'
      BY <3>2 DEF NoForeignEos, OwnEos
    <3>5. QED
      BY <2>4, <3>1, <3>2, <3>3, <3>4 DEF BeginStep, Transferring
  <2>7. QED
    BY <1>1, <2>4, <2>5, <2>6 DEF Proceeded
<1>5. QED
  BY <1>3, <1>4 DEF InternalReceiveSetup

(* iblcleos leaves the mode that the settings ask for, or is refused.         *)
LEMMA SetsOwnEos ==
  ASSUME TypeOK, NEW flags, iblcleos(flags)
  PROVE  eos_mode' \in {"none", "settings", "call"} /\ OwnEos("ibrd", flags, eos_mode')
BY DEF TypeOK, iblcleos, ibeos, OwnEos

(* my_ibrd begins a transfer: the instrument talks and the board listens.    *)
LEMMA StepIbrd ==
  ASSUME TypeOK, NEW d \in Devices, NEW flags \in Flags, my_ibrd(d, flags)
  PROVE  BeginStep
<1> DEFINE to == {d} \intersect Instruments
<1> DEFINE limited == d \in Limited
<1> DEFINE transfer == [Idle EXCEPT !.what = "ibrd", !.to = to, !.flags = flags,
                                    !.limited = limited]
<1>1. Free /\ iblcleos(flags) /\ UNCHANGED <<heard, obeyed>>
  BY DEF my_ibrd
<1>2. /\ flags \in SUBSET {"REOS", "XEOS", "BIN", "eos"} /\ to \in SUBSET Devices
      /\ <<>> \in Seq(Texts) /\ limited \in BOOLEAN
  BY TransfersAssumption, Devices3
<1>3. eos_mode' \in {"none", "settings", "call"} /\ OwnEos("ibrd", flags, eos_mode')
  BY <1>1, SetsOwnEos
<1>4. CASE d = Board
  <2>1. /\ call' = [transfer EXCEPT !.to = Talkers(roles), !.at = "data", !.blind = TRUE]
        /\ UNCHANGED roles
    BY <1>4 DEF my_ibrd
  <2>2. Talkers(roles) \in SUBSET Devices
    BY Devices3 DEF Talkers
  <2>3. call' \in Calls
    BY <1>2, <2>1, <2>2 DEF Calls, Idle, Transferring
  <2>4. /\ call'.what = "ibrd" /\ call'.left = call'.message /\ call'.newline = "no"
        /\ call'.at = "data" /\ call'.blind /\ call'.flags = flags
    BY <2>1 DEF Idle
  <2>5. AddressedRight' /\ NoForeignEos'
    BY <1>3, <2>4 DEF AddressedRight, NoForeignEos, OwnEos
  <2>6. QED
    BY <1>1, <1>3, <2>1, <2>3, <2>4, <2>5 DEF BeginStep, TypeOK, Transferring
<1>5. CASE d # Board
  <2>1. InternalReceiveSetup(Packed(d), transfer)
    BY <1>5 DEF my_ibrd
  <2>2. d \in Instruments \union Misnamed /\ (d \in Instruments => to = {d})
    BY <1>5, Devices3
  <2> HIDE DEF to, limited
  <2>3. transfer = [Idle EXCEPT !.what = "ibrd", !.to = to, !.flags = flags,
                                !.limited = limited]
    OBVIOUS
  <2> HIDE DEF transfer
  <2>4. QED
    BY <1>1, <1>2, <1>3, <2>1, <2>2, <2>3, BeginRead
<1>6. QED
  BY <1>4, <1>5

(* So does InternalReceive, with a termination byte of its own or none.      *)
LEMMA StepReceive ==
  ASSUME TypeOK, NEW d \in Instruments \union Misnamed, NEW termination \in {{}, {"eos"}},
         InternalReceive(d, termination)
  PROVE  BeginStep
<1> DEFINE limited == Board \in Limited
<1> DEFINE transfer == [Idle EXCEPT !.what = "Receive", !.to = {d}, !.flags = termination,
                                    !.limited = limited]
<1> DEFINE bytes == ReceiveSetup(Packed(d))
<1>1. /\ Free /\ UNCHANGED <<heard, obeyed>>
      /\ \/ /\ InternalReceiveSetup(Packed(d), transfer)
            /\ IF call'.at = "data"
               THEN Accepts(termination # {}, TRUE) /\ ibeos(termination # {}, TRUE, "call")
               ELSE UNCHANGED eos_mode
         \/ RcvRespMsgRefuses(Packed(d), transfer)
  BY DEF InternalReceive
<1>2. /\ {d} \in SUBSET Devices /\ termination \in SUBSET {"REOS", "XEOS", "BIN", "eos"}
      /\ limited \in BOOLEAN /\ eos_mode \in {"none", "settings", "call"}
  BY Devices3 DEF TypeOK
<1>3. CASE RcvRespMsgRefuses(Packed(d), transfer)
  <2>1. d \in Instruments
    BY <1>3, MisnamedAddress DEF RcvRespMsgRefuses
  <2>2. Leaves(roles, bytes, {Board}, {d})
    BY <2>1, ReceiveLeaves DEF TypeOK
  <2>3. PICK count \in 0 .. Len(bytes) : roles' = After(SubSeq(bytes, 1, count))
    BY <1>3 DEF RcvRespMsgRefuses, my_ibcmd
  <2> HIDE DEF bytes
  <2>4. count \in Nat
    BY <2>2 DEF Leaves
  <2>5. roles' \in [Parties -> Roles]
    BY <2>3, <2>4, AfterSome DEF TypeOK
  <2>6. eos_mode' = eos_mode /\ Ends("Receive", {d}, -1)
    BY <1>3 DEF RcvRespMsgRefuses, Idle
  <2>7. QED
    BY <1>1, <1>2, <2>5, <2>6, BeginEnds
<1>4. CASE /\ InternalReceiveSetup(Packed(d), transfer)
           /\ IF call'.at = "data"
              THEN Accepts(termination # {}, TRUE) /\ ibeos(termination # {}, TRUE, "call")
              ELSE UNCHANGED eos_mode
  <2> DEFINE what == "Receive"
  <2>1. /\ what \in {"ibrd", "Receive"}
        /\ transfer = [Idle EXCEPT !.what = what, !.to = {d}, !.flags = termination,
                                   !.limited = limited]
    OBVIOUS
  <2> HIDE DEF transfer, limited
  <2>2. /\ eos_mode' \in {"none", "settings", "call"}
        /\ call'.at = "data" => OwnEos(what, termination, eos_mode')
    BY <1>2, <1>4 DEF ibeos, OwnEos
  <2> HIDE DEF what
  <2>3. QED
    BY <1>1, <1>2, <1>4, <2>1, <2>2, BeginRead
<1>5. QED
  BY <1>1, <1>3, <1>4

(* Addresses and strings put together have a length.                         *)
LEMMA AddressLengths ==
  ASSUME NEW d
  PROVE  Len(ListenAddress(d)) \in Nat /\ Len(TalkAddress(d)) \in Nat
<1>1. Len(Secondary(d.sad)) \in Nat
  BY DEF Secondary
<1>2. QED
  BY <1>1 DEF ListenAddress, TalkAddress

(* One string after another has a length.                                    *)
LEMMA StringLengths ==
  ASSUME NEW s, NEW t, Len(s) \in Nat, Len(t) \in Nat
  PROVE  Len(s \o t) \in Nat
OBVIOUS

(* Whatever string the bus hears, every party has a role after it.           *)
LEMMA AfterAny ==
  ASSUME roles \in [Parties -> Roles], NEW bytes, Len(bytes) \in Nat
  PROVE  After(bytes) \in [Parties -> Roles]
<1>1. ASSUME NEW p \in Parties PROVE Hears(p, roles[p], bytes) \in Roles
  BY HearsType
<1>2. QED
  BY <1>1 DEF After

(* A serial poll, wherever it breaks off, only changes roles.                *)
LEMMA StepPoll ==
  ASSUME TypeOK, NEW d \in Instruments \union Misnamed, serial_poll_single(d)
  PROVE  BusStep
<1> DEFINE setup == <<cmd_byte.UNL>> \o ListenAddress(Board) \o <<cmd_byte.SPE>>
<1> DEFINE cleanup == <<cmd_byte.SPD, cmd_byte.UNT>>
<1>1. Free /\ UNCHANGED <<eos_mode, call, heard, obeyed>>
  BY DEF serial_poll_single
<1>2. Len(setup) \in Nat
  <2>1. Len(<<cmd_byte.UNL>>) \in Nat /\ Len(<<cmd_byte.SPE>>) \in Nat
    OBVIOUS
  <2>2. Len(<<cmd_byte.UNL>> \o ListenAddress(Board)) \in Nat
    BY <2>1, AddressLengths, StringLengths
  <2>3. QED
    BY <2>1, <2>2, StringLengths
<1>3. \/ \E a \in 0 .. Len(setup) - 1 : roles' = After(SubSeq(setup, 1, a))
      \/ \E b \in 0 .. Len(TalkAddress(d)), c \in 0 .. Len(cleanup) :
           roles' = After(setup \o SubSeq(TalkAddress(d), 1, b) \o SubSeq(cleanup, 1, c))
  BY DEF serial_poll_single
<1> HIDE DEF setup, cleanup
<1>4. ASSUME NEW a \in 0 .. Len(setup) - 1, roles' = After(SubSeq(setup, 1, a))
      PROVE  roles' \in [Parties -> Roles]
  BY <1>2, <1>4, AfterSome DEF TypeOK
<1>5. ASSUME NEW b \in 0 .. Len(TalkAddress(d)), NEW c \in 0 .. Len(cleanup),
             roles' = After(setup \o SubSeq(TalkAddress(d), 1, b) \o SubSeq(cleanup, 1, c))
      PROVE  roles' \in [Parties -> Roles]
  <2> DEFINE talk == SubSeq(TalkAddress(d), 1, b)
  <2> DEFINE down == SubSeq(cleanup, 1, c)
  <2>1. Len(talk) \in Nat /\ Len(down) \in Nat
    OBVIOUS
  <2> HIDE DEF talk, down
  <2>2. Len(setup \o talk \o down) \in Nat
    BY <1>2, <2>1, StringLengths
  <2>3. roles' = After(setup \o talk \o down)
    BY <1>5 DEF talk, down
  <2>4. QED
    BY <2>2, <2>3, AfterAny DEF TypeOK
<1>6. QED
  BY <1>1, <1>3, <1>4, <1>5 DEF BusStep

(* So do the command bytes of the caller.                                    *)
LEMMA StepIbcmd ==
  ASSUME TypeOK, ibcmd
  PROVE  BusStep
<1>1. PICK d \in Instruments : \E bytes \in {ListenAddress(d), TalkAddress(d),
                                            <<cmd_byte.UNL>>, TalkAddress(Board)} :
         roles' = After(bytes)
  BY DEF ibcmd
<1>2. PICK bytes \in {ListenAddress(d), TalkAddress(d), <<cmd_byte.UNL>>, TalkAddress(Board)} :
         roles' = After(bytes)
  BY <1>1
<1>3. Len(<<cmd_byte.UNL>>) \in Nat
  OBVIOUS
<1>4. Len(bytes) \in Nat
  BY <1>3, AddressLengths
<1>5. roles' \in [Parties -> Roles]
  BY <1>2, <1>4, AfterAny DEF TypeOK
<1>6. QED
  BY <1>5 DEF ibcmd, BusStep

(* So does an interface clear.                                               *)
LEMMA StepIbsic ==
  ASSUME ibsic
  PROVE  BusStep
BY DEF ibsic, BusStep, Quiet, Roles

-----------------------------------------------------------------------------
(* Commands for the addressed instruments.                                   *)

(* A command has been sent, or has not; no transfer is under way.            *)
CommandStep ==
  /\ Free
  /\ roles' \in [Parties -> Roles]
  /\ call' \in Calls
  /\ call'.what \in Commanding /\ call'.at = "over"
  /\ call'.left = call'.message /\ call'.newline = "no"
  /\ obeyed' \subseteq Instruments
  /\ CommandReachesThose'
  /\ UNCHANGED <<eos_mode, heard>>

(* The strings of the commands: byte follows the setup, or is all there is.   *)
LEMMA CommandLeaves ==
  ASSUME TypeOK, NEW ds \in Lists, NEW byte \in {1, 4, 8},
         NEW bytes \in CommandString(ds, byte)
  PROVE  /\ bytes # <<>> /\ Len(bytes) \in Nat
         /\ bytes # <<byte>> => Leaves(roles, bytes, ds, {Board}) /\ ds \subseteq Instruments
<1>1. byte # cmd_byte.DCL
  BY DEF cmd_byte
<1>2. PICK setup \in create_send_setup(ListOf(ds)) : bytes = Append(setup, byte)
  BY <1>1 DEF CommandString
<1>3. CASE setup = <<>>
  BY <1>2, <1>3
<1>4. CASE setup # <<>>
  <2>1. ds \subseteq Instruments /\ Leaves(roles, setup, ds, {Board})
    BY <1>2, <1>4, ListLeaves
  <2>2. Leaves(roles, bytes, ds, {Board})
    BY <1>2, <2>1, LeavesCommanded
  <2>3. bytes # <<>> /\ Len(bytes) \in Nat
    BY <1>2, <2>1 DEF Leaves
  <2>4. QED
    BY <2>1, <2>2, <2>3
<1>5. QED
  BY <1>3, <1>4

(* What a command does: those obey who listen after the whole string.         *)
LEMMA StepSendCommand ==
  ASSUME TypeOK, Free, NEW what \in Commanding, NEW ds \in Lists, NEW byte \in {1, 4, 8},
         SendCommand(what, ds, byte), UNCHANGED <<eos_mode, heard>>
  PROVE  CommandStep
<1>1. PICK bytes \in CommandString(ds, byte), failed \in BOOLEAN :
        \E count \in 0 .. Len(bytes) :
          /\ my_ibcmd(bytes, count, failed)
          /\ obeyed' = IF count = Len(bytes) THEN Obeying(byte) ELSE {}
          /\ call' = [Over EXCEPT !.what = what, !.to = ds,
                                  !.blind = bytes = <<byte>> /\ byte # cmd_byte.DCL,
                                  !.ret = IF failed \/ count # Len(bytes) THEN -1 ELSE 0]
  BY DEF SendCommand
<1>2. PICK count \in 0 .. Len(bytes) :
        /\ my_ibcmd(bytes, count, failed)
        /\ obeyed' = IF count = Len(bytes) THEN Obeying(byte) ELSE {}
        /\ call' = [Over EXCEPT !.what = what, !.to = ds,
                                !.blind = bytes = <<byte>> /\ byte # cmd_byte.DCL,
                                !.ret = IF failed \/ count # Len(bytes) THEN -1 ELSE 0]
  BY <1>1
<1>3. /\ bytes # <<>> /\ Len(bytes) \in Nat
      /\ bytes # <<byte>> => Leaves(roles, bytes, ds, {Board}) /\ ds \subseteq Instruments
  BY CommandLeaves
<1>4. byte # cmd_byte.DCL
  BY DEF cmd_byte
<1>5. obeyed' = IF count = Len(bytes) THEN Listeners(roles') \intersect Instruments ELSE {}
  BY <1>2, <1>4 DEF Obeying
<1>6. roles' = After(SubSeq(bytes, 1, count)) /\ count \in Nat
  BY <1>2, <1>3 DEF my_ibcmd
<1>7. roles' \in [Parties -> Roles]
  BY <1>6, AfterSome DEF TypeOK
<1> DEFINE blind == bytes = <<byte>> /\ byte # cmd_byte.DCL
<1> DEFINE ret == IF failed \/ count # Len(bytes) THEN -1 ELSE 0
<1>8. call' = [Over EXCEPT !.what = what, !.to = ds, !.blind = blind, !.ret = ret]
      /\ blind \in BOOLEAN /\ ret \in {0, -1}
  BY <1>2
<1>9. ~blind => bytes # <<byte>>
  BY <1>4
<1>10. ret = 0 => count = Len(bytes)
  OBVIOUS
<1> HIDE DEF blind, ret
<1>11. IsOver(call', what, ds, ret)
  <2>1. ds \in SUBSET Devices /\ what \in Transferring \union Commanding
    BY ListsInDevices
  <2>2. IsOver([Over EXCEPT !.what = what, !.to = ds, !.blind = blind, !.ret = ret],
               what, ds, ret)
    BY <1>8, <2>1, OverCall
  <2>3. QED
    BY <1>8, <2>2
<1>12. call'.blind = blind
  BY <1>8 DEF Over, Idle
<1>13. ASSUME ~blind
       PROVE  obeyed' \subseteq ds /\ (ret = 0 => obeyed' = ds)
  <2>1. Leaves(roles, bytes, ds, {Board}) /\ ds \subseteq Instruments
    BY <1>3, <1>9, <1>13
  <2>2. ds \in SUBSET Parties /\ {Board} \in SUBSET Parties
    BY <2>1, BoardIsParty
  <2>3. CASE count = Len(bytes)
    <3>1. SubSeq(bytes, 1, Len(bytes)) = bytes /\ Listeners(After(bytes)) = ds
      BY <2>1, <2>2, AfterAll DEF TypeOK
    <3>2. Listeners(roles') = ds
      BY <1>6, <2>3, <3>1
    <3>3. QED
      BY <1>5, <2>1, <2>3, <3>2
  <2>4. CASE count # Len(bytes)
    BY <1>5, <1>10, <2>4
  <2>5. QED
    BY <2>3, <2>4
<1>14. CommandReachesThose'
  BY <1>11, <1>12, <1>13 DEF CommandReachesThose, IsOver
<1>15. obeyed' \subseteq Instruments
  BY <1>5
<1>16. QED
  BY <1>7, <1>11, <1>14, <1>15 DEF CommandStep, IsOver

(* A device clear of every instrument needs no address.                      *)
LEMMA StepClearAll ==
  ASSUME TypeOK, Free, SendCommand("DevClearList", Instruments, cmd_byte.DCL),
         UNCHANGED <<eos_mode, heard>>
  PROVE  CommandStep
<1> DEFINE bytes == <<cmd_byte.DCL>>
<1>1. PICK failed \in BOOLEAN, count \in 0 .. Len(bytes) :
        /\ my_ibcmd(bytes, count, failed)
        /\ obeyed' = IF count = Len(bytes) THEN Obeying(cmd_byte.DCL) ELSE {}
        /\ call' = [Over EXCEPT !.what = "DevClearList", !.to = Instruments,
                                !.blind = bytes = <<cmd_byte.DCL>> /\ cmd_byte.DCL # cmd_byte.DCL,
                                !.ret = IF failed \/ count # Len(bytes) THEN -1 ELSE 0]
  <2>1. CommandString(Instruments, cmd_byte.DCL) = {bytes}
    BY DEF CommandString
  <2> HIDE DEF bytes
  <2>2. \E b \in {bytes}, failed \in BOOLEAN : \E count \in 0 .. Len(b) :
          /\ my_ibcmd(b, count, failed)
          /\ obeyed' = IF count = Len(b) THEN Obeying(cmd_byte.DCL) ELSE {}
          /\ call' = [Over EXCEPT !.what = "DevClearList", !.to = Instruments,
                                  !.blind = b = <<cmd_byte.DCL>> /\ cmd_byte.DCL # cmd_byte.DCL,
                                  !.ret = IF failed \/ count # Len(b) THEN -1 ELSE 0]
    BY <2>1 DEF SendCommand
  <2>3. QED
    BY <2>2
<1>2. Len(bytes) \in Nat /\ count \in Nat
  OBVIOUS
<1> HIDE DEF bytes
<1>3. roles' \in [Parties -> Roles]
  BY <1>1, <1>2, AfterSome DEF my_ibcmd, TypeOK
<1> DEFINE blind == bytes = <<cmd_byte.DCL>> /\ cmd_byte.DCL # cmd_byte.DCL
<1> DEFINE ret == IF failed \/ count # Len(bytes) THEN -1 ELSE 0
<1>4. /\ call' = [Over EXCEPT !.what = "DevClearList", !.to = Instruments,
                              !.blind = blind, !.ret = ret]
      /\ blind \in BOOLEAN /\ ret \in {0, -1}
  BY <1>1
<1>5. ret = 0 => count = Len(bytes)
  OBVIOUS
<1>6. obeyed' = IF count = Len(bytes) THEN Instruments ELSE {}
  BY <1>1 DEF Obeying
<1> HIDE DEF blind, ret
<1>7. IsOver(call', "DevClearList", Instruments, ret)
  <2> DEFINE what == "DevClearList"
  <2>1. Instruments \in SUBSET Devices /\ what \in Transferring \union Commanding
    BY Devices3 DEF Commanding
  <2> HIDE DEF what
  <2>2. IsOver([Over EXCEPT !.what = what, !.to = Instruments, !.blind = blind, !.ret = ret],
               what, Instruments, ret)
    BY <1>4, <2>1, OverCall
  <2>3. QED
    BY <1>4, <2>2 DEF what
<1>8. CommandReachesThose'
  BY <1>5, <1>6, <1>7 DEF CommandReachesThose, IsOver
<1>9. QED
  BY <1>3, <1>6, <1>7, <1>8 DEF CommandStep, IsOver, Commanding

(* A command whose list is not valid does nothing.                           *)
LEMMA StepRefused ==
  ASSUME TypeOK, Free, NEW what \in Commanding, NEW ds \in Lists, Refused(what, ds),
         UNCHANGED <<eos_mode, heard>>
  PROVE  CommandStep
<1>1. call' = [Over EXCEPT !.what = what, !.to = ds, !.ret = -1] /\ obeyed' = {}
      /\ roles' \in [Parties -> Roles]
  BY DEF Refused, Ends, TypeOK
<1>2. IsOver(call', what, ds, -1)
  BY <1>1, ListsInDevices, OverCall
<1>3. QED
  BY <1>1, <1>2 DEF IsOver, CommandStep, CommandReachesThose

(* Each of the commands is one of these.                                     *)
LEMMA StepCommands ==
  ASSUME TypeOK, Commands
  PROVE  CommandStep
<1>1. Free /\ UNCHANGED <<eos_mode, heard>>
  BY DEF Commands
<1>2. /\ cmd_byte.SDC \in {1, 4, 8} /\ cmd_byte.GTL \in {1, 4, 8} /\ cmd_byte.GET \in {1, 4, 8}
      /\ {"ibclr", "ibloc", "trigger", "DevClearList"} \subseteq Commanding
  BY DEF cmd_byte, Commanding
<1>3. ASSUME NEW d \in Instruments \union Misnamed, ibclr(d) \/ ibloc(d)
      PROVE  CommandStep
  <2>1. {d} \in Lists
    BY DEF Lists
  <2>2. QED
    BY <1>1, <1>2, <1>3, <2>1, StepSendCommand DEF ibclr, ibloc
<1>4. ASSUME NEW ds \in Lists, my_trigger(ds)
      PROVE  CommandStep
  BY <1>1, <1>2, <1>4, StepSendCommand, StepRefused DEF my_trigger
<1>5. ASSUME NEW ds \in Lists, InternalDevClearList(ds)
      PROVE  CommandStep
  BY <1>1, <1>2, <1>5, StepSendCommand, StepRefused, StepClearAll DEF InternalDevClearList
<1>6. QED
  BY <1>3, <1>4, <1>5 DEF Commands, Lists

-----------------------------------------------------------------------------
(* Data: what the instruments have heard, and what is left of the message.     *)

Bytes(h) == [i \in DOMAIN h |-> h[i].byte]
NothingHeard == \A d \in Instruments : heard[d] = <<>>
NoEoi == \A d \in Instruments : \A i \in DOMAIN heard[d] : ~heard[d][i].eoi

(* A block of which n bytes go out.                                          *)
Signalled(block, n, eoi) ==
  [i \in 1 .. n |-> [byte |-> block[i], eoi |-> eoi /\ i = Len(block)]]

IsSignalled(w, block, n, eoi) ==
  /\ w \in Seq(Signals) /\ Len(w) = n
  /\ \A i \in 1 .. n : w[i].byte = block[i] /\ (w[i].eoi <=> eoi /\ i = Len(block))

(* The bytes that go out, with EOI on the last one of a whole block if       *)
(* asked for.                                                                *)
LEMMA SignalledType ==
  ASSUME NEW block \in Seq(Texts \union {"newline"}), NEW n \in 0 .. Len(block),
         NEW eoi \in BOOLEAN
  PROVE  IsSignalled(Signalled(block, n, eoi), block, n, eoi)
<1>1. \A i \in 1 .. n : block[i] \in Texts \union {"newline"}
  OBVIOUS
<1>2. \A i \in 1 .. n : (eoi /\ i = Len(block)) \in BOOLEAN
  OBVIOUS
<1>3. \A i \in 1 .. n : [byte |-> block[i], eoi |-> eoi /\ i = Len(block)] \in Signals
  BY <1>1, <1>2, Zenon DEF Signals
<1>4. Signalled(block, n, eoi) \in Seq(Signals)
  <2>1. n \in Nat
    OBVIOUS
  <2>2. \A i \in 1 .. n : Signalled(block, n, eoi)[i] \in Signals
    BY <1>3 DEF Signalled
  <2>3. Signalled(block, n, eoi) \in [1 .. n -> Signals]
    BY <2>2, Zenon DEF Signalled
  <2>4. QED
    BY <2>1, <2>3
<1>5. Len(Signalled(block, n, eoi)) = n
  BY <1>4 DEF Signalled
<1>6. ASSUME NEW i \in 1 .. n
      PROVE  /\ Signalled(block, n, eoi)[i].byte = block[i]
             /\ Signalled(block, n, eoi)[i].eoi <=> eoi /\ i = Len(block)
  <2> DEFINE last == eoi /\ i = Len(block)
  <2>1. Signalled(block, n, eoi)[i] = [byte |-> block[i], eoi |-> last] /\ last \in BOOLEAN
    BY <1>2, Zenon DEF Signalled
  <2> HIDE DEF last
  <2>2. /\ Signalled(block, n, eoi)[i].byte = block[i]
        /\ Signalled(block, n, eoi)[i].eoi = last
    BY <2>1
  <2>3. QED
    BY <2>2, Zenon DEF last
<1>7. QED
  BY <1>4, <1>5, <1>6 DEF IsSignalled

(* One string after another.                                                 *)
Joins(u, h, w) ==
  /\ Len(u) = Len(h) + Len(w) /\ DOMAIN u = 1 .. Len(h) + Len(w)
  /\ \A i \in 1 .. Len(h) : u[i] = h[i]
  /\ \A i \in 1 .. Len(w) : u[Len(h) + i] = w[i]

(* Concatenation is that.                                                    *)
LEMMA Joined ==
  ASSUME NEW S, NEW h \in Seq(S), NEW w \in Seq(S)
  PROVE  h \o w \in Seq(S) /\ Joins(h \o w, h, w)
<1> DEFINE u == h \o w
<1> DEFINE n == Len(h)
<1> DEFINE k == Len(w)
<1>1. /\ u \in Seq(S) /\ Len(u) = n + k
      /\ \A i \in 1 .. n + k : u[i] = IF i <= n THEN h[i] ELSE w[i - n]
  BY ConcatProperties
<1> HIDE DEF u
<1>2. n \in Nat /\ k \in Nat /\ DOMAIN u = 1 .. n + k
  BY <1>1
<1> HIDE DEF n, k
<1>3. ASSUME NEW i \in 1 .. n PROVE u[i] = h[i]
  BY <1>1, <1>2
<1>4. ASSUME NEW i \in 1 .. k PROVE u[n + i] = w[i]
  <2>1. n + i \in 1 .. n + k /\ ~(n + i <= n) /\ (n + i) - n = i
    BY <1>2
  <2>2. QED
    BY <1>1, <2>1
<1>5. QED
  BY <1>1, <1>2, <1>3, <1>4 DEF Joins, u, n, k

(* Bytes of a message added to those already heard.                          *)
Continues(w, message, k, n) ==
  w \in Seq(Signals) /\ Len(w) = n /\ \A i \in 1 .. n : w[i].byte = message[k + i]

(* The listeners have then heard as many more bytes of the message.          *)
LEMMA HeardMore ==
  ASSUME NEW message \in Seq(Texts), NEW k \in Nat, NEW n \in Nat, k + n <= Len(message),
         NEW h \in Seq(Signals), Bytes(h) = SubSeq(message, 1, k),
         NEW w, Continues(w, message, k, n)
  PROVE  Bytes(h \o w) = SubSeq(message, 1, k + n)
<1>1. DOMAIN SubSeq(message, 1, k) = 1 .. k
      /\ \A i \in 1 .. k : SubSeq(message, 1, k)[i] = message[i]
  OBVIOUS
<1>2. DOMAIN h = 1 .. k /\ Len(h) = k
  BY <1>1 DEF Bytes
<1>3. \A i \in 1 .. k : h[i].byte = message[i]
  BY <1>1, <1>2 DEF Bytes
<1> DEFINE u == h \o w
<1>4. /\ DOMAIN u = 1 .. k + n
      /\ \A i \in 1 .. k : u[i] = h[i]
      /\ \A i \in 1 .. n : u[k + i] = w[i]
  <2>1. Joins(u, h, w) /\ Len(w) = n
    BY Joined DEF Continues
  <2> HIDE DEF u
  <2>2. QED
    BY <1>2, <2>1 DEF Joins
<1> HIDE DEF u
<1>5. ASSUME NEW i \in 1 .. k + n PROVE u[i].byte = message[i]
  <2>1. CASE i <= k
    BY <1>3, <1>4, <2>1
  <2>2. CASE ~(i <= k)
    <3>1. i - k \in 1 .. n /\ k + (i - k) = i
      BY <2>2
    <3>2. u[i] = w[i - k] /\ w[i - k].byte = message[i]
      BY <1>4, <3>1 DEF Continues
    <3>3. QED
      BY <3>2
  <2>3. QED
    BY <2>1, <2>2
<1>6. SubSeq(message, 1, k + n) = [i \in 1 .. k + n |-> message[i]]
  OBVIOUS
<1>7. Bytes(u) = [i \in 1 .. k + n |-> message[i]]
  BY <1>4, <1>5 DEF Bytes
<1>8. QED
  BY <1>6, <1>7 DEF u

(* The newline added to them.                                                *)
LEMMA HeardNewline ==
  ASSUME NEW h \in Seq(Signals), NEW w \in Seq(Signals), Len(w) = 1, w[1].byte = "newline"
  PROVE  Bytes(h \o w) = Bytes(h) \o <<"newline">>
<1> DEFINE u == h \o w
<1> DEFINE n == Len(h)
<1> DEFINE b == Bytes(h)
<1> DEFINE c == b \o <<"newline">>
<1> DEFINE S == Texts \union {"newline"}
<1>1. n \in Nat /\ DOMAIN h = 1 .. n /\ \A i \in 1 .. n : h[i] \in Signals
  OBVIOUS
<1>2. /\ DOMAIN u = 1 .. n + 1
      /\ \A i \in 1 .. n : u[i] = h[i]
      /\ \A i \in 1 .. 1 : u[n + i] = w[i]
  <2>1. Joins(u, h, w)
    BY Joined
  <2> HIDE DEF u
  <2>2. QED
    BY <2>1 DEF Joins
<1> HIDE DEF n
<1>3. b \in [1 .. n -> S] /\ \A i \in 1 .. n : b[i] = h[i].byte
  BY <1>1 DEF Bytes, Signals
<1> HIDE DEF b
<1>4. b \in Seq(S) /\ Len(b) = n /\ <<"newline">> \in Seq(S) /\ Len(<<"newline">>) = 1
      /\ <<"newline">>[1] = "newline"
  BY <1>1, <1>3
<1> HIDE DEF S
<1>5. /\ DOMAIN c = 1 .. n + 1 /\ c \in Seq(S)
      /\ \A i \in 1 .. n : c[i] = b[i]
      /\ \A i \in 1 .. 1 : c[n + i] = <<"newline">>[i]
  <2> DEFINE newline == <<"newline">>
  <2> HIDE DEF newline
  <2>1. c \in Seq(S) /\ Joins(c, b, newline)
    BY <1>4, Joined DEF newline
  <2> HIDE DEF c
  <2>2. QED
    BY <1>4, <2>1 DEF Joins, newline
<1> HIDE DEF c, u
<1>6. ASSUME NEW i \in 1 .. n + 1 PROVE u[i].byte = c[i]
  <2>1. CASE i \in 1 .. n
    BY <1>2, <1>3, <1>5, <2>1
  <2>2. CASE i = n + 1
    <3>1. 1 \in 1 .. 1
      OBVIOUS
    <3>2. u[n + 1] = w[1] /\ c[n + 1] = "newline"
      BY <1>2, <1>4, <1>5, <3>1
    <3>3. QED
      BY <2>2, <3>2
  <2>3. QED
    BY <1>1, <2>1, <2>2
<1>7. c = [i \in 1 .. n + 1 |-> c[i]]
  <2>1. c = [i \in DOMAIN c |-> c[i]]
    BY <1>5
  <2>2. QED
    BY <1>5, <2>1
<1>8. Bytes(u) = c
  BY <1>2, <1>6, <1>7 DEF Bytes
<1>9. QED
  BY <1>8 DEF u, c, b

(* Where a byte of the message is, counted from its end.                     *)
LEMMA FromTheEnd ==
  ASSUME NEW m \in Int, NEW a \in Int, NEW r \in Int, NEW n \in Int, NEW i \in Int, r = a - n
  PROVE  m - a + (n + i) = m - r + i
OBVIOUS

(* What is left of a message after n more bytes.                             *)
EndOf(part, whole) ==
  /\ Len(part) <= Len(whole)
  /\ \A i \in 1 .. Len(part) : part[i] = whole[Len(whole) - Len(part) + i]

RestOf(rest, left, message, n) ==
  /\ rest \in Seq(Texts) /\ Len(rest) = Len(left) - n /\ EndOf(rest, message)
  /\ rest = <<>> <=> n = Len(left)

(* Rest is that.                                                             *)
LEMMA LeftOf ==
  ASSUME NEW message \in Seq(Texts), NEW left \in Seq(Texts), EndOf(left, message),
         NEW n \in 0 .. Len(left), NEW rest, rest = SubSeq(left, n + 1, Len(left))
  PROVE  RestOf(rest, left, message, n)
<1>1. rest \in Seq(Texts) /\ Len(rest) = Len(left) - n
  OBVIOUS
<1>2. \A i \in 1 .. Len(rest) : rest[i] = left[n + i]
  BY <1>1
<1>3. ASSUME NEW i \in 1 .. Len(rest)
      PROVE  rest[i] = message[Len(message) - Len(rest) + i]
  <2>1. n + i \in 1 .. Len(left)
    BY <1>1
  <2>2. left[n + i] = message[Len(message) - Len(left) + (n + i)]
    BY <2>1 DEF EndOf
  <2>3. Len(message) - Len(left) + (n + i) = Len(message) - Len(rest) + i
    <3>1. Len(message) \in Nat /\ Len(left) \in Nat /\ n \in Nat /\ i \in Nat
      OBVIOUS
    <3>2. Len(rest) \in Nat /\ Len(rest) = Len(left) - n
      BY <1>1
    <3> DEFINE m == Len(message)
    <3> DEFINE a == Len(left)
    <3> DEFINE r == Len(rest)
    <3> HIDE DEF m, a, r
    <3>3. m \in Nat /\ a \in Nat /\ n \in Nat /\ i \in Nat /\ r \in Nat /\ r = a - n
      BY <3>1, <3>2 DEF m, a, r
    <3>4. m - a + (n + i) = m - r + i
      BY <3>3, FromTheEnd
    <3>5. QED
      BY <3>4 DEF m, a, r
  <2>4. QED
    BY <1>2, <2>2, <2>3
<1>4. rest = <<>> <=> n = Len(left)
  <2>1. rest = <<>> <=> Len(rest) = 0
    BY <1>1, EmptySeq
  <2>2. QED
    BY <1>1, <2>1
<1>5. Len(rest) <= Len(message)
  <2>1. Len(message) \in Nat /\ Len(left) \in Nat /\ n \in Nat /\ Len(left) <= Len(message)
    BY DEF EndOf
  <2>2. QED
    BY <1>1, <2>1
<1>6. QED
  BY <1>1, <1>3, <1>4, <1>5 DEF EndOf, RestOf

(* A block is never longer than what is left.                                *)
LEMMA BlockFits ==
  ASSUME NEW buffer \in Seq(Texts), NEW flags
  PROVE  /\ BlockSize(buffer, flags) \in 0 .. Len(buffer)
         /\ "XEOS" \notin flags => BlockSize(buffer, flags) = Len(buffer)
<1>1. Found(buffer, flags) \in SUBSET Nat /\ Found(buffer, flags) \subseteq 1 .. Len(buffer)
  BY DEF Found
<1>2. CASE EosBefore(buffer, flags)
  <2>1. Found(buffer, flags) # {}
    BY <1>2 DEF EosBefore
  <2>2. \E i \in Found(buffer, flags) : \A j \in Found(buffer, flags) : i <= j
    BY <1>1, <2>1, Least
  <2>3. find_eos(buffer, flags) \in Found(buffer, flags)
    BY <2>2, Zenon DEF find_eos
  <2>4. QED
    BY <1>1, <1>2, <2>3 DEF BlockSize, EosBefore
<1>3. CASE ~EosBefore(buffer, flags)
  BY <1>3 DEF BlockSize
<1>4. QED
  BY <1>2, <1>3

(* What send_data does to an instrument, listener or not.                     *)
Gets(d, block, n, eoi) ==
  /\ d \notin Listeners(roles) => heard'[d] = heard[d]
  /\ d \in Listeners(roles) => heard'[d] = heard[d] \o Signalled(block, n, eoi)
  /\ n = 0 => heard'[d] = heard[d]
  /\ \A i \in DOMAIN heard'[d] :
       heard'[d][i].eoi => \/ i \in DOMAIN heard[d] /\ heard[d][i].eoi
                           \/ i = Len(heard'[d]) /\ eoi /\ n = Len(block)
  /\ d \in Listeners(roles) /\ n = Len(block) /\ n # 0 /\ eoi => Last(heard'[d]).eoi

(* Each instrument gets that from send_data.                                 *)
LEMMA DataHeard ==
  ASSUME TypeOK, NEW block \in Seq(Texts \union {"newline"}), NEW n \in 0 .. Len(block),
         NEW eoi \in BOOLEAN, send_data(block, n, eoi)
  PROVE  /\ heard' \in [Instruments -> Seq(Signals)]
         /\ \A d \in Instruments : Gets(d, block, n, eoi)
<1> DEFINE w == Signalled(block, n, eoi)
<1>1. heard' = [d \in Instruments |->
                  IF d \in Listeners(roles) THEN heard[d] \o w ELSE heard[d]]
  BY Zenon DEF send_data, Signalled
<1>2. /\ w \in Seq(Signals) /\ Len(w) = n
      /\ \A i \in 1 .. n : /\ w[i].byte = block[i]
                           /\ w[i].eoi <=> eoi /\ i = Len(block)
  <2>1. IsSignalled(w, block, n, eoi)
    BY SignalledType
  <2> HIDE DEF w
  <2>2. QED
    BY <2>1, Zenon DEF IsSignalled
<1> HIDE DEF w
<1>3. ASSUME NEW d \in Instruments PROVE heard[d] \in Seq(Signals)
  BY DEF TypeOK
<1>4. heard' \in [Instruments -> Seq(Signals)]
  <2>1. \A d \in Instruments : heard[d] \o w \in Seq(Signals)
    BY <1>2, <1>3, Joined
  <2>2. QED
    BY <1>1, <1>3, <2>1
<1>5. ASSUME NEW d \in Instruments PROVE Gets(d, block, n, eoi)
  <2>1. CASE d \notin Listeners(roles)
    <3>1. heard'[d] = heard[d]
      BY <1>1, <2>1
    <3>2. QED
      BY <2>1, <3>1 DEF Gets
  <2>2. CASE d \in Listeners(roles)
    <3> DEFINE h == heard[d]
    <3> DEFINE u == heard'[d]
    <3> DEFINE k == Len(heard[d])
    <3>1. u = h \o w /\ h \in Seq(Signals)
      BY <1>1, <1>3, <2>2
    <3> HIDE DEF h, u
    <3>2. Joins(u, h, w)
      BY <1>2, <3>1, Joined
    <3>3. k = Len(h) /\ k \in Nat /\ DOMAIN h = 1 .. k
      BY <3>1 DEF h
    <3> HIDE DEF k
    <3>4. /\ Len(u) = k + n /\ DOMAIN u = 1 .. k + n
          /\ \A i \in 1 .. k : u[i] = h[i]
          /\ \A i \in 1 .. n : u[k + i] = w[i]
      BY <1>2, <3>2, <3>3 DEF Joins
    <3>5. n = 0 => u = h
      BY <1>2, <3>1
    <3>6. ASSUME NEW i \in DOMAIN u, u[i].eoi
          PROVE  (i \in DOMAIN h /\ h[i].eoi) \/ (i = Len(u) /\ eoi /\ n = Len(block))
      <4>1. CASE i <= k
        <5>1. i \in 1 .. k
          BY <3>3, <3>4, <4>1
        <5>2. QED
          BY <3>3, <3>4, <3>6, <5>1
      <4>2. CASE ~(i <= k)
        <5>1. i - k \in 1 .. n /\ k + (i - k) = i /\ i \in Nat
          BY <3>3, <3>4, <4>2
        <5>2. u[i] = w[i - k]
          BY <3>4, <5>1
        <5>3. w[i - k].eoi
          BY <3>6, <5>2
        <5>4. eoi /\ i - k = Len(block)
          BY <1>2, <5>1, <5>3
        <5>5. n = Len(block) /\ i = k + n
          <6>1. Len(block) \in Nat /\ n \in Nat /\ n <= Len(block)
            OBVIOUS
          <6>2. QED
            BY <3>3, <5>1, <5>4, <6>1
        <5>6. QED
          BY <3>4, <5>4, <5>5
      <4>3. QED
        BY <4>1, <4>2
    <3>7. ASSUME n = Len(block), n # 0, eoi PROVE Last(u).eoi
      <4>1. n \in 1 .. n
        BY <3>7
      <4>2. w[n].eoi
        BY <1>2, <3>7, <4>1
      <4>3. u[Len(u)] = w[n]
        BY <3>4, <4>1
      <4>4. QED
        BY <4>2, <4>3 DEF Last
    <3>8. QED
      BY <2>2, <3>1, <3>5, <3>6, <3>7 DEF Gets, h, u, w
  <2>3. QED
    BY <2>1, <2>2
<1>6. QED
  BY <1>4, <1>5

-----------------------------------------------------------------------------
(* The inductive invariant.  left is the end of the message, from the first    *)
(* byte that is not sent; nothing has been heard when a call begins; and no EOI *)
(* goes before the newline of a SendList that asks for one.                   *)
Progress ==
  /\ call.at = "idle" => NothingHeard /\ call = Idle
  /\ EndOf(call.left, call.message)
  /\ call.what = "ibwrt" => call.newline = "no"
  /\ call.what = "SendList" => call.flags = {}
  /\ call.at = "data" => call.newline # "sent" /\ call.what \in Transferring
  /\ call.newline \in {"due", "next"} => ~call.eot
  /\ call.newline = "next" => NoEoi
  /\ call.at = "data" /\ call.what = "SendList" /\ call.newline # "next" => NothingHeard
  /\ call.at = "data" /\ call.what = "ibwrt" /\ call.left = <<>> => NothingHeard

IInv ==
  /\ TypeOK
  /\ AddressedRight
  /\ CommandReachesThose
  /\ InOrder
  /\ EoiAtEnd
  /\ Progress

(* A call of which nothing has been heard yet.                               *)
LEMMA NothingSent ==
  ASSUME call'.left = call'.message, call'.message \in Seq(Texts), call'.newline # "sent",
         NothingHeard', call'.what = "ibwrt" /\ call'.at = "over" => call'.ret = -1
  PROVE  InOrder' /\ EoiAtEnd'
<1>1. Sent' = <<>>
  <2>1. Len(call'.message) \in Nat /\ Len(call'.message) - Len(call'.left) = 0
    OBVIOUS
  <2>2. SubSeq(call'.message, 1, 0) = <<>>
    OBVIOUS
  <2>3. <<>> \o <<>> = <<>>
    OBVIOUS
  <2>4. QED
    BY <2>1, <2>2, <2>3 DEF Sent
<1>2. \A d \in Instruments : heard'[d] = <<>> /\ DOMAIN heard'[d] = {}
      /\ [i \in DOMAIN heard'[d] |-> heard'[d][i].byte] = <<>>
  BY DEF NothingHeard
<1>3. QED
  BY <1>1, <1>2 DEF InOrder, EoiAtEnd

(* The invariant holds at first, and whatever step is taken.                  *)
LEMMA InitInv == Init => IInv
<1> SUFFICES ASSUME Init PROVE IInv
  OBVIOUS
<1>1. <<>> \in Seq(Texts) /\ <<>> \in Seq(Signals) /\ Len(<<>>) = 0
  OBVIOUS
<1>2. call \in Calls
  BY <1>1 DEF Init, Idle, Calls
<1>3. TypeOK
  BY <1>1, <1>2 DEF Init, TypeOK, Roles, Quiet
<1>4. NothingHeard /\ call = Idle
  BY DEF Init, NothingHeard
<1>5. Progress
  BY <1>1, <1>4 DEF Progress, EndOf, Idle
<1>6. AddressedRight /\ CommandReachesThose
  BY <1>4 DEF AddressedRight, CommandReachesThose, Idle
<1>7. InOrder /\ EoiAtEnd
  BY <1>4 DEF InOrder, EoiAtEnd, Writes, Idle
<1>8. QED
  BY <1>3, <1>5, <1>6, <1>7 DEF IInv

(* Using the bus for something else disturbs no call.                        *)
LEMMA BusInv ==
  ASSUME IInv, BusStep
  PROVE  IInv'
<1>1. call' = call /\ heard' = heard /\ call.at = "idle" /\ obeyed' = obeyed
  BY DEF BusStep, Free
<1>2. TypeOK' /\ AddressedRight'
  BY <1>1 DEF IInv, TypeOK, BusStep, AddressedRight
<1>3. CommandReachesThose'
  BY <1>1 DEF IInv, CommandReachesThose
<1>4. InOrder' /\ EoiAtEnd'
  BY <1>1 DEF IInv, InOrder, EoiAtEnd, Sent, Writes
<1>5. Progress'
  BY <1>1 DEF IInv, Progress, NothingHeard, NoEoi
<1>6. QED
  BY <1>2, <1>3, <1>4, <1>5 DEF IInv

(* A transfer that begins has moved nothing yet.                             *)
LEMMA BeginInv ==
  ASSUME IInv, BeginStep
  PROVE  IInv'
<1>1. heard' = heard /\ obeyed' = obeyed /\ NothingHeard
  BY DEF BeginStep, IInv, Progress, Free
<1>2. TypeOK'
  BY <1>1 DEF BeginStep, IInv, TypeOK
<1>3. call' \in Calls /\ call'.message \in Seq(Texts) /\ call'.what \in Transferring
      /\ heard' \in [Instruments -> Seq(Signals)]
  BY <1>2 DEF TypeOK, Calls, BeginStep
<1>4. NothingHeard'
  BY <1>1 DEF NothingHeard
<1>5. InOrder' /\ EoiAtEnd'
  <2>1. /\ call'.left = call'.message /\ call'.newline # "sent"
        /\ call'.what = "ibwrt" /\ call'.at = "over" => call'.ret = -1
    BY DEF BeginStep
  <2>2. QED
    BY <1>3, <1>4, <2>1, NothingSent
<1>6. CommandReachesThose'
  BY <1>3 DEF CommandReachesThose, Transferring
<1>7. Progress'
  <2>1. Len(call'.message) \in Nat /\ call'.left = call'.message
    BY <1>3 DEF BeginStep
  <2>2. \A i \in 1 .. Len(call'.left) :
          call'.left[i] = call'.message[Len(call'.message) - Len(call'.left) + i]
    BY <2>1
  <2>3. QED
    BY <1>3, <1>4, <2>1, <2>2 DEF Progress, EndOf, BeginStep
<1>8. AddressedRight'
  BY DEF BeginStep
<1>9. QED
  BY <1>2, <1>5, <1>6, <1>7, <1>8 DEF IInv

(* A command moves no data.                                                  *)
LEMMA CommandInv ==
  ASSUME IInv, CommandStep
  PROVE  IInv'
<1>1. heard' = heard /\ NothingHeard
  BY DEF CommandStep, IInv, Progress, Free
<1>2. TypeOK'
  BY <1>1 DEF CommandStep, IInv, TypeOK
<1>3. call' \in Calls /\ call'.message \in Seq(Texts) /\ call'.what \in Commanding
      /\ heard' \in [Instruments -> Seq(Signals)]
  BY <1>2 DEF TypeOK, Calls, CommandStep
<1>4. NothingHeard'
  BY <1>1 DEF NothingHeard
<1>5. call'.what \notin Transferring /\ call'.at = "over" /\ call'.newline = "no"
      /\ call'.left = call'.message
  BY <1>3 DEF CommandStep, Commanding, Transferring
<1>6. InOrder' /\ EoiAtEnd'
  BY <1>3, <1>4, <1>5, NothingSent DEF Transferring
<1>7. AddressedRight' /\ CommandReachesThose'
  BY <1>5 DEF CommandStep, AddressedRight
<1>8. Progress'
  <2>1. Len(call'.message) \in Nat
    BY <1>3
  <2>2. \A i \in 1 .. Len(call'.left) :
          call'.left[i] = call'.message[Len(call'.message) - Len(call'.left) + i]
    BY <1>5, <2>1
  <2>3. QED
    BY <1>5, <2>1, <2>2 DEF Progress, EndOf, Transferring
<1>9. QED
  BY <1>2, <1>6, <1>7, <1>8 DEF IInv

(* A call that has returned leaves the roles and the end-of-string mode      *)
(* behind.                                                                   *)
LEMMA ReturnInv ==
  ASSUME IInv, Return
  PROVE  IInv'
<1>1. <<>> \in Seq(Texts) /\ <<>> \in Seq(Signals) /\ Len(<<>>) = 0
  OBVIOUS
<1>2. call' = Idle /\ roles' = roles /\ eos_mode' = eos_mode /\ obeyed' = {}
      /\ heard' = [d \in Instruments |-> <<>>]
  BY DEF Return
<1>3. call' \in Calls
  BY <1>1, <1>2 DEF Idle, Calls
<1>4. TypeOK'
  BY <1>1, <1>2, <1>3 DEF IInv, TypeOK
<1>5. NothingHeard'
  BY <1>2 DEF NothingHeard
<1>6. Progress'
  BY <1>1, <1>2, <1>5 DEF Progress, EndOf, Idle
<1>7. AddressedRight' /\ CommandReachesThose' /\ InOrder' /\ EoiAtEnd'
  BY <1>2 DEF AddressedRight, CommandReachesThose, InOrder, EoiAtEnd, Writes, Idle
<1>8. QED
  BY <1>4, <1>6, <1>7 DEF IInv

(* A read moves data to the caller; the instruments hear none of it.          *)
LEMMA ReadInv ==
  ASSUME IInv, read_data
  PROVE  IInv'
<1>1. PICK retval \in {0, -1} : Ends(call.what, call.to, retval)
  BY DEF read_data
<1>2. /\ call.what \in {"ibrd", "Receive"}
      /\ roles' = roles /\ eos_mode' = eos_mode /\ heard' = heard /\ obeyed' = obeyed
  BY DEF read_data
<1>3. call.to \in SUBSET Devices
  BY DEF IInv, TypeOK, Calls
<1>4. IsOver(call', call.what, call.to, retval)
  <2>1. call.what \in Transferring \union Commanding
    BY <1>2 DEF Transferring
  <2>2. IsOver([Over EXCEPT !.what = call.what, !.to = call.to, !.ret = retval],
               call.what, call.to, retval)
    BY <1>3, <2>1, OverCall
  <2>3. QED
    BY <1>1, <2>2 DEF Ends
<1>5. /\ call'.what \in {"ibrd", "Receive"} /\ call'.at = "over" /\ call'.newline = "no"
      /\ call'.left = <<>> /\ call'.message = <<>> /\ call' \in Calls
  BY <1>2, <1>4 DEF IsOver
<1>6. TypeOK'
  BY <1>2, <1>5 DEF IInv, TypeOK
<1>7. Progress'
  BY <1>5 DEF Progress, EndOf
<1>8. AddressedRight' /\ CommandReachesThose' /\ InOrder' /\ EoiAtEnd'
  BY <1>5 DEF AddressedRight, CommandReachesThose, InOrder, EoiAtEnd, Writes
<1>9. QED
  BY <1>6, <1>7, <1>8 DEF IInv

(* An empty message is over at once.                                         *)
LEMMA EmptyInv ==
  ASSUME IInv, NothingToSend
  PROVE  IInv'
<1>1. /\ call' = [call EXCEPT !.at = "over"] /\ call.what = "ibwrt" /\ call.at = "data"
      /\ call.left = <<>> /\ call \in Calls
      /\ roles' = roles /\ eos_mode' = eos_mode /\ heard' = heard /\ obeyed' = obeyed
  BY DEF NothingToSend, IInv, TypeOK
<1>2. /\ call' \in Calls /\ call'.at = "over" /\ call'.what = call.what
      /\ call'.to = call.to /\ call'.message = call.message /\ call'.left = call.left
      /\ call'.flags = call.flags /\ call'.eot = call.eot /\ call'.newline = call.newline
      /\ call'.blind = call.blind /\ call'.miscounts = call.miscounts
  BY <1>1 DEF Calls
<1>3. TypeOK'
  BY <1>1, <1>2 DEF IInv, TypeOK
<1>4. NothingHeard /\ NothingHeard'
  BY <1>1 DEF IInv, Progress, NothingHeard
<1>5. Progress'
  BY <1>1, <1>2, <1>4 DEF IInv, Progress, NothingHeard, NoEoi
<1>6. AddressedRight' /\ CommandReachesThose'
  BY <1>1, <1>2 DEF AddressedRight, CommandReachesThose
<1>7. InOrder'
  <2>1. Sent' = Sent
    BY <1>2 DEF Sent
  <2>2. QED
    BY <1>1, <1>2, <2>1 DEF IInv, InOrder, Writes
<1>8. EoiAtEnd'
  BY <1>4 DEF EoiAtEnd, NothingHeard
<1>9. QED
  BY <1>3, <1>5, <1>6, <1>7, <1>8 DEF IInv

(* A block of the message goes out, or the first n bytes of it, and k are      *)
(* reported.                                                                 *)
BlockOut(size, n, k, eoi, newline) ==
  /\ call.at = "data" /\ Writes /\ call.newline \in {"no", "due"}
  /\ size \in 0 .. Len(call.left) /\ n \in 0 .. size /\ k \in 0 .. size /\ eoi \in BOOLEAN
  /\ send_data(SubSeq(call.left, 1, size), n, eoi)
  /\ call' \in Calls
  /\ call'.what = call.what /\ call'.to = call.to /\ call'.message = call.message
  /\ call'.flags = call.flags /\ call'.eot = call.eot /\ call'.blind = call.blind
  /\ call'.left = Rest(k) /\ call'.newline = newline
  /\ call'.miscounts = 0 => call.miscounts = 0 /\ n = k
  /\ UNCHANGED <<roles, eos_mode, obeyed>>

(* What is left and what is heard after a block.                             *)
LEMMA OutFacts ==
  ASSUME IInv, NEW size, NEW n, NEW k, NEW eoi, NEW newline, BlockOut(size, n, k, eoi, newline)
  PROVE  /\ call.message \in Seq(Texts) /\ call.left \in Seq(Texts)
         /\ call'.left \in Seq(Texts) /\ Len(call'.left) = Len(call.left) - k
         /\ EndOf(call'.left, call'.message)
         /\ call'.left = <<>> <=> k = Len(call.left)
         /\ heard' \in [Instruments -> Seq(Signals)]
         /\ \A d \in Instruments : Gets(d, SubSeq(call.left, 1, size), n, eoi)
         /\ Len(SubSeq(call.left, 1, size)) = size
<1>1. /\ call.message \in Seq(Texts) /\ call.left \in Seq(Texts)
      /\ EndOf(call.left, call.message)
  BY DEF IInv, TypeOK, Calls, Progress
<1>2. size \in 0 .. Len(call.left) /\ n \in 0 .. size /\ k \in 0 .. Len(call.left)
      /\ Len(call.left) \in Nat
  BY <1>1 DEF BlockOut
<1>3. call'.left = SubSeq(call.left, k + 1, Len(call.left)) /\ call'.message = call.message
  BY DEF BlockOut, Rest
<1>4. /\ call'.left \in Seq(Texts) /\ Len(call'.left) = Len(call.left) - k
      /\ EndOf(call'.left, call.message) /\ (call'.left = <<>> <=> k = Len(call.left))
  <2> DEFINE message == call.message
  <2> DEFINE left == call.left
  <2> DEFINE rest == call'.left
  <2>1. /\ message \in Seq(Texts) /\ left \in Seq(Texts) /\ EndOf(left, message)
        /\ k \in 0 .. Len(left) /\ rest = SubSeq(left, k + 1, Len(left))
    BY <1>1, <1>2, <1>3
  <2> HIDE DEF message, left, rest
  <2>2. RestOf(rest, left, message, k)
    BY <2>1, LeftOf
  <2>3. QED
    BY <2>2 DEF RestOf, message, left, rest
<1>5. /\ SubSeq(call.left, 1, size) \in Seq(Texts \union {"newline"})
      /\ Len(SubSeq(call.left, 1, size)) = size
  BY <1>1, <1>2
<1>6. /\ heard' \in [Instruments -> Seq(Signals)]
      /\ \A d \in Instruments : Gets(d, SubSeq(call.left, 1, size), n, eoi)
  BY <1>2, <1>5, DataHeard DEF IInv, BlockOut
<1>7. QED
  BY <1>1, <1>3, <1>4, <1>5, <1>6

(* The first conjunct of InOrder after such a block.                          *)
LEMMA OutInOrder ==
  ASSUME IInv, NEW size, NEW n, NEW reported, NEW eoi, NEW newline,
         BlockOut(size, n, reported, eoi, newline),
         newline # "sent", ~call.blind, NEW d \in Instruments
  PROVE  /\ d \notin call'.to => heard'[d] = <<>>
         /\ d \in call'.to /\ call'.miscounts = 0 => Bytes(heard'[d]) = Sent'
<1> DEFINE message == call.message
<1> DEFINE left == call.left
<1> DEFINE k == Len(message) - Len(left)
<1> DEFINE block == SubSeq(left, 1, size)
<1>1. /\ message \in Seq(Texts) /\ left \in Seq(Texts) /\ Len(left) <= Len(message)
      /\ \A i \in 1 .. Len(left) : left[i] = message[k + i]
      /\ size \in 0 .. Len(left) /\ n \in 0 .. size /\ eoi \in BOOLEAN
  BY OutFacts DEF IInv, Progress, EndOf, BlockOut
<1>2. k \in Nat /\ n \in Nat /\ k + n <= Len(message) /\ Len(message) \in Nat
      /\ Len(left) \in Nat /\ Len(message) - (Len(left) - n) = k + n
  BY <1>1
<1>3. /\ block \in Seq(Texts \union {"newline"}) /\ Len(block) = size
      /\ \A i \in 1 .. n : block[i] = left[i] /\ i \in 1 .. Len(left)
  BY <1>1
<1>4. Gets(d, block, n, eoi)
  BY OutFacts
<1>5. /\ Sent = SubSeq(message, 1, k)
      /\ call'.miscounts = 0 => Sent' = SubSeq(message, 1, k + n)
  <2>1. call.newline # "sent" /\ call'.newline # "sent" /\ call'.message = message
        /\ (n = reported => Len(call'.left) = Len(left) - n)
    BY OutFacts DEF BlockOut
  <2>2. SubSeq(message, 1, k) \in Seq(Texts) /\ SubSeq(message, 1, k + n) \in Seq(Texts)
    BY <1>1, <1>2
  <2>3. \A s \in Seq(Texts) : s \o <<>> = s
    BY ConcatEmptySeq
  <2>4. Sent = SubSeq(message, 1, k) \o <<>>
    BY <2>1 DEF Sent
  <2>5. n = reported => Sent' = SubSeq(message, 1, k + n) \o <<>>
    BY <1>2, <2>1 DEF Sent
  <2>6. call'.miscounts = 0 => n = reported
    BY DEF BlockOut
  <2>7. QED
    BY <2>2, <2>3, <2>4, <2>5, <2>6
<1>6. /\ d \notin call.to => heard[d] = <<>>
      /\ d \in call.to /\ call.miscounts = 0 => Bytes(heard[d]) = SubSeq(message, 1, k)
  BY <1>5 DEF IInv, InOrder, BlockOut, Bytes
<1>7. Listeners(roles) = call.to /\ call'.to = call.to
  BY DEF IInv, AddressedRight, BlockOut, Reads, Writes
<1>8. CASE d \notin call.to
  BY <1>4, <1>6, <1>7, <1>8 DEF Gets
<1>9. CASE d \in call.to /\ call'.miscounts = 0
  <2> DEFINE h == heard[d]
  <2> DEFINE w == Signalled(block, n, eoi)
  <2>1. heard'[d] = h \o w /\ h \in Seq(Signals) /\ Bytes(h) = SubSeq(message, 1, k)
    <3>1. heard'[d] = heard[d] \o Signalled(block, n, eoi)
      BY <1>4, <1>7, <1>9 DEF Gets
    <3>2. heard[d] \in Seq(Signals)
      BY DEF IInv, TypeOK
    <3>3. Bytes(heard[d]) = SubSeq(message, 1, k)
      BY <1>6, <1>9 DEF BlockOut
    <3>4. QED
      BY <3>1, <3>2, <3>3
  <2>2. /\ w \in Seq(Signals) /\ Len(w) = n
        /\ \A i \in 1 .. n : w[i].byte = block[i]
    <3>1. n \in 0 .. Len(block)
      BY <1>1, <1>3
    <3> HIDE DEF block
    <3>2. IsSignalled(w, block, n, eoi)
      BY <1>1, <1>3, <3>1, SignalledType
    <3> HIDE DEF w
    <3>3. QED
      BY <3>2 DEF IsSignalled
  <2>3. ASSUME NEW i \in 1 .. n PROVE w[i].byte = message[k + i]
    <3> HIDE DEF block, k, w
    <3>1. w[i].byte = block[i] /\ block[i] = left[i] /\ i \in 1 .. Len(left)
      BY <1>3, <2>2
    <3>2. left[i] = message[k + i]
      BY <1>1, <3>1
    <3>3. QED
      BY <3>1, <3>2
  <2> HIDE DEF block
  <2> HIDE DEF h, w, k, message
  <2>4. Bytes(h \o w) = SubSeq(message, 1, k + n)
    <3>1. Continues(w, message, k, n)
      BY <2>2, <2>3 DEF Continues
    <3>2. /\ message \in Seq(Texts) /\ k \in Nat /\ n \in Nat /\ k + n <= Len(message)
          /\ h \in Seq(Signals) /\ Bytes(h) = SubSeq(message, 1, k)
      BY <1>1, <1>2, <2>1
    <3>3. QED
      BY <3>1, <3>2, HeardMore
  <2>5. QED
    BY <1>5, <1>7, <1>9, <2>1, <2>4
<1>10. QED
  BY <1>7, <1>8, <1>9

(* What my_ibwrt and InternalSendDataBytes have in common.                    *)
BlockRules(size, eoi, newline) ==
  /\ newline \in {"no", "next"} /\ call'.at \in {"data", "over"}
  /\ newline = "next" => call.newline = "due" /\ call.what = "SendList"
  /\ "XEOS" \notin call.flags => size = Len(call.left) /\ (eoi <=> call.eot)
  /\ call.what = "ibwrt" => /\ call.left # <<>>
                            /\ call'.at = "data" => call'.left # <<>>
                            /\ call'.at = "over" /\ call'.ret = 0 => call'.left = <<>>
  /\ call.what = "SendList" /\ call'.at = "data" => newline = "next"

(* EoiAtEnd after a block: EOI has gone out with the last byte of the        *)
(* message only.                                                             *)
LEMMA OutEoi ==
  ASSUME IInv, NEW size, NEW n, NEW reported, NEW eoi, NEW newline, BlockOut(size, n, reported, eoi, newline),
         BlockRules(size, eoi, newline)
  PROVE  EoiAtEnd'
<1>1. SUFFICES ASSUME "XEOS" \notin call.flags, call.miscounts = 0, n = reported, NEW d \in Instruments
      PROVE  /\ \A i \in DOMAIN heard'[d] :
                  heard'[d][i].eoi => i = Len(heard'[d]) /\ call'.left = <<>>
             /\ d \in call'.to /\ ~call'.blind /\ call'.eot /\ call'.at = "over"
                /\ call'.ret = 0 /\ heard'[d] # <<>> /\ call'.left = <<>>
                => Last(heard'[d]).eoi
  BY DEF EoiAtEnd, BlockOut
<1>2. size = Len(call.left) /\ (eoi <=> call.eot)
  BY <1>1 DEF BlockRules
<1>3. /\ Gets(d, SubSeq(call.left, 1, size), n, eoi) /\ Len(SubSeq(call.left, 1, size)) = size
      /\ call'.left = <<>> <=> reported = Len(call.left)
      /\ call.left \in Seq(Texts)
  <2>1. Gets(d, SubSeq(call.left, 1, size), n, eoi)
    BY OutFacts
  <2>2. Len(SubSeq(call.left, 1, size)) = size
    BY OutFacts
  <2>3. (call'.left = <<>> <=> reported = Len(call.left)) /\ call.left \in Seq(Texts)
    BY OutFacts
  <2>4. QED
    BY <2>1, <2>2, <2>3
<1>4. call.what \in {"ibwrt", "SendList"} /\ call.at = "data" /\ call.newline \in {"no", "due"}
  BY DEF BlockOut, Writes
<1>5. \A i \in DOMAIN heard[d] : ~heard[d][i].eoi
  <2>1. CASE call.what = "ibwrt"
    <3>1. call.left # <<>>
      BY <2>1 DEF BlockRules
    <3>2. QED
      BY <1>1, <1>4, <3>1 DEF IInv, EoiAtEnd, Writes
  <2>2. CASE call.what = "SendList"
    BY <1>4, <2>2 DEF IInv, Progress, NothingHeard
  <2>3. QED
    BY <1>4, <2>1, <2>2
<1>6. ASSUME NEW i \in DOMAIN heard'[d], heard'[d][i].eoi
      PROVE  i = Len(heard'[d]) /\ call'.left = <<>>
  BY <1>1, <1>2, <1>3, <1>5, <1>6 DEF Gets
<1>7. ASSUME d \in call'.to, ~call'.blind, call'.eot, heard'[d] # <<>>, call'.left = <<>>
      PROVE  Last(heard'[d]).eoi
  <2>1. n = size /\ eoi /\ d \in call.to /\ ~call.blind
    BY <1>1, <1>2, <1>3, <1>7 DEF BlockOut
  <2>2. d \in Listeners(roles)
    BY <1>4, <2>1 DEF IInv, AddressedRight, Reads
  <2>3. n # 0
    <3>1. CASE call.what = "ibwrt"
      <4>1. call.left # <<>>
        BY <3>1 DEF BlockRules
      <4>2. QED
        BY <1>2, <1>3, <2>1, <4>1, EmptySeq
    <3>2. CASE call.what = "SendList"
      <4>1. heard[d] = <<>>
        BY <1>4, <3>2 DEF IInv, Progress, NothingHeard
      <4>2. QED
        BY <1>3, <1>7, <4>1 DEF Gets
    <3>3. QED
      BY <1>4, <3>1, <3>2
  <2>4. QED
    BY <1>3, <2>1, <2>2, <2>3 DEF Gets
<1>8. QED
  BY <1>6, <1>7

(* A block of the message keeps the invariant.                               *)
LEMMA OutInv ==
  ASSUME IInv, NEW size, NEW n, NEW k, NEW eoi, NEW newline, BlockOut(size, n, k, eoi, newline),
         BlockRules(size, eoi, newline)
  PROVE  IInv'
<1>1. /\ heard' \in [Instruments -> Seq(Signals)]
      /\ \A d \in Instruments : Gets(d, SubSeq(call.left, 1, size), n, eoi)
      /\ EndOf(call'.left, call'.message)
  BY OutFacts
<1>2. /\ call' \in Calls /\ roles' = roles /\ eos_mode' = eos_mode /\ obeyed' = obeyed
      /\ call'.what = call.what /\ call'.to = call.to /\ call'.blind = call.blind
      /\ call'.flags = call.flags /\ call'.eot = call.eot /\ call'.newline = newline
      /\ call.at = "data" /\ call.what \in {"ibwrt", "SendList"}
      /\ call.newline \in {"no", "due"}
  BY DEF BlockOut, Writes
<1>3. TypeOK'
  BY <1>1, <1>2 DEF IInv, TypeOK
<1>4. AddressedRight'
  BY <1>2 DEF IInv, AddressedRight, Reads, Talkers, Listeners
<1>5. CommandReachesThose'
  BY <1>2 DEF CommandReachesThose
<1>6. InOrder'
  <2>1. newline # "sent"
    BY DEF BlockRules
  <2>2. ASSUME ~call'.blind, NEW d \in Instruments
        PROVE  /\ d \notin call'.to => heard'[d] = <<>>
               /\ d \in call'.to /\ call'.miscounts = 0 => Bytes(heard'[d]) = Sent'
    BY <1>2, <2>1, <2>2, OutInOrder
  <2>3. call'.what = "ibwrt" /\ call'.at = "over" /\ call'.ret = 0 => call'.left = <<>>
    BY <1>2 DEF BlockRules
  <2>4. QED
    BY <2>2, <2>3 DEF InOrder, Bytes
<1>7. EoiAtEnd'
  BY OutEoi
<1>8. Progress'
  <2>1. newline = "next" => ~call.eot /\ NoEoi'
    <3>1. SUFFICES ASSUME newline = "next" PROVE ~call.eot /\ NoEoi'
      OBVIOUS
    <3>2. call.newline = "due" /\ call.what = "SendList"
      BY <3>1 DEF BlockRules
    <3>3. ~call.eot /\ NothingHeard /\ call.flags = {}
      BY <1>2, <3>2 DEF IInv, Progress
    <3>4. ~eoi
      BY <3>3 DEF BlockRules
    <3>5. \A d \in Instruments : \A i \in DOMAIN heard'[d] : ~heard'[d][i].eoi
      <4>1. SUFFICES ASSUME NEW d \in Instruments, NEW i \in DOMAIN heard'[d],
                            heard'[d][i].eoi
                     PROVE  FALSE
        OBVIOUS
      <4>2. Gets(d, SubSeq(call.left, 1, size), n, eoi)
        BY <1>1
      <4>3. heard[d] = <<>> /\ DOMAIN heard[d] = {}
        BY <3>3 DEF NothingHeard
      <4>4. QED
        BY <3>4, <4>1, <4>2, <4>3 DEF Gets
    <3>6. QED
      BY <3>3, <3>5 DEF NoEoi
  <2>2. newline # "sent" /\ newline # "due"
    BY DEF BlockRules
  <2>3. call.what = "ibwrt" => newline = "no"
    BY DEF BlockRules
  <2>4. call.what = "SendList" => call.flags = {}
    BY DEF IInv, Progress
  <2>5. /\ call'.at # "idle"
        /\ call.what = "SendList" /\ call'.at = "data" => newline = "next"
        /\ call.what = "ibwrt" /\ call'.at = "data" => call'.left # <<>>
    BY DEF BlockRules
  <2>6. QED
    BY <1>1, <1>2, <2>1, <2>2, <2>3, <2>4, <2>5 DEF Progress, Transferring
<1>9. QED
  BY <1>3, <1>4, <1>5, <1>6, <1>7, <1>8 DEF IInv

(* What is reported of a block, and what it does to the count of wrong reports. *)
IsOutcome(o, size) ==
  /\ o.heard \in 0 .. size /\ o.reported \in 0 .. size /\ o.failed \in BOOLEAN
  /\ Miscounts(o) \in Nat
  /\ Miscounts(o) = 0 => call.miscounts = 0 /\ o.heard = o.reported

(* Each of the outcomes is of that kind.                                     *)
LEMMA OutcomeFacts ==
  ASSUME call \in Calls, NEW size, NEW o \in Outcomes(size)
  PROVE  IsOutcome(o, size)
<1>1. call.miscounts \in Nat
  BY DEF Calls
<1>2. o.heard \in 0 .. size /\ o.reported \in 0 .. size /\ o.failed \in BOOLEAN
  BY DEF Outcomes
<1>3. QED
  BY <1>1, <1>2 DEF IsOutcome, Miscounts

(* One turn of the loop of my_ibwrt.                                         *)
LEMMA SendInv ==
  ASSUME IInv, SendBlock
  PROVE  IInv'
<1> DEFINE size == BlockSize(call.left, call.flags)
<1> DEFINE eoi == call.eot \/ EosBefore(call.left, call.flags)
<1>1. /\ call.at = "data" /\ call.what = "ibwrt" /\ call.left # <<>> /\ call \in Calls
      /\ call.left \in Seq(Texts)
  BY DEF SendBlock, IInv, TypeOK, Calls
<1>2. CASE UNCHANGED vars
  <2>1. UNCHANGED <<roles, eos_mode, call, heard, obeyed>>
    BY <1>2 DEF vars
  <2>2. TypeOK' /\ AddressedRight'
    BY <2>1 DEF IInv, TypeOK, AddressedRight, Reads, Talkers, Listeners
  <2>3. CommandReachesThose' /\ InOrder' /\ EoiAtEnd'
    BY <2>1 DEF IInv, CommandReachesThose, InOrder, EoiAtEnd, Sent, Writes
  <2>4. Progress'
    BY <2>1 DEF IInv, Progress, NothingHeard, NoEoi
  <2>5. QED
    BY <2>2, <2>3, <2>4 DEF IInv
<1>3. ASSUME NEW o \in Outcomes(size),
             send_data(SubSeq(call.left, 1, size), o.heard, eoi),
             LET rest == Rest(o.reported)
             IN  call' = [call EXCEPT !.left = rest, !.ret = IF o.failed THEN -1 ELSE 0,
                                      !.miscounts = Miscounts(o),
                                      !.at = IF o.failed \/ rest = <<>> THEN "over" ELSE @],
             UNCHANGED <<roles, eos_mode, obeyed>>
      PROVE  IInv'
  <2> DEFINE n == o.heard
  <2> DEFINE k == o.reported
  <2> DEFINE failed == o.failed
  <2>0. IsOutcome(o, size)
    BY <1>1, OutcomeFacts
  <2>1. size \in 0 .. Len(call.left) /\ ("XEOS" \notin call.flags => size = Len(call.left))
    BY <1>1, BlockFits
  <2>2. eoi \in BOOLEAN /\ ("XEOS" \notin call.flags => (eoi <=> call.eot))
    BY <1>1 DEF Calls, EosBefore
  <2> HIDE DEF size, eoi
  <2>3. Rest(k) \in Seq(Texts)
    <3>1. k \in Nat /\ Len(call.left) \in Nat /\ k + 1 \in Int
      BY <1>1, <2>0, <2>1 DEF IsOutcome
    <3>2. QED
      BY <1>1, <3>1 DEF Rest
  <2>4. call.newline = "no"
    BY <1>1 DEF IInv, Progress
  <2> DEFINE ret == IF failed THEN -1 ELSE 0
  <2> DEFINE at == IF failed \/ Rest(k) = <<>> THEN "over" ELSE call.at
  <2> DEFINE miscounts == Miscounts(o)
  <2>5. call' = [call EXCEPT !.left = Rest(k), !.ret = ret, !.miscounts = miscounts, !.at = at]
    BY <1>3
  <2>6. /\ ret \in {0, -1} /\ at \in {"data", "over"} /\ (at = "data" => Rest(k) # <<>>)
        /\ (at = "over" /\ ret = 0 => Rest(k) = <<>>)
    BY <1>1
  <2>12. miscounts \in Nat /\ (miscounts = 0 => call.miscounts = 0 /\ n = k)
    BY <2>0 DEF IsOutcome
  <2> HIDE DEF ret, at, miscounts
  <2>7. call' \in Calls
    BY <1>1, <2>3, <2>5, <2>6, <2>12 DEF Calls
  <2>8. /\ call'.what = call.what /\ call'.to = call.to /\ call'.message = call.message
        /\ call'.flags = call.flags /\ call'.eot = call.eot /\ call'.blind = call.blind
        /\ call'.left = Rest(k) /\ call'.newline = "no" /\ call'.at = at /\ call'.ret = ret
        /\ call'.miscounts = miscounts
    BY <1>1, <2>4, <2>5 DEF Calls
  <2>9. BlockOut(size, n, k, eoi, "no")
    BY <1>1, <1>3, <2>0, <2>1, <2>2, <2>4, <2>7, <2>8, <2>12 DEF BlockOut, Writes, IsOutcome
  <2>10. BlockRules(size, eoi, "no")
    BY <1>1, <2>1, <2>2, <2>6, <2>8 DEF BlockRules
  <2>11. QED
    BY <2>9, <2>10, OutInv
<1>4. QED
  BY <1>2, <1>3 DEF SendBlock

(* The one block of an InternalSendDataBytes.                                 *)
LEMMA DataInv ==
  ASSUME IInv, call.at = "data", call.what = "SendList", call.newline # "next",
         NEW o \in Outcomes(Len(call.left)), send_data(call.left, o.heard, call.eot),
         NEW more \in BOOLEAN, more <=> ~o.failed /\ call.newline = "due",
         call' = [call EXCEPT !.left = Rest(o.reported), !.ret = IF o.failed THEN -1 ELSE 0,
                              !.miscounts = Miscounts(o),
                              !.newline = IF more THEN "next" ELSE "no",
                              !.at = IF more THEN @ ELSE "over"],
         UNCHANGED <<roles, eos_mode, obeyed>>
  PROVE  IInv'
<1> DEFINE size == Len(call.left)
<1> DEFINE n == o.heard
<1> DEFINE k == o.reported
<1> DEFINE failed == o.failed
<1>0. IsOutcome(o, size)
  BY OutcomeFacts DEF IInv, TypeOK
<1>1. /\ call \in Calls /\ call.left \in Seq(Texts) /\ call.eot \in BOOLEAN
      /\ call.newline \in {"no", "due"} /\ size \in Nat
  BY DEF IInv, TypeOK, Calls, Progress
<1>2. SubSeq(call.left, 1, size) = call.left
  BY <1>1
<1>3. Rest(k) \in Seq(Texts)
  <2>1. k \in Nat /\ k + 1 \in Int
    BY <1>0, <1>1 DEF IsOutcome
  <2>2. QED
    BY <1>1, <2>1 DEF Rest
<1> DEFINE ret == IF failed THEN -1 ELSE 0
<1> DEFINE newline == IF more THEN "next" ELSE "no"
<1> DEFINE at == IF more THEN call.at ELSE "over"
<1> DEFINE miscounts == Miscounts(o)
<1>4. call' = [call EXCEPT !.left = Rest(k), !.ret = ret, !.miscounts = miscounts,
                           !.newline = newline, !.at = at]
  OBVIOUS
<1>5. /\ ret \in {0, -1} /\ at \in {"data", "over"} /\ newline \in {"no", "next"}
      /\ (at = "data" => newline = "next") /\ (newline = "next" => call.newline = "due")
  OBVIOUS
<1>11. miscounts \in Nat /\ (miscounts = 0 => call.miscounts = 0 /\ n = k)
  BY <1>0 DEF IsOutcome
<1> HIDE DEF ret, newline, at, miscounts
<1>6. call' \in Calls
  BY <1>1, <1>3, <1>4, <1>5, <1>11 DEF Calls
<1>7. /\ call'.what = call.what /\ call'.to = call.to /\ call'.message = call.message
      /\ call'.flags = call.flags /\ call'.eot = call.eot /\ call'.blind = call.blind
      /\ call'.left = Rest(k) /\ call'.newline = newline /\ call'.at = at
      /\ call'.miscounts = miscounts
  BY <1>1, <1>4 DEF Calls
<1>8. BlockOut(size, n, k, call.eot, newline)
  <2>1. send_data(SubSeq(call.left, 1, size), n, call.eot)
    BY <1>2, Zenon DEF send_data
  <2>2. size \in 0 .. Len(call.left) /\ n \in 0 .. size /\ k \in 0 .. size
    BY <1>0, <1>1 DEF IsOutcome
  <2>3. QED
    BY <1>1, <1>6, <1>7, <1>11, <2>1, <2>2 DEF BlockOut, Writes
<1>9. BlockRules(size, call.eot, newline)
  BY <1>5, <1>7 DEF BlockRules
<1>10. QED
  BY <1>8, <1>9, OutInv

(* The newline after it.                                                     *)
LEMMA NewlineInv ==
  ASSUME IInv, call.at = "data", call.what = "SendList", call.newline = "next",
         NEW o \in Outcomes(1), send_data(<<"newline">>, o.heard, TRUE),
         call' = [call EXCEPT !.at = "over", !.ret = IF o.failed THEN -1 ELSE 0,
                              !.miscounts = Miscounts(o),
                              !.newline = IF o.heard = 1 THEN "sent" ELSE "no"],
         UNCHANGED <<roles, eos_mode, obeyed>>
  PROVE  IInv'
<1> DEFINE block == <<"newline">>
<1> DEFINE n == o.heard
<1> DEFINE ret == IF o.failed THEN -1 ELSE 0
<1> DEFINE miscounts == Miscounts(o)
<1> DEFINE newline == IF n = 1 THEN "sent" ELSE "no"
<1> DEFINE eoi == TRUE
<1>1. block \in Seq(Texts \union {"newline"}) /\ Len(block) = 1 /\ block[1] = "newline"
      /\ eoi \in BOOLEAN
  OBVIOUS
<1>2. call' = [call EXCEPT !.at = "over", !.ret = ret, !.miscounts = miscounts,
                           !.newline = newline]
  OBVIOUS
<1>3. ret \in {0, -1} /\ newline \in {"sent", "no"} /\ (newline = "sent" <=> n = 1)
  OBVIOUS
<1>4. send_data(block, n, eoi)
  OBVIOUS
<1>0. n \in 0 .. 1 /\ miscounts \in Nat /\ (miscounts = 0 => call.miscounts = 0)
  BY OutcomeFacts DEF IInv, TypeOK, IsOutcome
<1> HIDE DEF block, ret, newline, eoi, n, miscounts
<1>5. call \in Calls /\ ~call.eot /\ NoEoi /\ EndOf(call.left, call.message)
      /\ call.message \in Seq(Texts) /\ call.flags = {}
  BY DEF IInv, TypeOK, Calls, Progress
<1>6. call' \in Calls
  BY <1>0, <1>2, <1>3, <1>5 DEF Calls
<1>7. /\ call'.what = "SendList" /\ call'.to = call.to /\ call'.message = call.message
      /\ call'.flags = call.flags /\ call'.eot = call.eot /\ call'.blind = call.blind
      /\ call'.left = call.left /\ call'.newline = newline /\ call'.at = "over"
      /\ call'.miscounts = miscounts
  BY <1>2, <1>5 DEF Calls
<1>8. n \in 0 .. Len(block)
  BY <1>0, <1>1
<1>9. /\ heard' \in [Instruments -> Seq(Signals)]
      /\ \A d \in Instruments : Gets(d, block, n, eoi)
  BY <1>1, <1>4, <1>8, DataHeard DEF IInv
<1>10. TypeOK'
  BY <1>6, <1>9 DEF IInv, TypeOK
<1>11. AddressedRight' /\ CommandReachesThose'
  BY <1>7 DEF AddressedRight, CommandReachesThose
<1>12. EoiAtEnd'
  <2>1. ASSUME NEW d \in Instruments, NEW i \in DOMAIN heard'[d], heard'[d][i].eoi
        PROVE  i = Len(heard'[d]) /\ call'.newline = "sent"
    <3>1. Gets(d, block, n, eoi) /\ (i \in DOMAIN heard[d] => ~heard[d][i].eoi)
      BY <1>5, <1>9 DEF NoEoi
    <3>2. QED
      BY <1>1, <1>3, <1>7, <2>1, <3>1 DEF Gets
  <2>2. QED
    BY <1>5, <1>7, <2>1 DEF EoiAtEnd
<1>13. InOrder'
  <2>1. ASSUME ~call.blind, NEW d \in Instruments
        PROVE  /\ d \notin call'.to => heard'[d] = <<>>
               /\ d \in call'.to /\ call'.miscounts = 0 => Bytes(heard'[d]) = Sent'
    <3> DEFINE k == Len(call.message) - Len(call.left)
    <3> DEFINE part == SubSeq(call.message, 1, k)
    <3>1. part \in Seq(Texts) /\ part \o <<>> = part
      <4>1. part \in Seq(Texts)
        BY <1>5 DEF EndOf, Calls
      <4>2. QED
        BY <4>1, ConcatEmptySeq
    <3>2. Sent = part \o <<>>
      BY DEF Sent
    <3>3. Sent' = part \o IF newline = "sent" THEN <<"newline">> ELSE <<>>
      BY <1>7 DEF Sent
    <3> HIDE DEF part
    <3>4. /\ d \notin call.to => heard[d] = <<>>
          /\ d \in call.to /\ call.miscounts = 0 => Bytes(heard[d]) = part
      BY <2>1, <3>1, <3>2 DEF IInv, InOrder, Writes, Bytes
    <3>5. Listeners(roles) = call.to
      BY <2>1 DEF IInv, AddressedRight, Reads
    <3>6. Gets(d, block, n, eoi)
      BY <1>9
    <3>7. CASE d \notin call.to
      BY <1>7, <3>4, <3>5, <3>6, <3>7 DEF Gets
    <3>8. CASE d \in call.to /\ n = 0
      BY <1>0, <1>3, <1>7, <3>1, <3>3, <3>4, <3>6, <3>8 DEF Gets
    <3>9. CASE d \in call.to /\ n = 1 /\ miscounts = 0
      <4> DEFINE h == heard[d]
      <4> DEFINE w == Signalled(block, n, eoi)
      <4>1. heard'[d] = h \o w
        BY <3>5, <3>6, <3>9 DEF Gets
      <4>2. h \in Seq(Signals)
        BY DEF IInv, TypeOK
      <4>3. Bytes(h) = part
        BY <1>0, <3>4, <3>9
      <4>4. IsSignalled(w, block, n, eoi)
        BY <1>1, <1>8, SignalledType
      <4> HIDE DEF h, w
      <4>5. w \in Seq(Signals) /\ Len(w) = 1 /\ w[1].byte = "newline"
        BY <1>1, <3>9, <4>4 DEF IsSignalled
      <4>6. Bytes(h \o w) = Bytes(h) \o <<"newline">>
        BY <4>2, <4>5, HeardNewline
      <4>7. QED
        BY <1>3, <1>7, <3>3, <3>9, <4>1, <4>3, <4>6
    <3>10. QED
      BY <1>0, <1>7, <3>7, <3>8, <3>9
  <2>2. QED
    BY <1>7, <2>1 DEF InOrder, Bytes
<1>14. Progress'
  BY <1>3, <1>5, <1>7 DEF Progress
<1>15. QED
  BY <1>10, <1>11, <1>12, <1>13, <1>14 DEF IInv

(* The kinds of steps cover Next.                                            *)
LEMMA NextSteps ==
  ASSUME TypeOK, Next
  PROVE  \/ BusStep \/ BeginStep \/ CommandStep
         \/ my_ibwrt \/ InternalSendDataBytes \/ read_data \/ Return
<1>1. CASE \E d \in Devices, message \in Messages, flags \in Flags, eot \in BOOLEAN :
             ibwrt(d, message, flags, eot)
  BY <1>1, StepIbwrt
<1>2. CASE \E ds \in (SUBSET Instruments) \union {{d} : d \in Misnamed}, message \in Messages,
             eotmode \in send_eotmode : SendList(ds, message, eotmode)
  BY <1>2, StepSendList DEF Lists
<1>3. CASE \E d \in Devices, flags \in Flags : my_ibrd(d, flags)
  BY <1>3, StepIbrd
<1>4. CASE \E d \in Instruments \union Misnamed, termination \in {{}, {"eos"}} :
             InternalReceive(d, termination)
  BY <1>4, StepReceive
<1>5. CASE Commands
  BY <1>5, StepCommands
<1>6. CASE \E d \in Instruments \union Misnamed : serial_poll_single(d)
  BY <1>6, StepPoll
<1>7. CASE ibcmd
  BY <1>7, StepIbcmd
<1>8. CASE ibsic
  BY <1>8, StepIbsic
<1>9. QED
  BY <1>1, <1>2, <1>3, <1>4, <1>5, <1>6, <1>7, <1>8 DEF Next

(* A step in which nothing happens.                                          *)
LEMMA StutterInv ==
  ASSUME IInv, UNCHANGED vars
  PROVE  IInv'
<1>1. UNCHANGED <<roles, eos_mode, call, heard, obeyed>>
  BY DEF vars
<1>2. TypeOK' /\ AddressedRight'
  BY <1>1 DEF IInv, TypeOK, AddressedRight, Reads, Talkers, Listeners
<1>3. CommandReachesThose' /\ InOrder' /\ EoiAtEnd'
  BY <1>1 DEF IInv, CommandReachesThose, InOrder, EoiAtEnd, Sent, Writes
<1>4. Progress'
  BY <1>1 DEF IInv, Progress, NothingHeard, NoEoi
<1>5. QED
  BY <1>2, <1>3, <1>4 DEF IInv

(* The steps of InternalSendDataBytes: its block, then its newline.          *)
LEMMA SendDataInv ==
  ASSUME IInv, InternalSendDataBytes
  PROVE  IInv'
<1>1. call.at = "data" /\ call.what = "SendList" /\ UNCHANGED <<roles, eos_mode, obeyed>>
  BY DEF InternalSendDataBytes
<1>2. CASE call.newline # "next"
  <2>1. PICK o \in Outcomes(Len(call.left)) :
          /\ send_data(call.left, o.heard, call.eot)
          /\ LET more == ~o.failed /\ call.newline = "due"
             IN  call' = [call EXCEPT !.left = Rest(o.reported),
                                      !.ret = IF o.failed THEN -1 ELSE 0,
                                      !.miscounts = Miscounts(o),
                                      !.newline = IF more THEN "next" ELSE "no",
                                      !.at = IF more THEN @ ELSE "over"]
    BY <1>2 DEF InternalSendDataBytes
  <2> DEFINE more == ~o.failed /\ call.newline = "due"
  <2>2. /\ more \in BOOLEAN /\ (more <=> ~o.failed /\ call.newline = "due")
        /\ call' = [call EXCEPT !.left = Rest(o.reported), !.ret = IF o.failed THEN -1 ELSE 0,
                                !.miscounts = Miscounts(o),
                                !.newline = IF more THEN "next" ELSE "no",
                                !.at = IF more THEN @ ELSE "over"]
    BY <2>1
  <2> HIDE DEF more
  <2>3. QED
    BY <1>1, <1>2, <2>1, <2>2, DataInv
<1>3. CASE call.newline = "next"
  <2>1. PICK o \in Outcomes(1) :
          /\ send_data(<<"newline">>, o.heard, TRUE)
          /\ call' = [call EXCEPT !.at = "over", !.ret = IF o.failed THEN -1 ELSE 0,
                                  !.miscounts = Miscounts(o),
                                  !.newline = IF o.heard = 1 THEN "sent" ELSE "no"]
    BY <1>3 DEF InternalSendDataBytes
  <2>2. QED
    BY <1>1, <1>3, <2>1, NewlineInv
<1>4. QED
  BY <1>2, <1>3

(* Every step keeps the invariant.                                           *)
LEMMA NextInv ==
  ASSUME IInv, [Next]_vars
  PROVE  IInv'
<1>1. TypeOK
  BY DEF IInv
<1>2. CASE my_ibwrt
  BY <1>2, EmptyInv, SendInv DEF my_ibwrt
<1>3. QED
  BY <1>1, <1>2, NextSteps, StutterInv, BusInv, BeginInv, CommandInv, SendDataInv,
     ReadInv, ReturnInv

(* The invariant holds in every reachable state.                             *)
THEOREM TransfersInductive == Spec => []IInv
<1>1. Init => IInv
  BY InitInv
<1>2. IInv /\ [Next]_vars => IInv'
  BY NextInv
<1>3. QED
  BY <1>1, <1>2, PTL DEF Spec

-----------------------------------------------------------------------------
(* What the specification guarantees.                                        *)

(* Every party has a role, every call its kind, and instruments hear bytes.   *)
THEOREM TransfersTypeCorrect == Spec => []TypeOK
<1>1. IInv => TypeOK
  BY DEF IInv
<1>2. QED
  BY <1>1, TransfersInductive, PTL

(* For any instruments on the bus, whatever earlier calls have left behind: a *)
(* setup that was sent in full leaves exactly those addressed that the call    *)
(* names, the board on the other side.                                       *)
THEOREM AddressesRight == Spec => []AddressedRight
<1>1. IInv => AddressedRight
  BY DEF IInv
<1>2. QED
  BY <1>1, TransfersInductive, PTL

(* A command that reports success has been obeyed by the instruments it names *)
(* and by no other.                                                          *)
THEOREM CommandsReach == Spec => []CommandReachesThose
<1>1. IInv => CommandReachesThose
  BY DEF IInv
<1>2. QED
  BY <1>1, TransfersInductive, PTL

(* Messages of any length arrive in order and once, however the writes are cut *)
(* into blocks and broken off, while IBWRT reports what was heard; a call that *)
(* was told otherwise still reaches no instrument but those it names.        *)
THEOREM ArrivesInOrder == Spec => []InOrder
<1>1. IInv => InOrder
  BY DEF IInv
<1>2. QED
  BY <1>1, TransfersInductive, PTL

(* Without XEOS, and while IBWRT reports what was heard, EOI comes with the    *)
(* last byte of a message or not at all.                                     *)
THEOREM EoiEndsMessage == Spec => []EoiAtEnd
<1>1. IInv => EoiAtEnd
  BY DEF IInv
<1>2. QED
  BY <1>1, TransfersInductive, PTL

(* For any flags: when a read begins, the end-of-string mode is the one that   *)
(* its settings or its termination byte ask for, and not that of an earlier    *)
(* call, unless enable_eos refused the settings.                             *)
THEOREM OwnEosOnly == Spec => []NoForeignEos
<1>2. Init => NoForeignEos
  BY DEF Init, NoForeignEos, Idle
<1>3. IInv /\ NoForeignEos /\ [Next]_vars => NoForeignEos'
  <2> SUFFICES ASSUME IInv, NoForeignEos, [Next]_vars
               PROVE  NoForeignEos'
    OBVIOUS
  <2>1. TypeOK /\ call \in Calls
    BY DEF IInv, TypeOK
  <2>2. CASE UNCHANGED vars
    BY <2>2 DEF NoForeignEos, vars
  <2>3. CASE BusStep
    BY <2>3 DEF NoForeignEos, BusStep
  <2>4. CASE BeginStep
    BY <2>4 DEF BeginStep
  <2>5. CASE CommandStep
    BY <2>5 DEF CommandStep, NoForeignEos
  <2>6. CASE my_ibwrt
    <3>1. call.what = "ibwrt" /\ (call' = call \/ call'.what = "ibwrt")
      BY <2>1, <2>6 DEF my_ibwrt, NothingToSend, SendBlock, vars, Calls
    <3>2. QED
      BY <3>1 DEF NoForeignEos
  <2>7. CASE InternalSendDataBytes
    <3>1. call.what = "SendList" /\ call'.what = call.what
      BY <2>1, <2>7 DEF InternalSendDataBytes, Calls
    <3>2. QED
      BY <3>1 DEF NoForeignEos
  <2>8. CASE read_data
    BY <2>8 DEF read_data, Ends, Over, Idle, NoForeignEos
  <2>9. CASE Return
    BY <2>9 DEF Return, Idle, NoForeignEos
  <2>10. QED
    BY <2>1, <2>2, <2>3, <2>4, <2>5, <2>6, <2>7, <2>8, <2>9, NextSteps
<1>4. QED
  BY <1>2, <1>3, TransfersInductive, PTL DEF Spec
=============================================================================
