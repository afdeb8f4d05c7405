---------------------- MODULE PrimaryFailoverProofs ----------------------
(***************************************************************************)
(* Type correctness and the safety invariants of PrimaryFailover, for      *)
(* every set of keys, profiles, configurations and request slots.          *)
(*                                                                         *)
(* The inductive invariant is stated over the parts of a state, so that it *)
(* can be carried first through reconciliation and then through the        *)
(* reservation, the two halves of one Route step.                          *)
(***************************************************************************)
EXTENDS PrimaryFailover, FiniteSetTheorems, TLAPS

Types(s, g, h, p, q) ==
    /\ s \in [Candidate -> Signature \cup {Absent}]
    /\ g \in Nat
    /\ h \in [Candidate -> Health \cup {NoHealth}]
    /\ p \in [Kind -> [Key -> Pin \cup {NoPin}]]
    /\ q \in [Request -> Selection \cup {Idle}]

Holders(h, q, c) ==
    {r \in Request : q[r] # Idle /\ q[r].cand = c /\ q[r].born = h[c].born}

\* A record is kept for exactly the keys the last preview saw.
Tracked(s, g, h) ==
    \A c \in Candidate : /\ h[c] # NoHealth <=> s[c] # Absent
                         /\ h[c] # NoHealth => h[c].born <= g

\* A reservation is never younger than the generation, is older than it once
\* its key is gone, and, while its record is kept, was sent with the
\* credential the record is kept for.
Dated(s, g, h, q) ==
    \A c \in Candidate, r \in Request :
        (q[r] # Idle /\ q[r].cand = c) =>
            /\ q[r].born <= g
            /\ h[c] = NoHealth => q[r].born < g
            /\ q[r].born = h[c].born => q[r].sig = s[c]

Exact(h, q) ==
    \A c \in Candidate :
        h[c] # NoHealth => h[c].inFlight = Cardinality(Holders(h, q, c))

Evident(s, h) ==
    \A c \in Candidate : h[c] # NoHealth => h[c].heard \subseteq {s[c]}

Pinning(s, p) ==
    \A k \in Kind, x \in Key : p[k][x] # NoPin => s[p[k][x].cand] = p[k][x].sig

Sound(s, g, h, p, q) ==
    /\ Types(s, g, h, p, q)
    /\ Tracked(s, g, h)
    /\ Dated(s, g, h, q)
    /\ Exact(h, q)
    /\ Evident(s, h)
    /\ Pinning(s, p)

\* The inductive invariant.
IInv ==
    /\ config \in Configs
    /\ forced \in Profile \cup {NoProfile}
    /\ now \in Nat
    /\ Sound(signatures, generation, health, pins, req)

-----------------------------------------------------------------------------
(* Shapes.                                                                 *)

LEMMA RecordShapes ==
    /\ NoHealth \notin Health
    /\ NoPin \notin Pin
    /\ Idle \notin Selection
    /\ NoHealth.born = -1
    /\ Idle.born = -1
  <1>1. NoHealth \notin Health /\ Idle \notin Selection
    BY DEF NoHealth, Health, Idle, Selection
  <1>2. NoPin \notin Pin
    BY SentinelAssumption DEF NoPin, Pin
  <1> QED BY <1>1, <1>2 DEF NoHealth, Idle

LEMMA FreshTyped ==
    ASSUME NEW g \in Nat
    PROVE  /\ FreshHealth(g) \in Health
           /\ FreshHealth(g).born = g
           /\ FreshHealth(g).inFlight = 0
           /\ FreshHealth(g).heard = {}
  BY DEF FreshHealth, Health

\* Offered keys carry a credential.
LEMMA OfferedSigned ==
    ASSUME config \in Configs, NEW c \in Offered
    PROVE  c \in Candidate /\ config.sig[c] \in Signature
  BY CandidateAssumption DEF Offered, ConfigRecord

LEMMA SeenTyped ==
    ASSUME IInv
    PROVE  /\ Seen \in [Candidate -> Signature \cup {Absent}]
           /\ ReconciledGeneration \in Nat
           /\ generation <= ReconciledGeneration
           /\ Changed \cup Removed # {} => generation < ReconciledGeneration
           /\ Changed \cup Removed = {} => generation = ReconciledGeneration
  <1>1. Seen \in [Candidate -> Signature \cup {Absent}]
    BY OfferedSigned DEF IInv, Sound, Types, Seen
  <1> QED BY <1>1 DEF IInv, Sound, Types, ReconciledGeneration

-----------------------------------------------------------------------------
(* Reconciliation.                                                         *)

\* Every record after reconciliation is absent, kept, or fresh.
LEMMA ReconciledCases ==
    ASSUME IInv, NEW c \in Candidate
    PROVE  \/ /\ Seen[c] = Absent
              /\ ReconciledHealth[c] = NoHealth
              /\ Known(c) => generation < ReconciledGeneration
           \/ /\ Seen[c] # Absent /\ Seen[c] = signatures[c]
              /\ Known(c) /\ ReconciledHealth[c] = health[c]
           \/ /\ Seen[c] # Absent
              /\ ReconciledHealth[c] = FreshHealth(ReconciledGeneration)
              /\ Known(c) => generation < ReconciledGeneration
  <1>1. ReconciledHealth[c] = IF Seen[c] = Absent
                              THEN NoHealth
                              ELSE IF c \in Changed \/ ~Known(c)
                              THEN FreshHealth(ReconciledGeneration)
                              ELSE health[c]
    BY DEF ReconciledHealth
  <1>2. Known(c) <=> signatures[c] # Absent
    BY DEF IInv, Sound, Tracked, Known
  <1>3. CASE Seen[c] = Absent
    <2>1. Known(c) => c \in Removed
      BY <1>2, <1>3 DEF Removed
    <2> QED BY <1>1, <1>3, <2>1, SeenTyped
  <1>4. CASE Seen[c] # Absent /\ (c \in Changed \/ ~Known(c))
    BY <1>1, <1>4, SeenTyped
  <1>5. CASE Seen[c] # Absent /\ c \notin Changed /\ Known(c)
    BY <1>1, <1>2, <1>5 DEF Changed
  <1> QED BY <1>3, <1>4, <1>5

LEMMA ReconciledTyped ==
    ASSUME IInv, NEW expired
    PROVE  Types(Seen, ReconciledGeneration, ReconciledHealth,
                 SurvivingPins(expired), req)
  <1>1. ReconciledHealth \in [Candidate -> Health \cup {NoHealth}]
    BY SeenTyped, FreshTyped DEF ReconciledHealth, IInv, Sound, Types
  <1>2. SurvivingPins(expired) \in [Kind -> [Key -> Pin \cup {NoPin}]]
    BY DEF SurvivingPins, IInv, Sound, Types
  <1> QED BY <1>1, <1>2, SeenTyped DEF Types, IInv, Sound

LEMMA ReconciledTracked ==
    ASSUME IInv
    PROVE  Tracked(Seen, ReconciledGeneration, ReconciledHealth)
  <1> SUFFICES ASSUME NEW c \in Candidate
               PROVE  /\ ReconciledHealth[c] # NoHealth <=> Seen[c] # Absent
                      /\ ReconciledHealth[c] # NoHealth =>
                            ReconciledHealth[c].born <= ReconciledGeneration
    BY DEF Tracked
  <1>1. /\ generation \in Nat /\ ReconciledGeneration \in Nat
        /\ generation <= ReconciledGeneration
    BY SeenTyped DEF IInv, Sound, Types
  <1>2. Known(c) => health[c].born \in Nat /\ health[c].born <= generation
    BY DEF IInv, Sound, Types, Tracked, Known, Health
  <1>3. /\ FreshHealth(ReconciledGeneration) # NoHealth
        /\ FreshHealth(ReconciledGeneration).born = ReconciledGeneration
    BY <1>1, FreshTyped, RecordShapes
  <1> QED BY <1>1, <1>2, <1>3, ReconciledCases DEF Known

LEMMA ReconciledDated ==
    ASSUME IInv
    PROVE  Dated(Seen, ReconciledGeneration, ReconciledHealth, req)
  <1> SUFFICES ASSUME NEW c \in Candidate, NEW r \in Request,
                      req[r] # Idle, req[r].cand = c
               PROVE  /\ req[r].born <= ReconciledGeneration
                      /\ ReconciledHealth[c] = NoHealth =>
                            req[r].born < ReconciledGeneration
                      /\ req[r].born = ReconciledHealth[c].born =>
                            req[r].sig = Seen[c]
    BY DEF Dated
  <1>1. /\ generation \in Nat /\ ReconciledGeneration \in Nat
        /\ generation <= ReconciledGeneration
    BY SeenTyped DEF IInv, Sound, Types
  <1>2. /\ req[r].born \in Nat
        /\ req[r].born <= generation
        /\ ~Known(c) => req[r].born < generation
        /\ req[r].born = health[c].born => req[r].sig = signatures[c]
    BY DEF IInv, Sound, Types, Dated, Known, Selection
  <1>3. /\ FreshHealth(ReconciledGeneration).born = ReconciledGeneration
        /\ NoHealth.born = -1
    BY <1>1, FreshTyped, RecordShapes
  <1>4. CASE Seen[c] = Absent /\ ReconciledHealth[c] = NoHealth
               /\ (Known(c) => generation < ReconciledGeneration)
    BY <1>1, <1>2, <1>3, <1>4
  <1>5. CASE Seen[c] = signatures[c] /\ Known(c)
               /\ ReconciledHealth[c] = health[c]
    BY <1>1, <1>2, <1>5 DEF Known
  <1>6. CASE /\ ReconciledHealth[c] = FreshHealth(ReconciledGeneration)
             /\ Known(c) => generation < ReconciledGeneration
    <2>1. req[r].born < ReconciledGeneration
      BY <1>1, <1>2, <1>6
    <2>2. ReconciledHealth[c] # NoHealth
      BY <1>1, <1>6, FreshTyped, RecordShapes
    <2> QED BY <1>1, <1>2, <1>3, <1>6, <2>1, <2>2
  <1> QED BY <1>4, <1>5, <1>6, ReconciledCases

\* A fresh record has no holder: every open request is older than it.
LEMMA ReconciledExact ==
    ASSUME IInv
    PROVE  Exact(ReconciledHealth, req)
  <1> SUFFICES ASSUME NEW c \in Candidate, ReconciledHealth[c] # NoHealth
               PROVE  ReconciledHealth[c].inFlight =
                         Cardinality(Holders(ReconciledHealth, req, c))
    BY DEF Exact
  <1>1. CASE Known(c) /\ ReconciledHealth[c] = health[c]
    <2>1. Holders(ReconciledHealth, req, c) = Holders(health, req, c)
      BY <1>1 DEF Holders
    <2> QED BY <1>1, <2>1 DEF IInv, Sound, Exact, Known
  <1>2. CASE /\ ReconciledHealth[c] = FreshHealth(ReconciledGeneration)
             /\ Known(c) => generation < ReconciledGeneration
    <2>1. /\ generation \in Nat /\ ReconciledGeneration \in Nat
          /\ generation <= ReconciledGeneration
      BY SeenTyped DEF IInv, Sound, Types
    <2>2. ASSUME NEW r \in Request, req[r] # Idle, req[r].cand = c
          PROVE  req[r].born # ReconciledGeneration
      <3>1. /\ req[r].born \in Nat
            /\ req[r].born <= generation
            /\ ~Known(c) => req[r].born < generation
        BY <2>2 DEF IInv, Sound, Types, Dated, Known, Selection
      <3> QED BY <1>2, <2>1, <3>1
    <2>3. Holders(ReconciledHealth, req, c) = {}
      BY <1>2, <2>1, <2>2, FreshTyped DEF Holders
    <2> QED BY <1>2, <2>1, <2>3, FreshTyped, FS_EmptySet
  <1> QED BY <1>1, <1>2, ReconciledCases

LEMMA ReconciledSound ==
    ASSUME IInv, NEW expired
    PROVE  Sound(Seen, ReconciledGeneration, ReconciledHealth,
                 SurvivingPins(expired), req)
  <1>1. Evident(Seen, ReconciledHealth)
    <2> SUFFICES ASSUME NEW c \in Candidate, ReconciledHealth[c] # NoHealth
                 PROVE  ReconciledHealth[c].heard \subseteq {Seen[c]}
      BY DEF Evident
    <2>1. FreshHealth(ReconciledGeneration).heard = {}
      BY SeenTyped, FreshTyped
    <2>2. Known(c) => health[c].heard \subseteq {signatures[c]}
      BY DEF IInv, Sound, Evident, Known
    <2> QED BY <2>1, <2>2, ReconciledCases
  <1>2. Pinning(Seen, SurvivingPins(expired))
    <2> SUFFICES ASSUME NEW k \in Kind, NEW x \in Key,
                        SurvivingPins(expired)[k][x] # NoPin
                 PROVE  Seen[SurvivingPins(expired)[k][x].cand] =
                           SurvivingPins(expired)[k][x].sig
      BY DEF Pinning
    <2>1. /\ SurvivingPins(expired)[k][x] = pins[k][x]
          /\ pins[k][x].cand \notin Changed \cup Removed
      BY DEF SurvivingPins
    <2>2. /\ pins[k][x].cand \in Candidate
          /\ pins[k][x].sig \in Signature
          /\ signatures[pins[k][x].cand] = pins[k][x].sig
      BY <2>1 DEF IInv, Sound, Types, Pinning, Pin
    <2> QED BY <2>1, <2>2, SentinelAssumption DEF Changed, Removed
  <1> QED
    BY <1>1, <1>2, ReconciledTyped, ReconciledTracked, ReconciledDated,
       ReconciledExact DEF Sound

-----------------------------------------------------------------------------
(* Reservation.                                                            *)

\* Whatever rule decides, the choice is a key on offer.
LEMMA ChoicesOffered ==
    ASSUME NEW h, NEW p, NEW ctx, NEW model
    PROVE  Choices(h, p, ctx, model) \subseteq Offered
  <1>1. \A S : Foremost(S) \subseteq S
    BY DEF Foremost
  <1>2. \A S : Contenders(h, TopTier(S)) \subseteq S
    BY DEF Contenders, TopTier
  <1>3. RotationPool \subseteq Offered
    BY DEF RotationPool
  <1>4. Pinned(h, p, ctx, model) \subseteq Offered
    BY DEF Pinned, PinnedBy
  <1>5. Free(h, model) \subseteq Offered
    BY <1>3 DEF Free
  <1>6. SoonestToUnblock(h, model) \subseteq Offered
    BY <1>3 DEF SoonestToUnblock
  <1>7. {c \in Offered : ProfileOf[c] = forced} \subseteq Offered
    OBVIOUS
  <1>8. {c \in Offered : Active(c)} \subseteq Offered
    OBVIOUS
  <1> HIDE DEF Foremost, Contenders, TopTier
  <1> DEFINE forcedKeys == {c \in Offered : ProfileOf[c] = forced}
             activeKeys == {c \in Offered : Active(c)}
  <1>9. /\ Foremost(forcedKeys) \subseteq Offered
        /\ Foremost(IF activeKeys # {} THEN activeKeys ELSE Offered)
              \subseteq Offered
        /\ Contenders(h, TopTier(Free(h, model))) \subseteq Offered
    BY <1>1, <1>2, <1>5, <1>7, <1>8
  <1> QED BY <1>4, <1>6, <1>9 DEF Choices

\* A reservation moves the load of one record by one, and adds one holder.
LEMMA ReserveSound ==
    ASSUME NEW s, NEW g, NEW h, NEW p,
           Sound(s, g, h, p, req),
           NEW r \in Request, req[r] = Idle,
           NEW c \in Candidate, s[c] \in Signature,
           NEW sel \in Selection,
           sel.cand = c, sel.born = h[c].born, sel.sig = s[c],
           NEW pp \in [Kind -> [Key -> Pin \cup {NoPin}]], Pinning(s, pp)
    PROVE  Sound(s, g, Reserved(h, c), pp, [req EXCEPT ![r] = sel])
  <1> DEFINE h2 == Reserved(h, c)
             q2 == [req EXCEPT ![r] = sel]
  <1>1. h[c] \in Health
    BY SentinelAssumption DEF Sound, Types, Tracked
  <1>2. /\ h2 \in [Candidate -> Health \cup {NoHealth}]
        /\ h2[c] \in Health
        /\ h2[c].inFlight = h[c].inFlight + 1
        /\ h2[c].born = h[c].born
        /\ h2[c].heard = h[c].heard
    <2>1. h2[c] = [h[c] EXCEPT !.inFlight = @ + 1]
      BY DEF Sound, Types, Reserved
    <2>2. h2[c] \in Health
      BY <1>1, <2>1 DEF Health
    <2>3. /\ h2[c].inFlight = h[c].inFlight + 1
          /\ h2[c].born = h[c].born
          /\ h2[c].heard = h[c].heard
      BY <1>1, <2>1 DEF Health
    <2>4. h2 \in [Candidate -> Health \cup {NoHealth}]
      BY <2>2 DEF Sound, Types, Reserved
    <2> QED BY <2>2, <2>3, <2>4
  <1>3. \A d \in Candidate : d # c => h2[d] = h[d]
    BY DEF Reserved, Sound, Types
  <1>4. h2[c] # NoHealth /\ h[c] # NoHealth
    BY <1>1, <1>2, RecordShapes
  <1>5. q2 \in [Request -> Selection \cup {Idle}] /\ q2[r] = sel
        /\ sel # Idle
        /\ \A x \in Request : x # r => q2[x] = req[x]
    BY RecordShapes DEF Sound, Types
  <1> HIDE DEF h2, q2
  <1>6. Types(s, g, h2, pp, q2)
    BY <1>2, <1>5 DEF Sound, Types
  <1>7. Tracked(s, g, h2)
    BY <1>2, <1>3, <1>4 DEF Sound, Tracked
  <1>8. Dated(s, g, h2, q2)
    <2> SUFFICES ASSUME NEW d \in Candidate, NEW x \in Request,
                        q2[x] # Idle, q2[x].cand = d
                 PROVE  /\ q2[x].born <= g
                        /\ h2[d] = NoHealth => q2[x].born < g
                        /\ q2[x].born = h2[d].born => q2[x].sig = s[d]
      BY DEF Dated
    <2>1. CASE x = r
      BY <1>4, <1>5, <2>1 DEF Sound, Tracked
    <2>2. CASE x # r
      BY <1>2, <1>3, <1>4, <1>5, <2>2 DEF Sound, Dated
    <2> QED BY <2>1, <2>2
  <1>9. Exact(h2, q2)
    <2> SUFFICES ASSUME NEW d \in Candidate, h2[d] # NoHealth
                 PROVE  h2[d].inFlight = Cardinality(Holders(h2, q2, d))
      BY DEF Exact
    <2>1. CASE d = c
      <3>1. /\ Holders(h2, q2, c) = Holders(h, req, c) \cup {r}
            /\ r \notin Holders(h, req, c)
        BY <1>2, <1>5 DEF Holders
      <3>2. IsFiniteSet(Holders(h, req, c))
        BY CandidateAssumption, FS_Subset DEF Holders
      <3>3. h[c].inFlight = Cardinality(Holders(h, req, c))
        BY <1>4 DEF Sound, Exact
      <3> QED BY <1>2, <2>1, <3>1, <3>2, <3>3, FS_AddElement
    <2>2. CASE d # c
      <3>1. Holders(h2, q2, d) = Holders(h, req, d)
        BY <1>3, <1>5, <2>2 DEF Holders
      <3> QED BY <1>3, <2>2, <3>1 DEF Sound, Exact
    <2> QED BY <2>1, <2>2
  <1>10. Evident(s, h2)
    BY <1>2, <1>3, <1>4 DEF Sound, Evident
  <1> QED BY <1>6, <1>7, <1>8, <1>9, <1>10 DEF Sound, h2, q2

-----------------------------------------------------------------------------
(* Settlement.                                                             *)

\* Any verdict that takes r out of flight, lowers the load of the record that
\* r holds, and teaches a record only what is true of its credential.
LEMMA SettleSound ==
    ASSUME IInv,
           NEW r \in Request, req[r] # Idle,
           NEW h \in [Candidate -> Health \cup {NoHealth}],
           \A c \in Candidate :
               /\ h[c] = NoHealth <=> health[c] = NoHealth
               /\ h[c].born = health[c].born
               /\ h[c] # NoHealth =>
                     /\ h[c].heard \subseteq {signatures[c]}
                     /\ h[c].inFlight = IF Holds(r, c)
                                        THEN health[c].inFlight - 1
                                        ELSE health[c].inFlight,
           NEW p \in [Kind -> [Key -> Pin \cup {NoPin}]],
           Pinning(signatures, p),
           NEW q \in [Request -> Selection \cup {Idle}],
           q[r] = Idle,
           \A x \in Request \ {r} :
               /\ q[x] = Idle <=> req[x] = Idle
               /\ req[x] # Idle => /\ q[x].cand = req[x].cand
                                   /\ q[x].born = req[x].born
                                   /\ q[x].sig = req[x].sig
    PROVE  Sound(signatures, generation, h, p, q)
  <1>1. Types(signatures, generation, h, p, q)
    BY DEF IInv, Sound, Types
  <1>2. Tracked(signatures, generation, h)
    BY DEF IInv, Sound, Tracked
  <1>3. Dated(signatures, generation, h, q)
    BY DEF IInv, Sound, Dated
  <1>4. Exact(h, q)
    <2> SUFFICES ASSUME NEW c \in Candidate, h[c] # NoHealth
                 PROVE  h[c].inFlight = Cardinality(Holders(h, q, c))
      BY DEF Exact
    <2>1. health[c].inFlight = Cardinality(Holders(health, req, c))
      BY DEF IInv, Sound, Exact
    <2>2. IsFiniteSet(Holders(health, req, c))
      BY CandidateAssumption, FS_Subset DEF Holders
    <2>3. CASE Holds(r, c)
      <3>1. /\ Holders(h, q, c) = Holders(health, req, c) \ {r}
            /\ r \in Holders(health, req, c)
        BY <2>3 DEF Holders, Holds, InFlight
      <3>2. h[c].inFlight = health[c].inFlight - 1
        BY <2>3
      <3>3. Cardinality(Holders(health, req, c) \ {r}) =
               Cardinality(Holders(health, req, c)) - 1
        BY <2>2, <3>1, FS_RemoveElement
      <3> QED BY <2>1, <3>1, <3>2, <3>3
    <2>4. CASE ~Holds(r, c)
      <3>1. Holders(h, q, c) = Holders(health, req, c)
        BY <2>4 DEF Holders, Holds, InFlight
      <3> QED BY <2>1, <2>4, <3>1
    <2> QED BY <2>3, <2>4
  <1>5. Evident(signatures, h)
    BY DEF Evident
  <1> QED BY <1>1, <1>2, <1>3, <1>4, <1>5 DEF Sound

\* A held record counts its holder, so the floor of the release is never met.
LEMMA HeldIsCounted ==
    ASSUME IInv, NEW r \in Request, NEW c \in Candidate, Holds(r, c)
    PROVE  /\ health[c] \in Health
           /\ health[c].inFlight > 0
           /\ req[r].sig = signatures[c]
  <1>1. req[r] \in Selection /\ req[r].born \in Nat
    BY DEF IInv, Sound, Types, Holds, InFlight, Selection
  <1>2. health[c] \in Health
    BY <1>1, RecordShapes DEF IInv, Sound, Types, Holds
  <1>3. /\ health[c].inFlight = Cardinality(Holders(health, req, c))
        /\ health[c].inFlight \in Nat
    BY <1>2, RecordShapes DEF IInv, Sound, Exact, Health
  <1>4. r \in Holders(health, req, c)
    BY DEF Holders, Holds, InFlight
  <1>5. IsFiniteSet(Holders(health, req, c))
    BY CandidateAssumption, FS_Subset DEF Holders
  <1>6. Cardinality(Holders(health, req, c)) # 0
    BY <1>4, <1>5, FS_EmptySet
  <1> QED
    BY <1>2, <1>3, <1>6 DEF IInv, Sound, Dated, Holds, InFlight

LEMMA ReleasedTyped ==
    ASSUME IInv, NEW r \in Request, req[r] # Idle
    PROVE  /\ Released(r) \in [Candidate -> Health \cup {NoHealth}]
           /\ \A c \in Candidate :
               /\ ~Holds(r, c) => Released(r)[c] = health[c]
               /\ Holds(r, c) =>
                     /\ Released(r)[c] \in Health
                     /\ Released(r)[c].born = health[c].born
                     /\ Released(r)[c].heard = health[c].heard
                     /\ Released(r)[c].inFlight = health[c].inFlight - 1
  <1>1. ASSUME NEW c \in Candidate
        PROVE  /\ ~Holds(r, c) => Released(r)[c] = health[c]
               /\ Holds(r, c) =>
                     /\ Released(r)[c] \in Health
                     /\ Released(r)[c].born = health[c].born
                     /\ Released(r)[c].heard = health[c].heard
                     /\ Released(r)[c].inFlight = health[c].inFlight - 1
    <2>1. CASE ~Holds(r, c)
      BY <2>1 DEF Released, Holds, InFlight
    <2>2. CASE Holds(r, c)
      <3>1. Released(r)[c] = [health[c] EXCEPT !.inFlight = @ - 1]
        BY <2>2, HeldIsCounted DEF Released, Holds
      <3>2. health[c] \in Health /\ health[c].inFlight > 0
        BY <2>2, HeldIsCounted
      <3> QED BY <2>2, <3>1, <3>2 DEF Health
    <2> QED BY <2>1, <2>2
  <1>2. Released(r) \in [Candidate -> Health \cup {NoHealth}]
    <2>1. \A c \in Candidate : Released(r)[c] \in Health \cup {NoHealth}
      BY <1>1 DEF IInv, Sound, Types
    <2> QED BY <2>1 DEF Released
  <1> QED BY <1>1, <1>2

-----------------------------------------------------------------------------
(* Verdicts.                                                               *)

LEMMA AcceptedHolds ==
    ASSUME IInv, NEW r \in Request, Accepted(r)
    PROVE  /\ req[r] # Idle /\ req[r] \in Selection
           /\ req[r].cand \in Candidate
           /\ Holds(r, req[r].cand)
           /\ req[r].sig \in Signature
           /\ req[r].sig = signatures[req[r].cand]
  <1>1. /\ req[r] # Idle /\ req[r] \in Selection
        /\ req[r].cand \in Candidate
        /\ Holds(r, req[r].cand)
    BY DEF IInv, Sound, Types, Accepted, InFlight, Holds, Selection
  <1>2. /\ req[r].sig = signatures[req[r].cand]
        /\ health[req[r].cand] # NoHealth
    BY <1>1, HeldIsCounted, RecordShapes
  <1>3. signatures[req[r].cand] \in Signature
    BY <1>1, <1>2 DEF IInv, Sound, Types, Tracked
  <1> QED BY <1>1, <1>2, <1>3

LEMMA StruckTyped ==
    ASSUME IInv, NEW r \in Request, Accepted(r)
    PROVE  /\ Struck(r) \in Health
           /\ Struck(r).born = health[req[r].cand].born
           /\ Struck(r).inFlight = health[req[r].cand].inFlight - 1
           /\ Struck(r).heard \subseteq {signatures[req[r].cand]}
  <1> DEFINE c == req[r].cand
             h == Released(r)[c]
  <1>1. /\ h \in Health
        /\ h.born = health[c].born
        /\ h.heard = health[c].heard
        /\ h.inFlight = health[c].inFlight - 1
    BY AcceptedHolds, ReleasedTyped
  <1>2. Struck(r) = [h EXCEPT !.heard = @ \cup {req[r].sig}]
    BY DEF Struck
  <1>3. health[c].heard \subseteq {signatures[c]} /\ c \in Candidate
    BY AcceptedHolds, HeldIsCounted, RecordShapes DEF IInv, Sound, Evident
  <1>4. req[r].sig = signatures[c] /\ req[r].sig \in Signature
    BY AcceptedHolds
  <1> HIDE DEF c, h
  <1>5. h.heard \cup {req[r].sig} \in SUBSET Signature
    BY <1>1, <1>4 DEF Health
  <1>6. Struck(r) \in Health
    BY <1>1, <1>2, <1>5 DEF Health
  <1>7. /\ Struck(r).born = h.born
        /\ Struck(r).inFlight = h.inFlight
        /\ Struck(r).heard = h.heard \cup {req[r].sig}
    BY <1>1, <1>2 DEF Health
  <1>8. Struck(r).heard \subseteq {signatures[c]}
    BY <1>1, <1>3, <1>4, <1>7
  <1> QED BY <1>1, <1>6, <1>7, <1>8 DEF c

\* The parts of a record that no verdict but the release touches.
Same(n, h) == n.born = h.born /\ n.inFlight = h.inFlight /\ n.heard = h.heard

\* Filing a record in place of the struck one keeps the state sound.
LEMMA FileSound ==
    ASSUME IInv, NEW r \in Request, Accepted(r),
           NEW n \in Health, Same(n, Struck(r)),
           NEW p \in [Kind -> [Key -> Pin \cup {NoPin}]],
           Pinning(signatures, p),
           NEW q \in [Request -> Selection \cup {Idle}],
           q[r] = Idle,
           \A x \in Request \ {r} :
               /\ q[x] = Idle <=> req[x] = Idle
               /\ req[x] # Idle => /\ q[x].cand = req[x].cand
                                   /\ q[x].born = req[x].born
                                   /\ q[x].sig = req[x].sig
    PROVE  Sound(signatures, generation,
                 [health EXCEPT ![req[r].cand] = n], p, q)
  <1> DEFINE c == req[r].cand
             h == [health EXCEPT ![c] = n]
  <1>1. /\ c \in Candidate /\ Holds(r, c) /\ req[r] # Idle
        /\ \A d \in Candidate : d # c => ~Holds(r, d)
    BY AcceptedHolds DEF Holds
  <1>2. /\ health \in [Candidate -> Health \cup {NoHealth}]
        /\ health[c] # NoHealth
    BY <1>1, HeldIsCounted, RecordShapes DEF IInv, Sound, Types
  <1>3. h \in [Candidate -> Health \cup {NoHealth}] /\ h[c] = n
    BY <1>1, <1>2
  <1>4. /\ n # NoHealth
        /\ n.born = health[c].born
        /\ n.inFlight = health[c].inFlight - 1
        /\ n.heard \subseteq {signatures[c]}
    BY StruckTyped, RecordShapes DEF Same
  <1>5. ASSUME NEW d \in Candidate
        PROVE  /\ h[d] = NoHealth <=> health[d] = NoHealth
               /\ h[d].born = health[d].born
               /\ h[d] # NoHealth =>
                     /\ h[d].heard \subseteq {signatures[d]}
                     /\ h[d].inFlight = IF Holds(r, d)
                                        THEN health[d].inFlight - 1
                                        ELSE health[d].inFlight
    <2>1. CASE d = c
      BY <1>1, <1>2, <1>3, <1>4, <2>1
    <2>2. CASE d # c
      <3>1. h[d] = health[d]
        BY <1>2, <2>2
      <3>2. health[d] # NoHealth => health[d].heard \subseteq {signatures[d]}
        BY DEF IInv, Sound, Evident
      <3> QED BY <1>1, <2>2, <3>1, <3>2
    <2> QED BY <2>1, <2>2
  <1> HIDE DEF h
  <1>6. Sound(signatures, generation, h, p, q)
    BY <1>1, <1>3, <1>5, SettleSound
  <1> QED BY <1>6 DEF h, c

-----------------------------------------------------------------------------
(* Effects.  What each verdict makes of a record is a record, and touches  *)
(* neither its identity, its load nor the credentials it has heard from.   *)

LEMMA MaxTyped ==
    ASSUME NEW t \in Nat, NEW u \in Nat
    PROVE  Later(t, u) \in Nat /\ Earlier(t, u) \in Nat
  BY DEF Later, Earlier

LEMMA Versioned ==
    ASSUME NEW h \in Health
    PROVE  /\ [h EXCEPT !.version = @ + 1] \in Health
           /\ Same([h EXCEPT !.version = @ + 1], h)
  BY DEF Health, Same

LEMMA ClearedTyped ==
    ASSUME NEW h \in Health, NEW model
    PROVE  Cleared(h, model) \in Health /\ Same(Cleared(h, model), h)
  <1> DEFINE failures == [m \in Model \cup {NoModel} |-> 0]
             cooldowns == [m \in Model |->
                              IF m = model THEN 0 ELSE h.modelCooldown[m]]
             version == h.version + 1
  <1>1. /\ failures \in [Model \cup {NoModel} -> Nat]
        /\ cooldowns \in [Model -> Nat]
        /\ version \in Nat
    BY DEF Health
  <1>2. Cleared(h, model) =
           [h EXCEPT !.transientFailures = 0, !.emptyStreamFailures = 0,
                     !.cooldownUntil = 0, !.quarantineUntil = 0,
                     !.rateLimitUntil = 0, !.stickyOnlyUntil = 0,
                     !.modelFailures = failures, !.modelCooldown = cooldowns,
                     !.version = version]
    BY DEF Cleared, Health
  <1> HIDE DEF failures, cooldowns, version
  <1>3. Cleared(h, model) =
           [born |-> h.born, version |-> version, inFlight |-> h.inFlight,
            transientFailures |-> 0, emptyStreamFailures |-> 0,
            cooldownUntil |-> 0, quarantineUntil |-> 0,
            rateLimitUntil |-> 0, stickyOnlyUntil |-> 0,
            modelFailures |-> failures, modelCooldown |-> cooldowns,
            heard |-> h.heard]
    BY <1>2 DEF Health
  <1>4. h.born \in Nat /\ h.inFlight \in Nat /\ h.heard \in SUBSET Signature
    BY DEF Health
  <1>5. Same(Cleared(h, model), h)
    BY <1>3 DEF Same
  <1>6. Cleared(h, model) \in Health
    BY <1>1, <1>3, <1>4 DEF Health
  <1> QED BY <1>5, <1>6

LEMMA QuarantinedTyped ==
    ASSUME NEW h \in Health, now \in Nat
    PROVE  Quarantined(h) \in Health /\ Same(Quarantined(h), h)
  <1>1. Later(h.quarantineUntil, now + ACCOUNT_QUARANTINE) \in Nat
    <2>1. h.quarantineUntil \in Nat /\ now + ACCOUNT_QUARANTINE \in Nat
      BY DurationAssumption DEF Health
    <2> QED BY <2>1, MaxTyped
  <1> QED BY <1>1 DEF Quarantined, Health, Same

LEMMA RateLimitedTyped ==
    ASSUME NEW h \in Health, now \in Nat,
           NEW cooldown \in RateLimitCooldown, NEW reserve \in StickyReserve
    PROVE  /\ RateLimited(h, cooldown, reserve) \in Health
           /\ Same(RateLimited(h, cooldown, reserve), h)
  <1> DEFINE until == Later(h.rateLimitUntil, now + cooldown)
             sticky == IF reserve > 0
                       THEN Later(h.stickyOnlyUntil, until + reserve)
                       ELSE h.stickyOnlyUntil
  <1>1. until \in Nat
    <2>1. h.rateLimitUntil \in Nat /\ now + cooldown \in Nat
      BY DurationAssumption DEF Health
    <2> QED BY <2>1, MaxTyped
  <1>2. sticky \in Nat
    <2> HIDE DEF until
    <2>1. h.stickyOnlyUntil \in Nat /\ until + reserve \in Nat
      BY <1>1, DurationAssumption DEF Health
    <2> QED BY <2>1, MaxTyped
  <1>3. RateLimited(h, cooldown, reserve) =
           [h EXCEPT !.rateLimitUntil = until, !.stickyOnlyUntil = sticky]
    BY DEF RateLimited
  <1> HIDE DEF until, sticky
  <1> QED BY <1>1, <1>2, <1>3 DEF Health, Same

LEMMA BackoffTyped ==
    ASSUME NEW n \in Nat, n >= FAILOVER_FAILURE_THRESHOLD
    PROVE  Backoff(n) \in Nat
  <1>1. n - FAILOVER_FAILURE_THRESHOLD + 1 \in Nat
    BY DurationAssumption
  <1>2. \A i, j \in Nat : i * j \in Nat
    OBVIOUS
  <1>3. TRANSIENT_COOLDOWN * (n - FAILOVER_FAILURE_THRESHOLD + 1) \in Nat
    BY <1>1, <1>2, DurationAssumption
  <1> QED BY <1>3, MaxTyped, DurationAssumption DEF Backoff

LEMMA TransientlyFailedTyped ==
    ASSUME NEW h \in Health, now \in Nat, NEW reconnect \in BOOLEAN
    PROVE  /\ TransientlyFailed(h, reconnect) \in Health
           /\ Same(TransientlyFailed(h, reconnect), h)
  <1> DEFINE n == h.transientFailures + 1
             e == IF reconnect THEN h.emptyStreamFailures + 1
                               ELSE h.emptyStreamFailures
             trip == /\ n >= FAILOVER_FAILURE_THRESHOLD
                     /\ reconnect => e >= FAILOVER_FAILURE_THRESHOLD
             until == IF trip THEN Later(h.cooldownUntil, now + Backoff(n))
                              ELSE h.cooldownUntil
  <1>1. n \in Nat /\ e \in Nat
    BY DEF Health
  <1>2. until \in Nat
    <2> HIDE DEF n, e
    <2>1. trip => now + Backoff(n) \in Nat
      BY <1>1, BackoffTyped
    <2> QED BY <2>1, MaxTyped DEF Health
  <1>3. TransientlyFailed(h, reconnect) =
           [h EXCEPT !.transientFailures = n, !.emptyStreamFailures = e,
                     !.cooldownUntil = until]
    BY DEF TransientlyFailed
  <1> HIDE DEF n, e, until
  <1> QED BY <1>1, <1>2, <1>3 DEF Health, Same

LEMMA ModelRefusedTyped ==
    ASSUME NEW h \in Health, now \in Nat, NEW model \in Model \cup {NoModel}
    PROVE  ModelRefused(h, model) \in Health /\ Same(ModelRefused(h, model), h)
  <1> DEFINE n == h.modelFailures[model] + 1
             trip == n >= FAILOVER_FAILURE_THRESHOLD
             failures == [h.modelFailures EXCEPT ![model] =
                             IF trip THEN 0 ELSE n]
             cooldowns == [m \in Model |-> IF trip /\ m = model
                                           THEN now + MODEL_DISABLE
                                           ELSE h.modelCooldown[m]]
             until == IF trip /\ model = NoModel
                      THEN Later(h.cooldownUntil, now + TRANSIENT_COOLDOWN)
                      ELSE h.cooldownUntil
  <1>1. n \in Nat
    BY DEF Health
  <1>2. failures \in [Model \cup {NoModel} -> Nat]
    <2> HIDE DEF n
    <2> QED BY <1>1 DEF Health
  <1>3. cooldowns \in [Model -> Nat]
    <2>1. now + MODEL_DISABLE \in Nat
      BY DurationAssumption
    <2> HIDE DEF n
    <2> QED BY <2>1 DEF Health
  <1>4. until \in Nat
    <2>1. h.cooldownUntil \in Nat /\ now + TRANSIENT_COOLDOWN \in Nat
      BY DurationAssumption DEF Health
    <2> HIDE DEF n
    <2> QED BY <2>1, MaxTyped
  <1>5. ModelRefused(h, model) =
           [h EXCEPT !.modelFailures = failures, !.modelCooldown = cooldowns,
                     !.cooldownUntil = until]
    BY DEF ModelRefused, Health
  <1> HIDE DEF failures, cooldowns, until
  <1> QED BY <1>2, <1>3, <1>4, <1>5 DEF Health, Same

-----------------------------------------------------------------------------
(* The steps.                                                              *)

\* Open requests may be marked, or join without a key, at no cost.
LEMMA MarkSound ==
    ASSUME IInv,
           NEW p \in [Kind -> [Key -> Pin \cup {NoPin}]],
           Pinning(signatures, p),
           NEW q \in [Request -> Selection \cup {Idle}],
           \A x \in Request, c \in Candidate :
               /\ (q[x] # Idle /\ q[x].cand = c)
                      <=> (req[x] # Idle /\ req[x].cand = c)
               /\ (req[x] # Idle /\ req[x].cand = c) =>
                      q[x].born = req[x].born /\ q[x].sig = req[x].sig
    PROVE  Sound(signatures, generation, health, p, q)
  <1>1. Dated(signatures, generation, health, q)
    BY DEF IInv, Sound, Dated
  <1>2. ASSUME NEW c \in Candidate
        PROVE  Holders(health, q, c) = Holders(health, req, c)
    BY DEF Holders
  <1>3. Exact(health, q)
    BY <1>2 DEF IInv, Sound, Exact
  <1> QED BY <1>1, <1>3 DEF IInv, Sound, Types

LEMMA RequestPinned ==
    ASSUME NEW s, NEW p \in [Kind -> [Key -> Pin \cup {NoPin}]], Pinning(s, p),
           NEW ctx, NEW pin \in Pin, s[pin.cand] = pin.sig
    PROVE  /\ PinRequest(p, ctx, pin) \in [Kind -> [Key -> Pin \cup {NoPin}]]
           /\ Pinning(s, PinRequest(p, ctx, pin))
  BY DEF PinRequest, Pinning

LEMMA ResponsePinned ==
    ASSUME NEW s, pins \in [Kind -> [Key -> Pin \cup {NoPin}]],
           Pinning(s, pins),
           NEW ctx, NEW id, NEW pin \in Pin, s[pin.cand] = pin.sig
    PROVE  /\ PinResponse(ctx, id, pin) \in [Kind -> [Key -> Pin \cup {NoPin}]]
           /\ Pinning(s, PinResponse(ctx, id, pin))
  BY DEF PinResponse, Pinning

LEMMA InitIInv == Init => IInv
  <1> SUFFICES ASSUME Init PROVE IInv
    OBVIOUS
  <1>1. /\ signatures = [c \in Candidate |-> Absent]
        /\ health = [c \in Candidate |-> NoHealth]
        /\ pins = [k \in Kind |-> [x \in Key |-> NoPin]]
        /\ req = [r \in Request |-> Idle]
        /\ generation = 0
    BY DEF Init
  <1>2. Types(signatures, generation, health, pins, req)
    BY <1>1 DEF Types
  <1>3. /\ Tracked(signatures, generation, health)
        /\ Dated(signatures, generation, health, req)
        /\ Exact(health, req)
        /\ Evident(signatures, health)
        /\ Pinning(signatures, pins)
    BY <1>1 DEF Tracked, Dated, Exact, Evident, Pinning
  <1> QED BY <1>2, <1>3 DEF Init, IInv, Sound

LEMMA ForceTyped ==
    ASSUME forced \in Profile \cup {NoProfile}
    PROVE  ReconciledForce \in Profile \cup {NoProfile}
  BY DEF ReconciledForce

LEMMA ApplyIInv ==
    ASSUME IInv, NEW p \in Profile, ApplyProfile(p)
    PROVE  IInv'
  <1>1. /\ config' \in Configs /\ now' = now
        /\ forced' \in Profile \cup {NoProfile}
        /\ signatures' = signatures /\ generation' = generation
        /\ health' = health
    BY DEF ApplyProfile, IInv
  <1>2. /\ pins' \in [Kind -> [Key -> Pin \cup {NoPin}]]
        /\ Pinning(signatures, pins')
    <2>1. pins' = [k \in Kind |-> [x \in Key |-> NoPin]] \/ pins' = pins
      BY DEF ApplyProfile
    <2>2. CASE pins' = [k \in Kind |-> [x \in Key |-> NoPin]]
      BY <2>2 DEF Pinning
    <2> QED BY <2>1, <2>2 DEF IInv, Sound, Types
  <1>3. ASSUME NEW x \in Request
        PROVE  /\ req'[x] \in Selection \cup {Idle}
               /\ req'[x] = Idle <=> req[x] = Idle
               /\ req[x] # Idle => /\ req'[x].cand = req[x].cand
                                   /\ req'[x].born = req[x].born
                                   /\ req'[x].sig = req[x].sig
    <2>1. CASE req[x] = Idle
      BY <2>1 DEF ApplyProfile, InFlight
    <2>2. CASE req[x] # Idle
      <3>1. req'[x] = [req[x] EXCEPT !.early = TRUE] /\ req[x] \in Selection
        BY <2>2 DEF ApplyProfile, InFlight, IInv, Sound, Types
      <3>2. /\ req'[x] \in Selection
            /\ req'[x].cand = req[x].cand
            /\ req'[x].born = req[x].born
            /\ req'[x].sig = req[x].sig
        BY <3>1 DEF Selection
      <3> QED BY <2>2, <3>2, RecordShapes
    <2> QED BY <2>1, <2>2
  <1>4. req' \in [Request -> Selection \cup {Idle}]
    BY <1>3 DEF ApplyProfile
  <1>5. Sound(signatures, generation, health, pins', req')
    BY <1>2, <1>3, <1>4, MarkSound
  <1> QED BY <1>1, <1>5 DEF IInv

LEMMA ObserveIInv ==
    ASSUME IInv, NEW expired, Observe(expired)
    PROVE  IInv'
  <1>1. Sound(Seen, ReconciledGeneration, ReconciledHealth,
              SurvivingPins(expired), req)
    BY ReconciledSound
  <1>2. /\ signatures' = Seen /\ generation' = ReconciledGeneration
        /\ health' = ReconciledHealth /\ pins' = SurvivingPins(expired)
        /\ req' = req /\ config' = config /\ now' = now
        /\ forced' = ReconciledForce
    BY DEF Observe, Reconcile
  <1>3. config \in Configs /\ now \in Nat /\ forced' \in Profile \cup {NoProfile}
    BY <1>2, ForceTyped DEF IInv
  <1> QED BY <1>1, <1>2, <1>3 DEF IInv

LEMMA RouteIInv ==
    ASSUME IInv, NEW r \in Request, NEW ctx \in Context,
           NEW model \in Model \cup {NoModel}, NEW expired,
           Route(r, ctx, model, expired)
    PROVE  IInv'
  <1> DEFINE h == ReconciledHealth
             p == SurvivingPins(expired)
  <1>1. PICK c \in Choices(h, p, ctx, model) :
           /\ health' = Reserved(h, c)
           /\ pins' = IF config.auto
                      THEN PinRequest(p, ctx,
                               [cand |-> c, sig |-> config.sig[c]])
                      ELSE p
           /\ forced' = IF ProfileOf[c] = ReconciledForce
                        THEN NoProfile ELSE ReconciledForce
           /\ req' = [req EXCEPT ![r] = Selected(c, h, ctx, model)]
    BY DEF Route
  <1>2. /\ signatures' = Seen /\ generation' = ReconciledGeneration
        /\ config' = config /\ now' = now
        /\ req[r] = Idle /\ Offered # {}
    BY DEF Route, Reconcile, InFlight
  <1>3. Sound(Seen, ReconciledGeneration, h, p, req)
    BY ReconciledSound
  <1>4. c \in Offered /\ c \in Candidate /\ config.sig[c] \in Signature
    BY <1>1, ChoicesOffered, OfferedSigned DEF IInv
  <1>5. Seen[c] = config.sig[c]
    BY <1>2, <1>4 DEF Seen
  <1>6. h[c] \in Health
    BY <1>3, <1>4, <1>5, SentinelAssumption DEF Sound, Types, Tracked
  <1> DEFINE sel == Selected(c, h, ctx, model)
  <1>7. /\ sel \in Selection
        /\ sel.cand = c /\ sel.born = h[c].born /\ sel.sig = Seen[c]
    <2>1. /\ h[c].born \in Nat /\ h[c].version \in Nat
          /\ ReconciledGeneration \in Nat
      BY <1>6, SeenTyped DEF Health
    <2> HIDE DEF h
    <2> QED BY <1>4, <1>5, <2>1 DEF Selected, Selection
  <1> DEFINE pin == [cand |-> c, sig |-> config.sig[c]]
  <1>8. pin \in Pin /\ Seen[pin.cand] = pin.sig
    BY <1>4, <1>5 DEF Pin
  <1>9. /\ p \in [Kind -> [Key -> Pin \cup {NoPin}]]
        /\ Pinning(Seen, p)
    BY <1>3 DEF Sound, Types
  <1>10. /\ PinRequest(p, ctx, pin) \in [Kind -> [Key -> Pin \cup {NoPin}]]
         /\ Pinning(Seen, PinRequest(p, ctx, pin))
    <2> HIDE DEF p, pin
    <2> QED BY <1>8, <1>9, RequestPinned
  <1>11. /\ pins' \in [Kind -> [Key -> Pin \cup {NoPin}]]
         /\ Pinning(Seen, pins')
    BY <1>1, <1>9, <1>10
  <1>12. Sound(Seen, ReconciledGeneration, Reserved(h, c), pins',
               [req EXCEPT ![r] = sel])
    <2> HIDE DEF h, p, sel
    <2> QED BY <1>2, <1>3, <1>4, <1>5, <1>7, <1>11, ReserveSound
  <1>13. forced' \in Profile \cup {NoProfile}
    BY <1>1, ForceTyped DEF IInv
  <1> QED BY <1>1, <1>2, <1>12, <1>13 DEF IInv

LEMMA RouteUnscheduledIInv ==
    ASSUME IInv, NEW r \in Request, NEW ctx \in Context,
           NEW model \in Model \cup {NoModel}, RouteUnscheduled(r, ctx, model)
    PROVE  IInv'
  <1> DEFINE sel == Unrouted(ctx, model)
  <1>1. sel \in Selection /\ sel.cand = NoCandidate
    BY DEF Unrouted, Selection, IInv, Sound, Types
  <1>2. /\ req[r] = Idle /\ req' = [req EXCEPT ![r] = sel]
        /\ req \in [Request -> Selection \cup {Idle}]
    BY DEF RouteUnscheduled, InFlight, IInv, Sound, Types
  <1> HIDE DEF sel
  <1>3. Sound(signatures, generation, health, pins, req')
    <2>1. req' \in [Request -> Selection \cup {Idle}]
      BY <1>1, <1>2
    <2>2. ASSUME NEW x \in Request, NEW c \in Candidate
          PROVE  /\ (req'[x] # Idle /\ req'[x].cand = c)
                       <=> (req[x] # Idle /\ req[x].cand = c)
                 /\ (req[x] # Idle /\ req[x].cand = c) =>
                       req'[x].born = req[x].born /\ req'[x].sig = req[x].sig
      BY <1>1, <1>2, SentinelAssumption
    <2>3. /\ pins \in [Kind -> [Key -> Pin \cup {NoPin}]]
          /\ Pinning(signatures, pins)
      BY DEF IInv, Sound, Types
    <2> QED BY <2>1, <2>2, <2>3, MarkSound
  <1> QED BY <1>3 DEF RouteUnscheduled, IInv

LEMMA ReturnIInv ==
    ASSUME IInv, NEW r \in Request, Return(r)
    PROVE  IInv'
  <1>1. /\ req[r] # Idle
        /\ req \in [Request -> Selection \cup {Idle}]
        /\ req' = [req EXCEPT ![r] = Idle]
        /\ health' = Released(r)
    BY DEF Return, InFlight, IInv, Sound, Types
  <1>2. /\ pins \in [Kind -> [Key -> Pin \cup {NoPin}]]
        /\ Pinning(signatures, pins)
    BY DEF IInv, Sound, Types
  <1>3. Released(r) \in [Candidate -> Health \cup {NoHealth}]
    BY <1>1, ReleasedTyped
  <1>4. ASSUME NEW c \in Candidate
        PROVE  /\ Released(r)[c] = NoHealth <=> health[c] = NoHealth
               /\ Released(r)[c].born = health[c].born
               /\ Released(r)[c] # NoHealth =>
                     /\ Released(r)[c].heard \subseteq {signatures[c]}
                     /\ Released(r)[c].inFlight =
                           IF Holds(r, c) THEN health[c].inFlight - 1
                                          ELSE health[c].inFlight
    <2>1. health[c] # NoHealth => health[c].heard \subseteq {signatures[c]}
      BY DEF IInv, Sound, Evident
    <2>2. CASE Holds(r, c)
      BY <1>1, <2>1, <2>2, ReleasedTyped, HeldIsCounted, RecordShapes
    <2>3. CASE ~Holds(r, c)
      BY <1>1, <2>1, <2>3, ReleasedTyped
    <2> QED BY <2>2, <2>3
  <1>5. Sound(signatures, generation, health', pins, req')
    BY <1>1, <1>2, <1>3, <1>4, SettleSound
  <1> QED BY <1>5 DEF Return, IInv

LEMMA SucceedIInv ==
    ASSUME IInv, NEW r \in Request, NEW id \in Key \cup {NoKey}, Succeed(r, id)
    PROVE  IInv'
  <1> DEFINE c == req[r].cand
             n == IF Stale(r) THEN Struck(r)
                              ELSE Cleared(Struck(r), req[r].model)
             pin == [cand |-> c, sig |-> req[r].sig]
  <1>1. /\ Accepted(r)
        /\ health' = [health EXCEPT ![c] = n]
        /\ pins' = PinResponse(req[r].context, id, pin)
        /\ req' = [req EXCEPT ![r] = Idle]
        /\ req \in [Request -> Selection \cup {Idle}]
    BY DEF Succeed, IInv, Sound, Types
  <1>2. n \in Health /\ Same(n, Struck(r))
    BY <1>1, StruckTyped, ClearedTyped DEF Same
  <1>3. pin \in Pin /\ signatures[pin.cand] = pin.sig
    BY <1>1, AcceptedHolds DEF Pin
  <1> HIDE DEF n, pin
  <1>4. /\ pins' \in [Kind -> [Key -> Pin \cup {NoPin}]]
        /\ Pinning(signatures, pins')
    <2>1. pins \in [Kind -> [Key -> Pin \cup {NoPin}]] /\ Pinning(signatures, pins)
      BY DEF IInv, Sound, Types
    <2> QED BY <1>1, <1>3, <2>1, ResponsePinned
  <1>5. Sound(signatures, generation, health', pins', req')
    BY <1>1, <1>2, <1>4, FileSound
  <1> QED BY <1>5 DEF Succeed, IInv

LEMMA FailIInv ==
    ASSUME IInv, NEW r \in Request, NEW h, Fail(r, h),
           Accepted(r) => h \in Health /\ Same(h, Struck(r))
    PROVE  IInv'
  <1> DEFINE n == [h EXCEPT !.version = @ + 1]
  <1>1. /\ Accepted(r)
        /\ health' = [health EXCEPT ![req[r].cand] = n]
        /\ pins' = pins
        /\ req' = [q \in Request |->
                      IF q = r THEN Idle
                      ELSE IF q \in LeftBehind(r)
                      THEN [req[q] EXCEPT !.behind = TRUE]
                      ELSE req[q]]
    BY DEF Fail
  <1>2. n \in Health /\ Same(n, Struck(r))
    BY <1>1, Versioned DEF Same
  <1>3. ASSUME NEW x \in Request \ {r}
        PROVE  /\ req'[x] \in Selection \cup {Idle}
               /\ req'[x] = Idle <=> req[x] = Idle
               /\ req[x] # Idle => /\ req'[x].cand = req[x].cand
                                   /\ req'[x].born = req[x].born
                                   /\ req'[x].sig = req[x].sig
    <2>1. CASE x \in LeftBehind(r)
      <3>1. /\ req'[x] = [req[x] EXCEPT !.behind = TRUE]
            /\ req[x] \in Selection /\ req[x] # Idle
        BY <1>1, <2>1 DEF LeftBehind, Holds, InFlight, IInv, Sound, Types
      <3>2. /\ req'[x] \in Selection
            /\ req'[x].cand = req[x].cand
            /\ req'[x].born = req[x].born
            /\ req'[x].sig = req[x].sig
        BY <3>1 DEF Selection
      <3> QED BY <3>1, <3>2, RecordShapes
    <2>2. CASE x \notin LeftBehind(r)
      BY <1>1, <2>2 DEF IInv, Sound, Types
    <2> QED BY <2>1, <2>2
  <1>4. req'[r] = Idle /\ req' \in [Request -> Selection \cup {Idle}]
    BY <1>1, <1>3
  <1>5. pins \in [Kind -> [Key -> Pin \cup {NoPin}]] /\ Pinning(signatures, pins)
    BY DEF IInv, Sound, Types
  <1> HIDE DEF n
  <1>6. Sound(signatures, generation, health', pins', req')
    BY <1>1, <1>2, <1>3, <1>4, <1>5, FileSound
  <1> QED BY <1>6 DEF Fail, IInv

LEMMA VerdictIInv ==
    ASSUME IInv, NEW r \in Request, Verdict(r)
    PROVE  IInv'
  <1>1. now \in Nat
    BY DEF IInv
  <1>2. Accepted(r) => /\ Struck(r) \in Health
                       /\ req[r].model \in Model \cup {NoModel}
    BY StruckTyped, AcceptedHolds DEF Selection
  <1>3. CASE Return(r)
    BY <1>3, ReturnIInv
  <1>4. ASSUME NEW id \in Key \cup {NoKey}, Succeed(r, id) PROVE IInv'
    BY <1>4, SucceedIInv
  <1>5. CASE RefuseAccount(r)
    BY <1>1, <1>2, <1>5, QuarantinedTyped, FailIInv DEF RefuseAccount
  <1>6. ASSUME NEW d \in RateLimitCooldown, NEW s \in StickyReserve,
               RefuseRate(r, d, s)
        PROVE  IInv'
    BY <1>1, <1>2, <1>6, RateLimitedTyped, FailIInv DEF RefuseRate
  <1>7. ASSUME NEW reconnect \in BOOLEAN, FailTransiently(r, reconnect)
        PROVE  IInv'
    BY <1>1, <1>2, <1>7, TransientlyFailedTyped, FailIInv DEF FailTransiently
  <1>8. CASE RefuseModel(r)
    BY <1>1, <1>2, <1>8, ModelRefusedTyped, FailIInv DEF RefuseModel
  <1> QED BY <1>3, <1>4, <1>5, <1>6, <1>7, <1>8 DEF Verdict

LEMMA NextIInv == IInv /\ [Next]_vars => IInv'
  <1> SUFFICES ASSUME IInv, [Next]_vars PROVE IInv'
    OBVIOUS
  <1>1. CASE EditConfig
    BY <1>1 DEF EditConfig, IInv
  <1>2. ASSUME NEW p \in Profile, ApplyProfile(p) PROVE IInv'
    BY <1>2, ApplyIInv
  <1>3. ASSUME NEW expired, Observe(expired) PROVE IInv'
    BY <1>3, ObserveIInv
  <1>4. ASSUME NEW r \in Request, NEW ctx \in Context,
               NEW model \in Model \cup {NoModel}, NEW expired,
               Route(r, ctx, model, expired)
        PROVE  IInv'
    BY <1>4, RouteIInv
  <1>5. ASSUME NEW r \in Request, NEW ctx \in Context,
               NEW model \in Model \cup {NoModel},
               RouteUnscheduled(r, ctx, model)
        PROVE  IInv'
    BY <1>5, RouteUnscheduledIInv
  <1>6. ASSUME NEW r \in Request, Verdict(r) PROVE IInv'
    BY <1>6, VerdictIInv
  <1>7. CASE Tick
    BY <1>7 DEF Tick, IInv
  <1>8. CASE UNCHANGED vars
    BY <1>8 DEF vars, IInv
  <1> QED BY <1>1, <1>2, <1>3, <1>4, <1>5, <1>6, <1>7, <1>8 DEF Next

-----------------------------------------------------------------------------
(* The theorems.                                                           *)

LEMMA Invariance == Spec => []IInv
  BY InitIInv, NextIInv, PTL DEF Spec

\* The state keeps its type: no verdict drives a load or a counter below zero.
THEOREM TypeCorrect == Spec => []TypeOK
  <1>1. IInv => TypeOK
    BY DEF IInv, Sound, Types, TypeOK
  <1> QED BY Invariance, <1>1, PTL

\* recordResult and reserveSelection keep the load of every key exact.
THEOREM LoadExact == Spec => []InFlightExact
  <1>1. IInv => InFlightExact
    <2> SUFFICES ASSUME IInv, NEW c \in Candidate, Known(c)
                 PROVE  health[c].inFlight =
                           Cardinality({r \in Request : Holds(r, c)})
      BY DEF InFlightExact
    <2>1. Holders(health, req, c) = {r \in Request : Holds(r, c)}
      BY DEF Holders, Holds, InFlight
    <2> QED BY <2>1 DEF IInv, Sound, Exact, Known
  <1> QED BY Invariance, <1>1, PTL

\* No verdict is filed against a credential other than the one it was earned
\* with.
THEOREM EvidenceIsOwn == Spec => []EvidenceMatchesCredential
  <1>1. IInv => EvidenceMatchesCredential
    BY DEF IInv, Sound, Evident, EvidenceMatchesCredential, Known
  <1> QED BY Invariance, <1>1, PTL

\* No pin outlives the credential that earned it.
THEOREM PinsAreOwn == Spec => []PinsFollowCredential
  <1>1. IInv => PinsFollowCredential
    BY DEF IInv, Sound, Pinning, PinsFollowCredential
  <1> QED BY Invariance, <1>1, PTL

-----------------------------------------------------------------------------
(***************************************************************************)
(* The blocks of PrimaryFailover are lifted early only by evidence that is *)
(* newer than they are: BlockLiftedOnlyByLaterSuccess, for every instance. *)
(*                                                                         *)
(* The argument: a failure moves the version of its record past that of    *)
(* every request then open on it (Ordered), so a success that still finds  *)
(* its version was routed after the last failure; and no other verdict     *)
(* brings a deadline forward (Raised).                                     *)
(*                                                                         *)
(* The last section is about the choice itself: a key in a block, and one  *)
(* that opts out of rotation, are chosen only for the reasons that         *)
(* BlockedKeysGetNoTraffic and OptedOutKeysNeedOperator name.              *)
(***************************************************************************)

\* An open request never knows a later version than its record has, and one
\* that a failure left behind knows an earlier one.
Ordered(h, q) ==
    \A c \in Candidate, r \in Request :
        (q[r] # Idle /\ q[r].cand = c /\ q[r].born = h[c].born) =>
            /\ q[r].version <= h[c].version
            /\ q[r].behind => q[r].version < h[c].version

\* A model is never disabled for longer than MODEL_DISABLE from now.
Bounded(h, t) ==
    \A c \in Candidate, m \in Model :
        h[c] # NoHealth => h[c].modelCooldown[m] <= t + MODEL_DISABLE

JInv == IInv /\ Ordered(health, req) /\ Bounded(health, now)

\* n has the deadlines and the version of h.
Steady(n, h) ==
    /\ n.version = h.version
    /\ n.cooldownUntil = h.cooldownUntil
    /\ n.quarantineUntil = h.quarantineUntil
    /\ n.rateLimitUntil = h.rateLimitUntil
    /\ n.stickyOnlyUntil = h.stickyOnlyUntil
    /\ n.modelCooldown = h.modelCooldown

\* n has no deadline earlier than h.
Raised(n, h) ==
    /\ n.cooldownUntil >= h.cooldownUntil
    /\ n.quarantineUntil >= h.quarantineUntil
    /\ n.rateLimitUntil >= h.rateLimitUntil
    /\ n.stickyOnlyUntil >= h.stickyOnlyUntil
    /\ \A m \in Model : n.modelCooldown[m] >= h.modelCooldown[m]

-----------------------------------------------------------------------------
(* What a verdict does to a record.                                        *)

LEMMA LaterIsLater ==
    ASSUME NEW t \in Nat, NEW u \in Nat
    PROVE  Later(t, u) \in Nat /\ Later(t, u) >= t
  BY DEF Later

LEMMA SteadyRaised ==
    ASSUME NEW h \in Health, NEW n \in Health, Steady(n, h)
    PROVE  Raised(n, h)
  BY DEF Steady, Raised, Health

LEMMA VersionedRaised ==
    ASSUME NEW h \in Health, NEW n \in Health, Raised(n, h)
    PROVE  /\ Raised([n EXCEPT !.version = @ + 1], h)
           /\ [n EXCEPT !.version = @ + 1].version = n.version + 1
           /\ [n EXCEPT !.version = @ + 1].modelCooldown = n.modelCooldown
  BY DEF Raised, Health

\* A failure keeps the version for Fail to move, raises deadlines, and keeps
\* the disabled models within MODEL_DISABLE.
Harmed(n, h) ==
    /\ n.born = h.born
    /\ n.version = h.version
    /\ Raised(n, h)
    /\ \A m \in Model : \/ n.modelCooldown[m] = h.modelCooldown[m]
                        \/ n.modelCooldown[m] = now + MODEL_DISABLE

LEMMA QuarantinedHarms ==
    ASSUME NEW h \in Health, now \in Nat
    PROVE  Harmed(Quarantined(h), h)
  <1> DEFINE until == Later(h.quarantineUntil, now + ACCOUNT_QUARANTINE)
  <1>1. until \in Nat /\ until >= h.quarantineUntil
    <2>1. h.quarantineUntil \in Nat /\ now + ACCOUNT_QUARANTINE \in Nat
      BY DurationAssumption DEF Health
    <2> QED BY <2>1, LaterIsLater
  <1>2. Quarantined(h) =
           [h EXCEPT !.transientFailures = 0, !.emptyStreamFailures = 0,
                     !.quarantineUntil = until]
    BY DEF Quarantined, Health
  <1> HIDE DEF until
  <1> QED BY <1>1, <1>2 DEF Harmed, Raised, Health

LEMMA RateLimitedHarms ==
    ASSUME NEW h \in Health, now \in Nat,
           NEW cooldown \in RateLimitCooldown, NEW reserve \in StickyReserve
    PROVE  Harmed(RateLimited(h, cooldown, reserve), h)
  <1> DEFINE until == Later(h.rateLimitUntil, now + cooldown)
             sticky == IF reserve > 0
                       THEN Later(h.stickyOnlyUntil, until + reserve)
                       ELSE h.stickyOnlyUntil
  <1>1. until \in Nat /\ until >= h.rateLimitUntil
    <2>1. h.rateLimitUntil \in Nat /\ now + cooldown \in Nat
      BY DurationAssumption DEF Health
    <2> QED BY <2>1, LaterIsLater
  <1>2. sticky \in Nat /\ sticky >= h.stickyOnlyUntil
    <2> HIDE DEF until
    <2>1. h.stickyOnlyUntil \in Nat /\ until + reserve \in Nat
      BY <1>1, DurationAssumption DEF Health
    <2>2. /\ Later(h.stickyOnlyUntil, until + reserve) \in Nat
          /\ Later(h.stickyOnlyUntil, until + reserve) >= h.stickyOnlyUntil
      BY <2>1, LaterIsLater
    <2> QED BY <2>1, <2>2
  <1>3. RateLimited(h, cooldown, reserve) =
           [h EXCEPT !.rateLimitUntil = until, !.stickyOnlyUntil = sticky]
    BY DEF RateLimited
  <1> HIDE DEF until, sticky
  <1> QED BY <1>1, <1>2, <1>3 DEF Harmed, Raised, Health

LEMMA TransientlyFailedHarms ==
    ASSUME NEW h \in Health, now \in Nat, NEW reconnect \in BOOLEAN
    PROVE  Harmed(TransientlyFailed(h, reconnect), h)
  <1> DEFINE n == h.transientFailures + 1
             e == IF reconnect THEN h.emptyStreamFailures + 1
                               ELSE h.emptyStreamFailures
             trip == /\ n >= FAILOVER_FAILURE_THRESHOLD
                     /\ reconnect => e >= FAILOVER_FAILURE_THRESHOLD
             until == IF trip THEN Later(h.cooldownUntil, now + Backoff(n))
                              ELSE h.cooldownUntil
  <1>1. n \in Nat /\ e \in Nat
    BY DEF Health
  <1>2. until \in Nat /\ until >= h.cooldownUntil
    <2> HIDE DEF n, e
    <2>1. trip => now + Backoff(n) \in Nat
      BY <1>1, BackoffTyped
    <2>2. h.cooldownUntil \in Nat
      BY DEF Health
    <2> HIDE DEF trip
    <2>3. trip => /\ Later(h.cooldownUntil, now + Backoff(n)) \in Nat
                  /\ Later(h.cooldownUntil, now + Backoff(n)) >= h.cooldownUntil
      BY <2>1, <2>2, LaterIsLater
    <2> QED BY <2>2, <2>3
  <1>3. TransientlyFailed(h, reconnect) =
           [h EXCEPT !.transientFailures = n, !.emptyStreamFailures = e,
                     !.cooldownUntil = until]
    BY DEF TransientlyFailed
  <1> HIDE DEF n, e, until
  <1> QED BY <1>1, <1>2, <1>3 DEF Harmed, Raised, Health

\* The one deadline that is set and not raised: that it never moves back
\* rests on the clock, which is what Bounded is for.
LEMMA ModelRefusedHarms ==
    ASSUME NEW h \in Health, now \in Nat, NEW model \in Model \cup {NoModel},
           \A m \in Model : h.modelCooldown[m] <= now + MODEL_DISABLE
    PROVE  Harmed(ModelRefused(h, model), h)
  <1> DEFINE n == h.modelFailures[model] + 1
             trip == n >= FAILOVER_FAILURE_THRESHOLD
             failures == [h.modelFailures EXCEPT ![model] =
                             IF trip THEN 0 ELSE n]
             cooldowns == [m \in Model |-> IF trip /\ m = model
                                           THEN now + MODEL_DISABLE
                                           ELSE h.modelCooldown[m]]
             until == IF trip /\ model = NoModel
                      THEN Later(h.cooldownUntil, now + TRANSIENT_COOLDOWN)
                      ELSE h.cooldownUntil
  <1>1. \A m \in Model : /\ cooldowns[m] \in Nat
                         /\ cooldowns[m] >= h.modelCooldown[m]
                         /\ \/ cooldowns[m] = h.modelCooldown[m]
                            \/ cooldowns[m] = now + MODEL_DISABLE
    <2> HIDE DEF n
    <2>1. now + MODEL_DISABLE \in Nat
      BY DurationAssumption
    <2>2. \A m \in Model : h.modelCooldown[m] \in Nat
      BY DEF Health
    <2> QED BY <2>1, <2>2
  <1>2. until \in Nat /\ until >= h.cooldownUntil
    <2>1. h.cooldownUntil \in Nat /\ now + TRANSIENT_COOLDOWN \in Nat
      BY DurationAssumption DEF Health
    <2> HIDE DEF n
    <2>2. /\ Later(h.cooldownUntil, now + TRANSIENT_COOLDOWN) \in Nat
          /\ Later(h.cooldownUntil, now + TRANSIENT_COOLDOWN) >= h.cooldownUntil
      BY <2>1, LaterIsLater
    <2> QED BY <2>1, <2>2
  <1>3. ModelRefused(h, model) =
           [h EXCEPT !.modelFailures = failures, !.modelCooldown = cooldowns,
                     !.cooldownUntil = until]
    BY DEF ModelRefused, Health
  <1> HIDE DEF failures, cooldowns, until
  <1> QED BY <1>1, <1>2, <1>3 DEF Harmed, Raised, Health

LEMMA ClearedSpares ==
    ASSUME NEW h \in Health, NEW model
    PROVE  /\ Cleared(h, model).version = h.version + 1
           /\ \A m \in Model :
                 Cleared(h, model).modelCooldown[m] =
                    IF m = model THEN 0 ELSE h.modelCooldown[m]
  BY DEF Cleared, Health

LEMMA StruckSteady ==
    ASSUME IInv, NEW r \in Request, Accepted(r)
    PROVE  Steady(Struck(r), health[req[r].cand])
  <1> DEFINE c == req[r].cand
             h == health[c]
             heard == h.heard \cup {req[r].sig}
             load == IF h.inFlight > 0 THEN h.inFlight - 1 ELSE 0
  <1>1. c \in Candidate /\ Holds(r, c) /\ h \in Health
    BY AcceptedHolds, HeldIsCounted
  <1>2. Released(r)[c] = [h EXCEPT !.inFlight = load]
    BY <1>1 DEF Released, Holds
  <1>3. Struck(r) =
           [[h EXCEPT !.inFlight = load] EXCEPT !.heard = @ \cup {req[r].sig}]
    BY <1>2 DEF Struck
  <1> HIDE DEF load, h
  <1> QED BY <1>1, <1>3 DEF Steady, Health, c, h

-----------------------------------------------------------------------------
(* What a step does to a record that it keeps.                             *)

Clears(r, c) ==
    /\ Accepted(r) /\ req[r].cand = c /\ ~Stale(r) /\ req'[r] = Idle
    /\ health'[c] = Cleared(Struck(r), req[r].model)

\* Only reservation and release, a failure, or a success that is not stale.
Fate(c) ==
    \/ Steady(health'[c], health[c])
    \/ /\ Raised(health'[c], health[c])
       /\ health'[c].version = health[c].version + 1
       /\ \A m \in Model : \/ health'[c].modelCooldown[m] =
                                 health[c].modelCooldown[m]
                           \/ health'[c].modelCooldown[m] = now + MODEL_DISABLE
    \/ \E r \in Request : Clears(r, c)

\* A record with a holder, or with its identity, came through reconciliation.
LEMMA KeptIsKept ==
    ASSUME IInv, NEW c \in Candidate, Known(c),
           ReconciledHealth[c].born = health[c].born
    PROVE  ReconciledHealth[c] = health[c]
  <1>1. /\ health[c].born \in Nat /\ health[c].born <= generation
        /\ generation \in Nat /\ ReconciledGeneration \in Nat
    BY SeenTyped DEF IInv, Sound, Types, Tracked, Known, Health
  <1>2. /\ FreshHealth(ReconciledGeneration).born = ReconciledGeneration
        /\ NoHealth.born = -1
    BY <1>1, FreshTyped, RecordShapes
  <1> QED BY <1>1, <1>2, ReconciledCases

LEMMA HolderIsKept ==
    ASSUME IInv, NEW r \in Request, NEW c \in Candidate,
           req[r] # Idle, req[r].cand = c,
           req[r].born = ReconciledHealth[c].born
    PROVE  ReconciledHealth[c] = health[c] /\ Known(c)
  <1>1. /\ req[r].born \in Nat /\ req[r].born <= generation
        /\ ~Known(c) => req[r].born < generation
        /\ generation \in Nat /\ ReconciledGeneration \in Nat
        /\ generation <= ReconciledGeneration
    BY SeenTyped DEF IInv, Sound, Types, Dated, Known, Selection
  <1>2. /\ FreshHealth(ReconciledGeneration).born = ReconciledGeneration
        /\ NoHealth.born = -1
    BY <1>1, FreshTyped, RecordShapes
  <1> QED BY <1>1, <1>2, ReconciledCases

LEMMA ReservedSteady ==
    ASSUME NEW h \in [Candidate -> Health \cup {NoHealth}],
           NEW c \in Candidate, h[c] \in Health, NEW d \in Candidate
    PROVE  /\ Reserved(h, c)[d].born = h[d].born
           /\ h[d] \in Health => Steady(Reserved(h, c)[d], h[d])
           /\ Reserved(h, c)[d] = NoHealth <=> h[d] = NoHealth
  <1>1. CASE d = c
    <2>1. Reserved(h, c)[d] = [h[c] EXCEPT !.inFlight = @ + 1]
      BY <1>1 DEF Reserved
    <2>2. Reserved(h, c)[d] \in Health
      BY <2>1 DEF Health
    <2>3. /\ Reserved(h, c)[d].born = h[c].born
          /\ Steady(Reserved(h, c)[d], h[c])
      BY <2>1 DEF Steady, Health
    <2> QED BY <1>1, <2>2, <2>3, RecordShapes
  <1>2. CASE d # c
    BY <1>2 DEF Reserved, Steady
  <1> QED BY <1>1, <1>2

LEMMA RouteChoice ==
    ASSUME IInv, NEW r \in Request, NEW ctx, NEW model, NEW expired,
           Route(r, ctx, model, expired)
    PROVE  \E c \in Candidate :
              /\ health' = Reserved(ReconciledHealth, c)
              /\ ReconciledHealth \in [Candidate -> Health \cup {NoHealth}]
              /\ ReconciledHealth[c] \in Health
              /\ req[r] = Idle
              /\ req' = [req EXCEPT
                            ![r] = Selected(c, ReconciledHealth, ctx, model)]
  <1>1. PICK c \in Choices(ReconciledHealth, SurvivingPins(expired), ctx, model) :
           /\ health' = Reserved(ReconciledHealth, c)
           /\ req' = [req EXCEPT
                         ![r] = Selected(c, ReconciledHealth, ctx, model)]
    BY DEF Route
  <1>2. /\ c \in Offered /\ c \in Candidate /\ config.sig[c] \in Signature
    BY <1>1, ChoicesOffered, OfferedSigned DEF IInv
  <1>3. Seen[c] # Absent
    BY <1>2, SentinelAssumption DEF Seen
  <1>4. ReconciledHealth \in [Candidate -> Health \cup {NoHealth}]
    BY ReconciledTyped DEF Types
  <1>5. ReconciledHealth[c] \in Health
    BY <1>2, <1>3, <1>4, ReconciledTracked DEF Tracked
  <1> QED BY <1>1, <1>2, <1>4, <1>5 DEF Route, InFlight

LEMMA ReleaseSteady ==
    ASSUME IInv, NEW r \in Request, req[r] # Idle, NEW c \in Candidate, Known(c)
    PROVE  Steady(Released(r)[c], health[c])
  <1> DEFINE load == IF health[c].inFlight > 0 THEN health[c].inFlight - 1 ELSE 0
  <1>1. health[c] \in Health
    BY DEF IInv, Sound, Types, Known
  <1>2. \/ Released(r)[c] = [health[c] EXCEPT !.inFlight = load]
        \/ Released(r)[c] = health[c]
    BY DEF Released
  <1> HIDE DEF load
  <1> QED BY <1>1, <1>2 DEF Steady, Health

\* What the five failure verdicts have in common.
LEMMA FailureHarms ==
    ASSUME JInv, NEW r \in Request, Verdict(r)
    PROVE  \/ Return(r)
           \/ \E id \in Key \cup {NoKey} : Succeed(r, id)
           \/ \E n : Fail(r, n) /\ n \in Health /\ Harmed(n, Struck(r))
  <1>1. now \in Nat
    BY DEF JInv, IInv
  <1>2. ASSUME Accepted(r)
        PROVE  /\ Struck(r) \in Health
               /\ req[r].model \in Model \cup {NoModel}
               /\ \A m \in Model :
                     Struck(r).modelCooldown[m] <= now + MODEL_DISABLE
    <2>1. /\ Struck(r) \in Health /\ req[r].model \in Model \cup {NoModel}
      BY <1>2, StruckTyped, AcceptedHolds DEF JInv, Selection
    <2>2. Struck(r).modelCooldown = health[req[r].cand].modelCooldown
      BY <1>2, StruckSteady DEF JInv, Steady
    <2>3. req[r].cand \in Candidate /\ health[req[r].cand] # NoHealth
      BY <1>2, AcceptedHolds DEF JInv, Accepted, Known
    <2> QED BY <2>1, <2>2, <2>3 DEF JInv, Bounded
  <1>3. \A n : Fail(r, n) => Accepted(r)
    BY DEF Fail
  <1>4. CASE RefuseAccount(r)
    BY <1>1, <1>2, <1>3, <1>4, QuarantinedTyped, QuarantinedHarms
       DEF RefuseAccount
  <1>5. ASSUME NEW d \in RateLimitCooldown, NEW s \in StickyReserve,
               RefuseRate(r, d, s)
        PROVE  \E n : Fail(r, n) /\ n \in Health /\ Harmed(n, Struck(r))
    BY <1>1, <1>2, <1>3, <1>5, RateLimitedTyped, RateLimitedHarms
       DEF RefuseRate
  <1>6. ASSUME NEW reconnect \in BOOLEAN, FailTransiently(r, reconnect)
        PROVE  \E n : Fail(r, n) /\ n \in Health /\ Harmed(n, Struck(r))
    BY <1>1, <1>2, <1>3, <1>6, TransientlyFailedTyped, TransientlyFailedHarms
       DEF FailTransiently
  <1>7. CASE RefuseModel(r)
    BY <1>1, <1>2, <1>3, <1>7, ModelRefusedTyped, ModelRefusedHarms
       DEF RefuseModel
  <1> QED BY <1>4, <1>5, <1>6, <1>7 DEF Verdict

LEMMA SucceedFate ==
    ASSUME IInv, NEW r \in Request, NEW id, Succeed(r, id),
           NEW c \in Candidate, Known(c)
    PROVE  Fate(c)
  <1>1. /\ Accepted(r) /\ req[r].cand \in Candidate /\ req[r] # Idle
        /\ health \in [Candidate -> Health \cup {NoHealth}]
        /\ req \in [Request -> Selection \cup {Idle}]
    BY AcceptedHolds DEF Succeed, IInv, Sound, Types
  <1>2. health' = [health EXCEPT ![req[r].cand] =
                      IF Stale(r) THEN Struck(r)
                                  ELSE Cleared(Struck(r), req[r].model)]
    BY DEF Succeed
  <1>3. CASE c # req[r].cand
    BY <1>1, <1>2, <1>3 DEF Fate, Steady
  <1>4. CASE c = req[r].cand /\ Stale(r)
    BY <1>1, <1>2, <1>4, StruckSteady DEF Fate
  <1>5. CASE c = req[r].cand /\ ~Stale(r)
    <2>1. Clears(r, c)
      BY <1>1, <1>2, <1>5 DEF Clears, Succeed
    <2> QED BY <2>1 DEF Fate
  <1> QED BY <1>3, <1>4, <1>5

LEMMA FailFate ==
    ASSUME IInv, NEW r \in Request, NEW n \in Health, Fail(r, n),
           Harmed(n, Struck(r)), NEW c \in Candidate, Known(c)
    PROVE  Fate(c)
  <1>1. /\ Accepted(r) /\ req[r].cand \in Candidate
        /\ health \in [Candidate -> Health \cup {NoHealth}]
        /\ Struck(r) \in Health
        /\ Steady(Struck(r), health[req[r].cand])
        /\ health[c] \in Health
    BY AcceptedHolds, StruckTyped, StruckSteady
       DEF Fail, IInv, Sound, Types, Known
  <1>2. health' = [health EXCEPT ![req[r].cand] = [n EXCEPT !.version = @ + 1]]
    BY DEF Fail
  <1>3. CASE c # req[r].cand
    BY <1>1, <1>2, <1>3 DEF Fate, Steady
  <1>4. CASE c = req[r].cand
    <2> DEFINE w == [n EXCEPT !.version = @ + 1]
    <2>1. health'[c] = w
      BY <1>1, <1>2, <1>4
    <2>2. Raised(n, health[c])
      BY <1>1, <1>4 DEF Harmed, Raised, Steady
    <2>3. /\ Raised(w, health[c])
          /\ w.version = n.version + 1
          /\ w.modelCooldown = n.modelCooldown
      BY <1>1, <2>2, VersionedRaised
    <2>4. /\ n.version = health[c].version
          /\ \A m \in Model : \/ n.modelCooldown[m] = health[c].modelCooldown[m]
                              \/ n.modelCooldown[m] = now + MODEL_DISABLE
      BY <1>1, <1>4 DEF Harmed, Steady
    <2> HIDE DEF w
    <2> QED BY <2>1, <2>3, <2>4 DEF Fate
  <1> QED BY <1>3, <1>4

LEMMA EveryFate ==
    ASSUME JInv, [Next]_vars, NEW c \in Candidate, Kept(c)
    PROVE  Fate(c)
  <1>1. IInv /\ Known(c) /\ health'[c].born = health[c].born
    BY DEF JInv, Kept
  <1>2. CASE health' = health
    BY <1>2 DEF Fate, Steady
  <1>3. ASSUME NEW expired, Observe(expired) PROVE Fate(c)
    <2>1. health'[c] = health[c]
      BY <1>1, <1>3, KeptIsKept DEF Observe
    <2> QED BY <2>1 DEF Fate, Steady
  <1>4. ASSUME NEW r \in Request, NEW ctx, NEW model, NEW expired,
               Route(r, ctx, model, expired)
        PROVE  Fate(c)
    <2>1. PICK d \in Candidate :
             /\ health' = Reserved(ReconciledHealth, d)
             /\ ReconciledHealth \in [Candidate -> Health \cup {NoHealth}]
             /\ ReconciledHealth[d] \in Health
      BY <1>1, <1>4, RouteChoice
    <2>2. ReconciledHealth[c].born = health[c].born
      BY <1>1, <2>1, ReservedSteady
    <2>3. ReconciledHealth[c] = health[c] /\ health[c] \in Health
      BY <1>1, <2>2, KeptIsKept DEF IInv, Sound, Types, Known
    <2> QED BY <2>1, <2>3, ReservedSteady DEF Fate
  <1>5. ASSUME NEW r \in Request, Verdict(r) PROVE Fate(c)
    <2>1. CASE Return(r)
      <3>1. req[r] # Idle /\ health' = Released(r)
        BY <2>1 DEF Return, InFlight
      <3> QED BY <1>1, <3>1, ReleaseSteady DEF Fate
    <2>2. ASSUME NEW id, Succeed(r, id) PROVE Fate(c)
      BY <1>1, <2>2, SucceedFate
    <2>3. ASSUME NEW n, Fail(r, n), n \in Health, Harmed(n, Struck(r))
          PROVE  Fate(c)
      BY <1>1, <2>3, FailFate
    <2> QED BY <1>5, <2>1, <2>2, <2>3, FailureHarms
  <1> QED
    BY <1>2, <1>3, <1>4, <1>5
       DEF Next, EditConfig, ApplyProfile, RouteUnscheduled, Tick, vars

-----------------------------------------------------------------------------
(* JInv is inductive.                                                      *)

\* q is as it was, but for the mark of a request that r's failure leaves
\* behind.
Carried(q, r) ==
    /\ req[q] # Idle
    /\ req'[q].cand = req[q].cand
    /\ req'[q].born = req[q].born
    /\ req'[q].version = req[q].version
    /\ \/ req'[q].behind = req[q].behind
       \/ \E n \in Health : /\ Fail(r, n) /\ Harmed(n, Struck(r))
                            /\ Holds(q, req[r].cand)

\* A verdict keeps every record.
SameRecords ==
    \A c \in Candidate : /\ health'[c].born = health[c].born
                         /\ health'[c] # NoHealth => Known(c)

LEMMA ReturnKeeps ==
    ASSUME IInv, NEW r \in Request, Return(r)
    PROVE  /\ now' = now /\ req'[r] = Idle /\ SameRecords
           /\ \A q \in Request \ {r} : req'[q] # Idle => Carried(q, r)
  <1>1. /\ req[r] # Idle /\ health' = Released(r)
        /\ req \in [Request -> Selection \cup {Idle}]
        /\ req' = [req EXCEPT ![r] = Idle] /\ now' = now
    BY DEF Return, InFlight, IInv, Sound, Types
  <1>2. ASSUME NEW c \in Candidate
        PROVE  /\ health'[c].born = health[c].born
               /\ health'[c] # NoHealth => Known(c)
    <2>1. CASE Holds(r, c)
      BY <1>1, <2>1, ReleasedTyped, HeldIsCounted, RecordShapes DEF Known
    <2>2. CASE ~Holds(r, c)
      BY <1>1, <2>2, ReleasedTyped DEF Known
    <2> QED BY <2>1, <2>2
  <1> QED BY <1>1, <1>2 DEF SameRecords, Carried

LEMMA SucceedKeeps ==
    ASSUME IInv, NEW r \in Request, NEW id, Succeed(r, id)
    PROVE  /\ now' = now /\ req'[r] = Idle /\ SameRecords
           /\ \A q \in Request \ {r} : req'[q] # Idle => Carried(q, r)
  <1>1. /\ Accepted(r) /\ req[r].cand \in Candidate
        /\ Known(req[r].cand)
        /\ health' = [health EXCEPT ![req[r].cand] =
                         IF Stale(r) THEN Struck(r)
                                     ELSE Cleared(Struck(r), req[r].model)]
        /\ health \in [Candidate -> Health \cup {NoHealth}]
        /\ req \in [Request -> Selection \cup {Idle}]
        /\ req' = [req EXCEPT ![r] = Idle] /\ now' = now
    BY AcceptedHolds DEF Succeed, Accepted, IInv, Sound, Types
  <1>2. /\ Struck(r).born = health[req[r].cand].born
        /\ Cleared(Struck(r), req[r].model).born = health[req[r].cand].born
    BY <1>1, StruckTyped, ClearedTyped DEF Same
  <1>3. SameRecords
    BY <1>1, <1>2 DEF SameRecords, Known
  <1> QED BY <1>1, <1>3 DEF Carried

LEMMA FailKeeps ==
    ASSUME IInv, NEW r \in Request, NEW n \in Health, Fail(r, n),
           Harmed(n, Struck(r))
    PROVE  /\ now' = now /\ req'[r] = Idle /\ SameRecords
           /\ \A q \in Request \ {r} : req'[q] # Idle => Carried(q, r)
  <1>1. /\ Accepted(r) /\ req[r].cand \in Candidate
        /\ Known(req[r].cand) /\ now' = now
        /\ health \in [Candidate -> Health \cup {NoHealth}]
        /\ req \in [Request -> Selection \cup {Idle}]
        /\ health' = [health EXCEPT ![req[r].cand] =
                         [n EXCEPT !.version = @ + 1]]
        /\ req' = [q \in Request |->
                      IF q = r THEN Idle
                      ELSE IF q \in LeftBehind(r)
                      THEN [req[q] EXCEPT !.behind = TRUE]
                      ELSE req[q]]
    BY AcceptedHolds DEF Fail, Accepted, IInv, Sound, Types
  <1>2. [n EXCEPT !.version = @ + 1].born = health[req[r].cand].born
    <2>1. n.born = health[req[r].cand].born
      BY <1>1, StruckTyped DEF Harmed
    <2> QED BY <2>1 DEF Health
  <1>3. SameRecords
    BY <1>1, <1>2 DEF SameRecords, Known
  <1>4. ASSUME NEW q \in Request \ {r}, q \in LeftBehind(r)
        PROVE  Carried(q, r)
    <2>1. req[q] # Idle /\ Holds(q, req[r].cand)
      BY <1>4 DEF LeftBehind, Holds, InFlight
    <2>2. req[q] \in Selection /\ req'[q] = [req[q] EXCEPT !.behind = TRUE]
      BY <1>1, <1>4, <2>1
    <2>3. /\ req'[q].cand = req[q].cand
          /\ req'[q].born = req[q].born
          /\ req'[q].version = req[q].version
      BY <2>2 DEF Selection
    <2> QED BY <2>1, <2>3 DEF Carried
  <1>5. \A q \in Request \ {r} : q \notin LeftBehind(r) => req'[q] = req[q]
    BY <1>1
  <1> QED BY <1>1, <1>3, <1>4, <1>5 DEF Carried

LEMMA VerdictKeeps ==
    ASSUME JInv, NEW r \in Request, Verdict(r)
    PROVE  /\ now' = now /\ req'[r] = Idle /\ SameRecords
           /\ \A q \in Request \ {r} : req'[q] # Idle => Carried(q, r)
  BY FailureHarms, ReturnKeeps, SucceedKeeps, FailKeeps DEF JInv

LEMMA VerdictFate ==
    ASSUME JInv, NEW r \in Request, Verdict(r), NEW c \in Candidate,
           health'[c] # NoHealth
    PROVE  Fate(c) /\ health[c] \in Health
  <1>1. Kept(c)
    BY VerdictKeeps DEF SameRecords, Kept
  <1>2. [Next]_vars
    BY DEF Next
  <1> QED BY <1>1, <1>2, EveryFate DEF JInv, IInv, Sound, Types, Kept, Known

\* A clearing moves the version, and only ever lifts model cooldowns.
LEMMA ClearsMoves ==
    ASSUME IInv, NEW r \in Request, NEW c \in Candidate, Clears(r, c)
    PROVE  /\ health'[c].version = health[c].version + 1
           /\ \A m \in Model : \/ health'[c].modelCooldown[m] = 0
                               \/ health'[c].modelCooldown[m] =
                                     health[c].modelCooldown[m]
           /\ \A m \in Model : m # req[r].model =>
                 health'[c].modelCooldown[m] = health[c].modelCooldown[m]
  <1>1. /\ Struck(r) \in Health
        /\ Steady(Struck(r), health[c])
        /\ health'[c] = Cleared(Struck(r), req[r].model)
    BY StruckTyped, StruckSteady DEF Clears
  <1> QED BY <1>1, ClearedSpares DEF Steady

LEMMA VerdictOrdered ==
    ASSUME JInv, NEW r \in Request, Verdict(r)
    PROVE  Ordered(health', req')
  <1> SUFFICES ASSUME NEW c \in Candidate, NEW q \in Request,
                      req'[q] # Idle, req'[q].cand = c,
                      req'[q].born = health'[c].born
               PROVE  /\ req'[q].version <= health'[c].version
                      /\ req'[q].behind => req'[q].version < health'[c].version
    BY DEF Ordered
  <1>1. q # r /\ Carried(q, r) /\ health'[c].born = health[c].born
    BY VerdictKeeps DEF SameRecords
  <1>2. /\ req[q] # Idle /\ req[q].cand = c /\ req[q].born = health[c].born
        /\ req'[q].version = req[q].version
    BY <1>1 DEF Carried
  <1>3. /\ req[q].version \in Nat
        /\ health[c] \in Health /\ health[c].version \in Nat
        /\ Known(c)
    <2>1. req[q] \in Selection
      BY <1>2 DEF JInv, IInv, Sound, Types
    <2>2. health[c] # NoHealth
      BY <1>2, <2>1, RecordShapes DEF Selection
    <2> QED BY <2>1, <2>2 DEF JInv, IInv, Sound, Types, Selection, Health, Known
  <1>4. /\ req[q].version <= health[c].version
        /\ req[q].behind => req[q].version < health[c].version
    BY <1>2 DEF JInv, Ordered
  <1>5. \/ health'[c].version = health[c].version
        \/ health'[c].version = health[c].version + 1
    <2>1. Fate(c)
      BY <1>1, <1>3, EveryFate DEF Kept, Next
    <2> QED BY <2>1, ClearsMoves DEF Fate, Steady, JInv
  <1>6. CASE req'[q].behind = req[q].behind
    BY <1>2, <1>3, <1>4, <1>5, <1>6
  <1>7. ASSUME NEW n \in Health, Fail(r, n), Harmed(n, Struck(r)),
               Holds(q, req[r].cand)
        PROVE  health'[c].version = health[c].version + 1
    <2>1. c = req[r].cand /\ Accepted(r)
      BY <1>2, <1>7 DEF Holds, Fail
    <2>2. health'[c] = [n EXCEPT !.version = @ + 1]
      BY <1>7, <2>1 DEF Fail, JInv, IInv, Sound, Types
    <2>3. n.version = health[c].version
      BY <1>7, <2>1, StruckSteady DEF Harmed, Steady, JInv
    <2> QED BY <2>2, <2>3 DEF Health
  <1> QED BY <1>1, <1>2, <1>3, <1>4, <1>6, <1>7 DEF Carried

LEMMA VerdictBounded ==
    ASSUME JInv, NEW r \in Request, Verdict(r)
    PROVE  Bounded(health', now')
  <1> SUFFICES ASSUME NEW c \in Candidate, NEW m \in Model,
                      health'[c] # NoHealth
               PROVE  health'[c].modelCooldown[m] <= now' + MODEL_DISABLE
    BY DEF Bounded
  <1>1. now' = now /\ now \in Nat /\ now + MODEL_DISABLE \in Nat
    BY VerdictKeeps, DurationAssumption DEF JInv, IInv
  <1>2. Fate(c) /\ health[c] \in Health
    BY VerdictFate
  <1>3. /\ health[c].modelCooldown[m] \in Nat
        /\ health[c].modelCooldown[m] <= now + MODEL_DISABLE
    BY <1>2, RecordShapes DEF JInv, Bounded, Health
  <1>4. \/ health'[c].modelCooldown[m] = health[c].modelCooldown[m]
        \/ health'[c].modelCooldown[m] = now + MODEL_DISABLE
        \/ health'[c].modelCooldown[m] = 0
    BY <1>2, ClearsMoves DEF Fate, Steady, JInv
  <1> QED BY <1>1, <1>3, <1>4

LEMMA ReconciledOrdered ==
    ASSUME JInv
    PROVE  /\ Ordered(ReconciledHealth, req)
           /\ Bounded(ReconciledHealth, now)
  <1>1. Ordered(ReconciledHealth, req)
    BY HolderIsKept DEF JInv, Ordered
  <1>2. ASSUME NEW c \in Candidate, NEW m \in Model,
               ReconciledHealth[c] # NoHealth
        PROVE  ReconciledHealth[c].modelCooldown[m] <= now + MODEL_DISABLE
    <2>1. \/ Known(c) /\ ReconciledHealth[c] = health[c]
          \/ ReconciledHealth[c] = FreshHealth(ReconciledGeneration)
      BY <1>2, ReconciledCases DEF JInv
    <2>2. FreshHealth(ReconciledGeneration).modelCooldown[m] = 0
      BY DEF FreshHealth
    <2>3. now \in Nat /\ 0 <= now + MODEL_DISABLE
      BY DurationAssumption DEF JInv, IInv
    <2> QED BY <2>1, <2>2, <2>3 DEF JInv, Bounded, Known
  <1> QED BY <1>1, <1>2 DEF Bounded

LEMMA RouteOrdered ==
    ASSUME JInv, NEW r \in Request, NEW ctx, NEW model, NEW expired,
           Route(r, ctx, model, expired)
    PROVE  Ordered(health', req') /\ Bounded(health', now')
  <1> DEFINE h == ReconciledHealth
  <1>1. PICK c \in Candidate :
           /\ health' = Reserved(h, c)
           /\ h \in [Candidate -> Health \cup {NoHealth}]
           /\ h[c] \in Health
           /\ req[r] = Idle
           /\ req' = [req EXCEPT ![r] = Selected(c, h, ctx, model)]
    BY RouteChoice DEF JInv
  <1>2. now' = now
    BY DEF Route
  <1>3. req \in [Request -> Selection \cup {Idle}]
    BY DEF JInv, IInv, Sound, Types
  <1>4. /\ Selected(c, h, ctx, model).cand = c
        /\ Selected(c, h, ctx, model).version = h[c].version
        /\ Selected(c, h, ctx, model).behind = FALSE
    BY DEF Selected
  <1>5. Ordered(h, req) /\ Bounded(h, now)
    BY ReconciledOrdered
  <1> HIDE DEF h
  <1>6. ASSUME NEW d \in Candidate, h[d] \in Health
        PROVE  /\ health'[d].version = h[d].version
               /\ health'[d].modelCooldown = h[d].modelCooldown
    BY <1>1, <1>6, ReservedSteady DEF Steady
  <1>7. \A d \in Candidate : /\ health'[d].born = h[d].born
                             /\ health'[d] = NoHealth <=> h[d] = NoHealth
    BY <1>1, ReservedSteady
  <1>8. Ordered(health', req')
    <2> SUFFICES ASSUME NEW d \in Candidate, NEW q \in Request,
                        req'[q] # Idle, req'[q].cand = d,
                        req'[q].born = health'[d].born
                 PROVE  /\ req'[q].version <= health'[d].version
                        /\ req'[q].behind =>
                              req'[q].version < health'[d].version
      BY DEF Ordered
    <2>1. CASE q = r
      <3>1. d = c /\ req'[q].version = h[c].version /\ req'[q].behind = FALSE
        BY <1>1, <1>3, <1>4, <2>1
      <3>2. health'[d].version = h[c].version /\ h[c].version \in Nat
        BY <1>1, <1>6, <3>1 DEF Health
      <3> QED BY <3>1, <3>2
    <2>2. CASE q # r
      <3>1. req'[q] = req[q] /\ req[q] \in Selection
        BY <1>1, <1>3, <2>2
      <3>2. req[q].born = h[d].born /\ h[d] # NoHealth
        BY <1>7, <3>1, RecordShapes DEF Selection
      <3>3. health'[d].version = h[d].version
        BY <1>1, <1>6, <3>2
      <3> QED BY <1>5, <3>1, <3>2, <3>3 DEF Ordered
    <2> QED BY <2>1, <2>2
  <1>9. Bounded(health', now')
    BY <1>1, <1>2, <1>5, <1>6, <1>7 DEF Bounded
  <1> QED BY <1>8, <1>9

LEMMA InitJInv == Init => JInv
  BY InitIInv DEF Init, JInv, Ordered, Bounded

LEMMA NextJInv == JInv /\ [Next]_vars => JInv'
  <1> SUFFICES ASSUME JInv, [Next]_vars
               PROVE  Ordered(health', req') /\ Bounded(health', now')
    BY NextIInv DEF JInv
  <1>1. CASE health' = health /\ req' = req /\ (now' = now \/ now' = now + 1)
    <2>1. now \in Nat /\ MODEL_DISABLE \in Nat
      BY DurationAssumption DEF JInv, IInv
    <2>2. ASSUME NEW c \in Candidate, NEW m \in Model, health[c] # NoHealth
          PROVE  health[c].modelCooldown[m] <= now' + MODEL_DISABLE
      <3>1. /\ health[c].modelCooldown[m] \in Nat
            /\ health[c].modelCooldown[m] <= now + MODEL_DISABLE
        BY <2>2 DEF JInv, IInv, Sound, Types, Bounded, Health
      <3> QED BY <1>1, <2>1, <3>1
    <2> QED BY <1>1, <2>2 DEF JInv, Ordered, Bounded
  <1>2. ASSUME NEW p \in Profile, ApplyProfile(p)
        PROVE  Ordered(health', req') /\ Bounded(health', now')
    <2>1. health' = health /\ now' = now
      BY <1>2 DEF ApplyProfile
    <2>2. ASSUME NEW x \in Request, req'[x] # Idle
          PROVE  /\ req[x] # Idle
                 /\ req'[x].cand = req[x].cand
                 /\ req'[x].born = req[x].born
                 /\ req'[x].version = req[x].version
                 /\ req'[x].behind = req[x].behind
      <3>1. req[x] # Idle
        BY <1>2, <2>2 DEF ApplyProfile, InFlight
      <3>2. req'[x] = [req[x] EXCEPT !.early = TRUE] /\ req[x] \in Selection
        BY <1>2, <3>1 DEF ApplyProfile, InFlight, JInv, IInv, Sound, Types
      <3> QED BY <3>1, <3>2 DEF Selection
    <2> QED BY <2>1, <2>2 DEF JInv, Ordered
  <1>3. ASSUME NEW expired, Observe(expired)
        PROVE  Ordered(health', req') /\ Bounded(health', now')
    BY <1>3, ReconciledOrdered DEF Observe
  <1>4. ASSUME NEW r \in Request, NEW ctx, NEW model, NEW expired,
               Route(r, ctx, model, expired)
        PROVE  Ordered(health', req') /\ Bounded(health', now')
    BY <1>4, RouteOrdered
  <1>5. ASSUME NEW r \in Request, NEW ctx, NEW model,
               RouteUnscheduled(r, ctx, model)
        PROVE  Ordered(health', req') /\ Bounded(health', now')
    <2>1. /\ health' = health /\ now' = now
          /\ req' = [req EXCEPT ![r] = Unrouted(ctx, model)]
          /\ req \in [Request -> Selection \cup {Idle}]
          /\ Unrouted(ctx, model).cand = NoCandidate
      BY <1>5 DEF RouteUnscheduled, Unrouted, JInv, IInv, Sound, Types
    <2> QED BY <2>1, SentinelAssumption DEF JInv, Ordered
  <1>6. ASSUME NEW r \in Request, Verdict(r)
        PROVE  Ordered(health', req') /\ Bounded(health', now')
    BY <1>6, VerdictOrdered, VerdictBounded
  <1> QED
    BY <1>1, <1>2, <1>3, <1>4, <1>5, <1>6 DEF Next, EditConfig, Tick, vars

-----------------------------------------------------------------------------
\* A block is lifted before its time only on evidence that is newer than the
\* last failure, whatever order the verdicts of a key come in.
THEOREM BlocksHold == Spec => BlockLiftedOnlyByLaterSuccess
  <1> DEFINE Held ==
        \A c \in Candidate :
          Kept(c) =>
             /\ Lowered(c) => \E r \in Request : EndsAfterFailures(r, c)
             /\ \A m \in Model : LoweredModel(c, m) =>
                   \E r \in Request :
                       EndsAfterFailures(r, c) /\ req[r].model = m
  <1>1. JInv /\ [Next]_vars => [Held]_vars
    <2> SUFFICES ASSUME JInv, [Next]_vars, NEW c \in Candidate, Kept(c)
                 PROVE  /\ Lowered(c) =>
                              \E r \in Request : EndsAfterFailures(r, c)
                        /\ \A m \in Model : LoweredModel(c, m) =>
                              \E r \in Request :
                                 EndsAfterFailures(r, c) /\ req[r].model = m
      OBVIOUS
    <2>1. Fate(c)
      BY EveryFate
    <2>2. health[c] \in Health
      BY DEF JInv, IInv, Sound, Types, Kept, Known
    <2>3. CASE Steady(health'[c], health[c])
      BY <2>2, <2>3 DEF Steady, Lowered, LoweredModel, Health
    <2>4. CASE Raised(health'[c], health[c])
      <3>1. health'[c] \in Health
        <4>1. IInv'
          BY NextIInv DEF JInv
        <4>2. health'[c] \in Health \cup {NoHealth}
          BY <4>1 DEF IInv, Sound, Types
        <4>3. health'[c].born \in Nat
          BY <2>2 DEF Kept, Health
        <4> QED BY <4>2, <4>3, RecordShapes
      <3> QED BY <2>2, <2>4, <3>1 DEF Raised, Lowered, LoweredModel, Health
    <2>5. ASSUME NEW r \in Request, Clears(r, c)
          PROVE  /\ EndsAfterFailures(r, c)
                 /\ \A m \in Model : LoweredModel(c, m) => req[r].model = m
      <3>1. /\ Accepted(r) /\ req[r].cand = c /\ Holds(r, c) /\ InFlight(r)
            /\ req'[r] = Idle /\ req[r].version = health[c].version
            /\ req[r] \in Selection
        BY <2>5, AcceptedHolds DEF Clears, Stale, JInv, InFlight
      <3>2. ~req[r].behind
        BY <2>2, <3>1 DEF JInv, Ordered, Holds, InFlight, Health
      <3>3. \A m \in Model : LoweredModel(c, m) => req[r].model = m
        BY <2>2, <2>5, ClearsMoves DEF LoweredModel, Health, JInv
      <3> QED BY <3>1, <3>2, <3>3 DEF EndsAfterFailures
    <2> QED BY <2>1, <2>3, <2>4, <2>5 DEF Fate
  <1> QED
    BY InitJInv, NextJInv, <1>1, PTL DEF Spec, BlockLiftedOnlyByLaterSuccess

-----------------------------------------------------------------------------
(* Whom a request may be sent to.                                          *)

\* A record with no deadline ahead that counts for a model.
Unblocked(n, model) ==
    /\ n.cooldownUntil <= now /\ n.quarantineUntil <= now /\ n.rateLimitUntil <= now
    /\ \A m \in Model : m = model => n.modelCooldown[m] <= now

\* A key is usable when none of its deadlines is ahead.
LEMMA UsableUnblocked ==
    ASSUME now \in Nat, NEW h, NEW c, h[c] \in Health, NEW model
    PROVE  Usable(h, c, model) <=> Unblocked(h[c], model)
  <1> DEFINE n == h[c]
             T == {t \in {n.modelCooldown[m] : m \in Model \cap {model}} : t > now}
             S == {n.cooldownUntil, n.quarantineUntil, n.rateLimitUntil} \cup T
  <1>1. /\ n.cooldownUntil \in Nat /\ n.quarantineUntil \in Nat /\ n.rateLimitUntil \in Nat
        /\ \A m \in Model : n.modelCooldown[m] \in Nat
    BY DEF Health
  <1>2. BlockedUntil(h, c, model) = Latest(S)
    BY DEF BlockedUntil
  <1> HIDE DEF n
  <1>3. T = {} \/ \E t \in Nat : T = {t}
    BY <1>1
  <1>4. \A t \in T : t \in Nat /\ t > now
    BY <1>1
  <1>5. T = {} <=> \A m \in Model : m = model => n.modelCooldown[m] <= now
    BY <1>1
  <1> HIDE DEF T
  <1>6. \E t \in S : \A u \in S : u <= t
    <2>1. CASE T = {}
      BY <1>1, <2>1
    <2>2. ASSUME NEW t \in Nat, T = {t} PROVE \E x \in S : \A u \in S : u <= x
      BY <1>1, <2>2
    <2> QED BY <1>3, <2>1, <2>2
  <1>7. S \subseteq Nat
    BY <1>1, <1>4
  <1>8. Latest(S) \in S /\ \A u \in S : u <= Latest(S)
    <2> HIDE DEF S
    <2> QED BY <1>6 DEF Latest
  <1>9. Latest(S) <= now <=> \A u \in S : u <= now
    <2> DEFINE L == Latest(S)
    <2>1. L \in S /\ L \in Nat /\ \A u \in S : u <= L /\ u \in Nat
      BY <1>7, <1>8
    <2> HIDE DEF L, S
    <2>2. ASSUME L <= now, NEW u \in S PROVE u <= now
      <3>1. u <= L /\ u \in Nat /\ L \in Nat
        BY <2>1
      <3> QED BY <2>2, <3>1
    <2>3. ASSUME \A u \in S : u <= now PROVE L <= now
      BY <2>1, <2>3
    <2> QED BY <2>2, <2>3 DEF L
  <1>10. (\A u \in S : u <= now) <=>
            /\ n.cooldownUntil <= now /\ n.quarantineUntil <= now /\ n.rateLimitUntil <= now
            /\ T = {}
    BY <1>1, <1>4
  <1> QED BY <1>2, <1>5, <1>9, <1>10 DEF Usable, Unblocked, n

\* Unless the operator applied a profile or turned rotation off for it, a choice
\* is pinned, free, or made because no key is free.
LEMMA ChoiceKinds ==
    ASSUME NEW h, NEW p, NEW ctx, NEW model, NEW c \in Choices(h, p, ctx, model),
           config.auto, ProfileOf[c] # forced
    PROVE  \/ Active(c) /\ \E d \in Offered : Active(d) /\ RotationOptOut(d)
           \/ /\ \A d \in Offered : ~(Active(d) /\ RotationOptOut(d))
              /\ \/ \E kind \in Kind : c \in PinnedBy(h, p, ctx, model, kind)
                 \/ c \in Free(h, model)
                 \/ Free(h, model) = {} /\ c \in RotationPool
  <1> DEFINE forcedKeys == {d \in Offered : ProfileOf[d] = forced}
             activeKeys == {d \in Offered : Active(d)}
             pinnedKeys == Pinned(h, p, ctx, model)
             freeKeys == Free(h, model)
  <1>1. \A S : Foremost(S) \subseteq S
    BY DEF Foremost
  <1>2. c \in IF forcedKeys # {} THEN Foremost(forcedKeys)
              ELSE IF Fixed
              THEN Foremost(IF activeKeys # {} THEN activeKeys ELSE Offered)
              ELSE IF pinnedKeys # {} THEN pinnedKeys
              ELSE IF freeKeys # {} THEN Contenders(h, TopTier(freeKeys))
              ELSE SoonestToUnblock(h, model)
    BY DEF Choices
  <1>3. c \notin forcedKeys
    OBVIOUS
  <1>4. Fixed <=> \E d \in Offered : Active(d) /\ RotationOptOut(d)
    BY DEF Fixed
  <1>5. pinnedKeys \subseteq UNION {PinnedBy(h, p, ctx, model, kind) : kind \in Kind}
    BY DEF Pinned, Kind
  <1>6. \A S : Contenders(h, TopTier(S)) \subseteq S
    BY DEF Contenders, TopTier
  <1>7. SoonestToUnblock(h, model) \subseteq RotationPool
    BY DEF SoonestToUnblock
  <1>8. CASE Fixed
    <2>1. activeKeys # {}
      BY <1>4, <1>8
    <2>2. c \in activeKeys
      <3> HIDE DEF activeKeys, forcedKeys
      <3> QED BY <1>1, <1>2, <1>3, <1>8, <2>1
    <2> QED BY <1>4, <1>8, <2>2
  <1>9. CASE ~Fixed
    <2> HIDE DEF activeKeys, forcedKeys, pinnedKeys, freeKeys
    <2>1. \/ c \in pinnedKeys \/ c \in freeKeys \/ (freeKeys = {} /\ c \in RotationPool)
      BY <1>1, <1>2, <1>3, <1>6, <1>7, <1>9
    <2> QED BY <1>4, <1>5, <1>9, <2>1 DEF freeKeys
  <1> QED BY <1>8, <1>9

\* A step that gives a request a key routes it.
LEMMA OnlyRouteSchedules ==
    ASSUME IInv, Next, NEW r \in Request, NEW c \in Offered, Scheduled(r, c)
    PROVE  \E ctx \in Context, model \in Model \cup {NoModel}, expired \in SUBSET LivePins :
              /\ c \in Choices(ReconciledHealth, SurvivingPins(expired), ctx, model)
              /\ health' = Reserved(ReconciledHealth, c)
              /\ req'[r].context = ctx /\ req'[r].model = model
              /\ ReconciledHealth \in [Candidate -> Health \cup {NoHealth}]
              /\ \A d \in Offered : ReconciledHealth[d] \in Health
  <1>0. /\ req[r] = Idle /\ req'[r] # Idle /\ req'[r].cand = c
        /\ c \in Candidate /\ c # NoCandidate /\ req \in [Request -> Selection \cup {Idle}]
        /\ Offered \subseteq Candidate
    BY SentinelAssumption DEF Scheduled, InFlight, Offered, IInv, Sound, Types
  <1>1. req' # req
    BY <1>0
  <1>2. ASSUME NEW q \in Request, Verdict(q) PROVE FALSE
    <2>1. req[q] # Idle
      BY <1>2 DEF Verdict, Return, Succeed, RefuseAccount, RefuseRate, FailTransiently,
                  RefuseModel, Fail, Accepted, InFlight
    <2>2. q # r
      BY <1>0, <2>1
    <2>3. CASE req' = [req EXCEPT ![q] = Idle]
      BY <1>0, <2>2, <2>3
    <2>4. CASE req' = [x \in Request |->
                  IF x = q THEN Idle
                  ELSE IF x \in LeftBehind(q) THEN [req[x] EXCEPT !.behind = TRUE]
                  ELSE req[x]]
      BY <1>0, <2>2, <2>4 DEF LeftBehind, Holds, InFlight
    <2> QED BY <1>2, <2>3, <2>4 DEF Verdict, Return, Succeed, RefuseAccount, RefuseRate,
                                    FailTransiently, RefuseModel, Fail
  <1>3. ASSUME NEW p \in Profile, ApplyProfile(p) PROVE FALSE
    BY <1>0, <1>3 DEF ApplyProfile, InFlight
  <1>4. CASE EditConfig \/ Tick \/ \E expired \in SUBSET LivePins : Observe(expired)
    BY <1>1, <1>4 DEF EditConfig, Tick, Observe
  <1>5. ASSUME NEW q \in Request, NEW ctx \in Context, NEW model \in Model \cup {NoModel},
               RouteUnscheduled(q, ctx, model)
        PROVE  FALSE
    <2>1. req' = [req EXCEPT ![q] = Unrouted(ctx, model)]
      BY <1>5 DEF RouteUnscheduled
    <2>2. Unrouted(ctx, model).cand = NoCandidate
      BY DEF Unrouted
    <2> QED BY <1>0, <2>1, <2>2
  <1>6. ASSUME NEW q \in Request, NEW ctx \in Context, NEW model \in Model \cup {NoModel},
               NEW expired \in SUBSET LivePins, Route(q, ctx, model, expired)
        PROVE  /\ c \in Choices(ReconciledHealth, SurvivingPins(expired), ctx, model)
               /\ health' = Reserved(ReconciledHealth, c)
               /\ req'[r].context = ctx /\ req'[r].model = model
    <2>1. PICK d \in Choices(ReconciledHealth, SurvivingPins(expired), ctx, model) :
             /\ health' = Reserved(ReconciledHealth, d)
             /\ req' = [req EXCEPT ![q] = Selected(d, ReconciledHealth, ctx, model)]
      BY <1>6 DEF Route
    <2> DEFINE sel == Selected(d, ReconciledHealth, ctx, model)
    <2>2. sel.cand = d /\ sel.context = ctx /\ sel.model = model
      BY DEF Selected
    <2> HIDE DEF sel
    <2>3. q = r /\ req'[r] = sel
      BY <1>0, <2>1 DEF sel
    <2> QED BY <1>0, <2>1, <2>2, <2>3
  <1>7. ReconciledHealth \in [Candidate -> Health \cup {NoHealth}]
    BY ReconciledTyped DEF Types
  <1>8. ASSUME NEW d \in Offered PROVE ReconciledHealth[d] \in Health
    <2>1. d \in Candidate /\ Seen[d] # Absent
      BY OfferedSigned, SentinelAssumption DEF Seen, IInv
    <2> QED BY <1>7, <2>1, ReconciledTracked DEF Tracked
  <1>9. PICK ctx \in Context, model \in Model \cup {NoModel}, expired \in SUBSET LivePins :
          /\ c \in Choices(ReconciledHealth, SurvivingPins(expired), ctx, model)
          /\ health' = Reserved(ReconciledHealth, c)
          /\ req'[r].context = ctx /\ req'[r].model = model
    BY <1>2, <1>3, <1>4, <1>1, <1>5, <1>6 DEF Next
  <1> QED BY <1>7, <1>8, <1>9

\* A key in a block gets no request as long as another takes new sessions,
\* whatever rule of the scheduler decides (selectRuntime).
THEOREM BlockedAreSpared == Spec => BlockedKeysGetNoTraffic
  <1> DEFINE Spares ==
        \A r \in Request, c \in Offered :
          ( /\ Scheduled(r, c)
            /\ \A d \in Offered : ~(Active(d) /\ RotationOptOut(d))
            /\ \E d \in Offered : /\ ~RotationOptOut(d)
                                  /\ ~Blocked(d, req'[r].model)
                                  /\ health'[d].stickyOnlyUntil <= now )
          => ~Blocked(c, req'[r].model)
  <1>1. IInv /\ Next => Spares
    <2> SUFFICES ASSUME IInv, Next, NEW r \in Request, NEW c \in Offered, Scheduled(r, c),
                        \A d \in Offered : ~(Active(d) /\ RotationOptOut(d)),
                        NEW d \in Offered, ~RotationOptOut(d), ~Blocked(d, req'[r].model),
                        health'[d].stickyOnlyUntil <= now
                 PROVE  ~Blocked(c, req'[r].model)
      OBVIOUS
    <2> DEFINE h == ReconciledHealth
               model == req'[r].model
    <2>1. PICK ctx, expired :
             /\ c \in Choices(h, SurvivingPins(expired), ctx, model)
             /\ health' = Reserved(h, c)
             /\ h \in [Candidate -> Health \cup {NoHealth}]
             /\ \A x \in Offered : h[x] \in Health
      BY OnlyRouteSchedules
    <2>2. now \in Nat /\ c \in Candidate /\ d \in Candidate
      BY DEF IInv, Offered
    <2> HIDE DEF h, model
    <2>3. \A x \in Offered : ~Blocked(x, model) <=> Unblocked(h[x], model)
      <3> SUFFICES ASSUME NEW x \in Offered
                   PROVE  ~Blocked(x, model) <=> Unblocked(h[x], model)
        OBVIOUS
      <3>1. x \in Candidate /\ h[x] \in Health /\ h[c] \in Health
        BY <2>1 DEF Offered
      <3>2. Steady(health'[x], h[x])
        BY <2>1, <2>2, <3>1, ReservedSteady
      <3>3. h[x].cooldownUntil \in Nat /\ h[x].quarantineUntil \in Nat /\ h[x].rateLimitUntil \in Nat
            /\ \A m \in Model : h[x].modelCooldown[m] \in Nat
        BY <3>1 DEF Health
      <3> QED BY <2>2, <3>2, <3>3 DEF Blocked, Unblocked, Steady
    <2>4. \A x \in Offered : Usable(h, x, model) <=> Unblocked(h[x], model)
      BY <2>1, <2>2, UsableUnblocked
    <2>5. d \in Free(h, model)
      <3>1. h[c] \in Health /\ h[d] \in Health
        BY <2>1
      <3>2. Steady(health'[d], h[d])
        BY <2>1, <2>2, <3>1, ReservedSteady
      <3>3. ~StickyOnly(h, d)
        BY <2>2, <3>1, <3>2 DEF StickyOnly, Steady, Health
      <3>4. d \in RotationPool
        BY DEF RotationPool
      <3>5. Usable(h, d, model)
        BY <2>3, <2>4 DEF model
      <3> QED BY <3>3, <3>4, <3>5 DEF Free
    <2>6. \/ \E kind \in Kind : c \in PinnedBy(h, SurvivingPins(expired), ctx, model, kind)
          \/ c \in Free(h, model)
      BY <2>1, <2>5, ChoiceKinds DEF Scheduled
    <2>7. Usable(h, c, model)
      BY <2>6 DEF PinnedBy, Free
    <2> QED BY <2>3, <2>4, <2>7 DEF model
  <1>2. IInv /\ [Next]_vars => [Spares]_vars
    BY <1>1
  <1> HIDE DEF Spares
  <1>3. [][Spares]_vars => BlockedKeysGetNoTraffic
    BY PTL DEF Spares, BlockedKeysGetNoTraffic
  <1> QED BY Invariance, <1>2, <1>3, PTL DEF Spec

\* Nothing but the operator or an older pin sends a request to a key that opts
\* out of rotation while another key takes part in it.
THEOREM OptedOutAreLeftAlone == Spec => OptedOutKeysNeedOperator
  <1> DEFINE Leaves ==
        \A r \in Request, c \in Offered :
          ( /\ Scheduled(r, c) /\ RotationOptOut(c)
            /\ \E d \in Offered : ~RotationOptOut(d) )
          => \/ Active(c)
             \/ \E k \in Kind, x \in Key :
                   req'[r].context[k] = x /\ pins[k][x].cand = c
  <1>1. IInv /\ Next => Leaves
    <2> SUFFICES ASSUME IInv, Next, NEW r \in Request, NEW c \in Offered, Scheduled(r, c),
                        RotationOptOut(c), NEW d \in Offered, ~RotationOptOut(d), ~Active(c)
                 PROVE  \E k \in Kind, x \in Key :
                           req'[r].context[k] = x /\ pins[k][x].cand = c
      OBVIOUS
    <2> DEFINE h == ReconciledHealth
               model == req'[r].model
    <2>1. PICK ctx \in Context, expired \in SUBSET LivePins :
             /\ c \in Choices(h, SurvivingPins(expired), ctx, model)
             /\ req'[r].context = ctx
      BY OnlyRouteSchedules
    <2> HIDE DEF h, model
    <2>2. c \notin RotationPool
      BY DEF RotationPool
    <2>3. PICK k \in Kind : c \in PinnedBy(h, SurvivingPins(expired), ctx, model, k)
      BY <2>1, <2>2, ChoiceKinds DEF Scheduled, Free
    <2>4. /\ ctx[k] # NoKey /\ SurvivingPins(expired)[k][ctx[k]].cand = c
          /\ c \in Candidate /\ c # NoCandidate
      BY <2>3, SentinelAssumption DEF PinnedBy, Offered
    <2>5. ctx[k] \in Key
      BY <2>4, ContextAssumption
    <2>6. pins[k][ctx[k]].cand = c
      BY <2>4, <2>5 DEF SurvivingPins, NoPin
    <2> QED BY <2>1, <2>5, <2>6
  <1>2. IInv /\ [Next]_vars => [Leaves]_vars
    BY <1>1
  <1> HIDE DEF Leaves
  <1>3. [][Leaves]_vars => OptedOutKeysNeedOperator
    BY PTL DEF Leaves, OptedOutKeysNeedOperator
  <1> QED BY Invariance, <1>2, <1>3, PTL DEF Spec

=============================================================================
