-------------------------- MODULE PreprocessProofs --------------------------
(***************************************************************************)
(* The front-end simulator: the inductive invariants behind                *)
(* NothingLeftBehind, FoldsExact and CallsAndLengths, for every program,   *)
(* every size of the predictors and every depth of the wrong path.         *)
(***************************************************************************)
EXTENDS Preprocess, OrderLemmas

----------------------------------------------------------------------------
(* Loops.  The four of them, over the rows of a block, over its branches   *)
(* on either path and over the blocks of the wrong path, are rounds of     *)
(* recursive functions.                                                    *)

\* A round of the loop that l describes.
Advance(l, k, x) ==
  IF l.over = "blocks" THEN wrongpath_block(l.c, x, l.lucky)
  ELSE IF l.over = "taught" THEN Taught(x, l.o, k, l.lucky)
  ELSE IF l.over = "read" THEN IF l.mine[k].type = "none" THEN x ELSE Append(x, l.mine[k])
  ELSE IF l.over = "open" THEN Through(l.p, x, l.pcs[k])
  ELSE ResolvedAt(x, l.b, k, l.act, l.lucky)

Loop(f, n, l, b) == f = [k \in 0..n |-> IF k = 0 THEN b ELSE Advance(l, k, f[k-1])]

\* Every loop can be counted through: the function of its rounds exists.
LEMMA LoopExists == ASSUME NEW l, NEW b PROVE \A n \in Nat : \E f : Loop(f, n, l, b)
<1> DEFINE S == {n \in Nat : \A f : ~Loop(f, n, l, b)}
<1> SUFFICES ASSUME S # {} PROVE FALSE
  OBVIOUS
<1>1. PICK m \in S : \A n \in S : m <= n
  <2>1. S \in SUBSET Nat
    OBVIOUS
  <2> QED BY <2>1, LeastNat
<1>2. CASE m = 0
  <2> DEFINE f == [k \in 0..0 |-> b]
  <2>1. Loop(f, 0, l, b)
    BY DEF Loop
  <2> QED BY <1>2, <2>1
<1>3. CASE m # 0
  <2>1. m - 1 \in Nat /\ m - 1 \notin S
    BY <1>1, <1>3
  <2>2. PICK g : Loop(g, m - 1, l, b)
    BY <2>1
  <2> DEFINE f == [k \in 0..m |-> IF k = m THEN Advance(l, m, g[m-1]) ELSE g[k]]
  <2>3. /\ DOMAIN g = 0..m-1
        /\ \A k \in 0..m-1 : g[k] = IF k = 0 THEN b ELSE Advance(l, k, g[k-1])
    BY <2>2 DEF Loop
  <2>4. ASSUME NEW k \in 0..m PROVE f[k] = IF k = 0 THEN b ELSE Advance(l, k, f[k-1])
    <3>1. CASE k = m
      <4>1. f[k-1] = g[m-1] /\ f[k] = Advance(l, m, g[m-1])
        BY <1>3, <3>1
      <4> QED BY <4>1, <3>1, <1>3
    <3>2. CASE k # m /\ k # 0
      <4>1. k \in 0..m-1 /\ k - 1 \in 0..m /\ k - 1 # m
        BY <3>2
      <4>2. f[k] = g[k] /\ f[k-1] = g[k-1]
        BY <4>1, <3>2
      <4> QED BY <4>1, <4>2, <2>3, <3>2
    <3>3. CASE k = 0
      <4>1. f[k] = g[0] /\ 0 \in 0..m-1
        BY <3>3, <1>3
      <4> QED BY <4>1, <2>3, <3>3
    <3> QED BY <3>1, <3>2, <3>3
  <2>5. f = [k \in 0..m |-> IF k = 0 THEN b ELSE Advance(l, k, f[k-1])]
    <3>1. DOMAIN f = 0..m /\ f = [k \in 0..m |-> f[k]]
      OBVIOUS
    <3> HIDE DEF f
    <3> QED BY <3>1, <2>4
  <2>6. Loop(f, m, l, b)
    <3> HIDE DEF f
    <3> QED BY <2>5 DEF Loop
  <2> QED BY <2>6
<1> QED BY <1>2, <1>3
----------------------------------------------------------------------------
(* The direction predictor.                                                *)

SimFields  == {"ubtb", "btb", "ras", "tage", "smap", "ilen"}
TageFields == {"hist", "fold", "bim", "tab", "use_alt", "tick"}

TageOK(t) == t = [f \in TageFields |-> t[f]]
SimOK(s)  == s = [f \in SimFields |-> s[f]] /\ TageOK(s.tage)

\* What a speculation moves, and what training does.
SameHistory(t, u)  == TageOK(u) /\ u.hist = t.hist /\ u.fold = t.fold
SameCounters(t, u) == TageOK(u) /\ \A f \in TageFields \ {"hist", "fold"} : u[f] = t[f]

LEMMA TrainedHistory ==
  ASSUME NEW t, TageOK(t), NEW i, NEW pc, NEW taken
  PROVE  SameHistory(t, Trained(t, i, pc, taken))
<1>1. PICK v : Trained(t, i, pc, taken) = [t EXCEPT !.bim = v] \/ Trained(t, i, pc, taken) = [t EXCEPT !.tab = v]
  BY DEF Trained
<1> QED BY <1>1 DEF SameHistory, TageOK, TageFields
LEMMA CreditedHistory ==
  ASSUME NEW t, TageOK(t), NEW pc, NEW taken, NEW p
  PROVE  SameHistory(t, Credited(t, pc, taken, p))
<1>1. PICK w : w = Weighed(t, pc, taken, p, DirOf(t, p.provider, pc))
  OBVIOUS
<1>2. SameHistory(t, w)
  <2>1. PICK v, a : w = t \/ w = [t EXCEPT !.use_alt = a, !.tab = v]
    BY <1>1 DEF Weighed
  <2> QED BY <2>1 DEF SameHistory, TageOK, TageFields
<1>3. PICK x : x = Trained(w, p.provider, pc, taken)
  OBVIOUS
<1>4. SameHistory(t, x)
  BY <1>2, <1>3, TrainedHistory DEF SameHistory
<1>5. PICK also : also = Newly(Entry(t, p.provider, pc))
  OBVIOUS
<1>6. SameHistory(t, TrainedIf(also, x, p.altprov, pc, taken))
  BY <1>4, TrainedHistory DEF SameHistory, TrainedIf
<1>7. SameHistory(t, Trained(t, 0, pc, taken))
  BY TrainedHistory
<1>8. Credited(t, pc, taken, p) \in {Trained(t, 0, pc, taken), TrainedIf(also, x, p.altprov, pc, taken)}
  BY <1>1, <1>3, <1>5 DEF Credited
<1> QED BY <1>6, <1>7, <1>8

LEMMA AllocatedHistory ==
  ASSUME NEW t, TageOK(t), NEW pc, NEW taken, NEW p, NEW lucky
  PROVE  SameHistory(t, Allocated(t, pc, taken, p, lucky))
<1>1. PICK v : Allocated(t, pc, taken, p, lucky) = t \/ Allocated(t, pc, taken, p, lucky) = [t EXCEPT !.tab = v]
  BY DEF Allocated, TakenIn
<1> QED BY <1>1 DEF SameHistory, TageOK, TageFields

LEMMA AgedHistory ==
  ASSUME NEW t, TageOK(t)
  PROVE  SameHistory(t, Aged(t))
<1>1. PICK n, v : Aged(t) = [t EXCEPT !.tick = n] \/ Aged(t) = [t EXCEPT !.tick = n, !.tab = v]
  BY DEF Aged
<1> QED BY <1>1 DEF SameHistory, TageOK, TageFields

\* Training counts and takes branches in; it never moves the history.
LEMMA UpdateKeepsHistory ==
  ASSUME NEW t, TageOK(t), NEW pc, NEW taken, NEW lucky
  PROVE  SameHistory(t, tage_update(t, pc, taken, lucky))
<1>1. PICK p, u, v : /\ p = tage_predict(t, pc) /\ u = Credited(t, pc, taken, p)
                     /\ v = Allocated(u, pc, taken, p, lucky)
  OBVIOUS
<1>2. SameHistory(t, u)
  BY <1>1, CreditedHistory
<1>3. SameHistory(t, v)
  BY <1>1, <1>2, AllocatedHistory DEF SameHistory
<1>4. SameHistory(t, Aged(v))
  BY <1>3, AgedHistory DEF SameHistory
<1> QED BY <1>1, <1>4 DEF tage_update, Learning

\* A push moves nothing else.
LEMMA PushKeepsCounters ==
  ASSUME NEW t, TageOK(t), NEW dir
  PROVE  SameCounters(t, push_history(t, dir))
<1>1. PICK h, v : push_history(t, dir) = [t EXCEPT !.hist = h, !.fold = v]
  BY DEF push_history
<1> QED BY <1>1 DEF SameCounters, TageOK, TageFields
----------------------------------------------------------------------------
(* The wrong path.                                                         *)

\* What a wrong path may have made of simulator s.
Strayed(c, s, x) ==
  /\ SimOK(x) /\ x.ilen = s.ilen
  /\ ~c.wp_train_tage => SameCounters(s.tage, x.tage)

\* A prediction only touches the two buffers.
LEMMA PredictTouches ==
  ASSUME NEW s, SimOK(s), NEW pc, NEW n, n = predict(s, pc).s
  PROVE  SimOK(n) /\ n.tage = s.tage /\ n.ras = s.ras /\ n.ilen = s.ilen
<1>1. PICK u, v : n = [s EXCEPT !.ubtb = u, !.btb = v]
  BY DEF predict
<1> QED BY <1>1 DEF SimOK, SimFields

LEMMA AllocatingTouches ==
  ASSUME NEW s, SimOK(s), NEW pc, NEW o, NEW n, n = Allocating(s, pc, o)
  PROVE  SimOK(n) /\ n.tage = s.tage /\ n.ras = s.ras /\ n.ilen = s.ilen
<1>1. PICK u, v : n = [s EXCEPT !.ubtb = u, !.btb = v]
  BY DEF Allocating
<1> QED BY <1>1 DEF SimOK, SimFields

LEMMA FollowedStrays ==
  ASSUME NEW c, NEW s, NEW x, Strayed(c, s, x), NEW p, NEW n, n = Followed(x, p)
  PROVE  Strayed(c, s, n)
<1>1. PICK t, r : /\ n = [x EXCEPT !.tage = t, !.ras = r]
                  /\ t = IF p.taken /\ p.type = "cond" THEN push_history(x.tage, TRUE) ELSE x.tage
  BY DEF Followed, Strayed, SimOK, SimFields
<1>2. SameCounters(x.tage, t)
  <2>1. TageOK(x.tage)
    BY DEF Strayed, SimOK
  <2>2. CASE t = push_history(x.tage, TRUE)
    BY <2>1, <2>2, PushKeepsCounters
  <2>3. CASE t = x.tage
    BY <2>1, <2>3 DEF SameCounters
  <2> QED BY <1>1, <2>2, <2>3
<1>3. SimOK(n) /\ n.ilen = x.ilen /\ n.tage = t
  BY <1>1, <1>2 DEF Strayed, SimOK, SimFields, SameCounters
<1> QED BY <1>2, <1>3 DEF Strayed, SameCounters

\* Only the predictors may have changed.
SameLengths(s, x) == SimOK(x) /\ x.ilen = s.ilen

LEMMA TaughtStrays ==
  ASSUME NEW s, NEW x, SameLengths(s, x), NEW o, NEW i, NEW lucky, NEW n, n = Taught(x, o, i, lucky)
  PROVE  SameLengths(s, n)
<1>1. SimOK(x) /\ x.ilen = s.ilen
  BY DEF SameLengths
<1>2. PICK t : TageOK(t) /\ (n = x \/ n = [x EXCEPT !.tage = t])
  BY <1>1, UpdateKeepsHistory DEF Taught, SimOK, SimFields, SameHistory
<1> QED BY <1>1, <1>2 DEF SimOK, SimFields, SameLengths

\* The loop over the branches that train.
Teaching(o, lucky) == [over |-> "taught", o |-> o, lucky |-> lucky]

LEMMA TrainedRounds ==
  ASSUME NEW s, NEW o, NEW lucky
  PROVE  \E f : /\ f[0] = s /\ TrainedOn(s, o, lucky) = f[FE_MAX_SLOTS]
               /\ \A i \in 1..FE_MAX_SLOTS : f[i] = Taught(f[i-1], o, i, lucky)
<1> DEFINE P(f) == f = [i \in 0..FE_MAX_SLOTS |-> IF i = 0 THEN s ELSE Taught(f[i-1], o, i, lucky)]
<1>1. FE_MAX_SLOTS \in Nat
  BY PredictorsAssumption
<1>2. \A k, x : Advance(Teaching(o, lucky), k, x) = Taught(x, o, k, lucky)
  BY DEF Advance, Teaching
<1>3. \A f : Loop(f, FE_MAX_SLOTS, Teaching(o, lucky), s) <=> P(f)
  BY <1>2 DEF Loop
<1>4. P(CHOOSE f : P(f))
  BY <1>1, <1>3, LoopExists
<1>5. TrainedOn(s, o, lucky) = (CHOOSE f : P(f))[FE_MAX_SLOTS]
  BY DEF TrainedOn
<1>6. PICK f : P(f) /\ TrainedOn(s, o, lucky) = f[FE_MAX_SLOTS]
  BY <1>4, <1>5
<1>7. f[0] = s
  BY <1>1, <1>6
<1>8. ASSUME NEW i \in 1..FE_MAX_SLOTS PROVE f[i] = Taught(f[i-1], o, i, lucky)
  <2>1. i \in 0..FE_MAX_SLOTS /\ i # 0
    BY <1>1
  <2> QED BY <1>6, <2>1
<1> QED BY <1>6, <1>7, <1>8

LEMMA TrainedOnStrays ==
  ASSUME NEW s, SimOK(s), NEW o, NEW lucky, NEW n, n = TrainedOn(s, o, lucky)
  PROVE  SameLengths(s, n)
<1>1. PICK N \in Nat : N = FE_MAX_SLOTS
  BY PredictorsAssumption
<1>2. PICK f : /\ f[0] = s /\ n = f[N]
               /\ \A i \in 1..N : f[i] = Taught(f[i-1], o, i, lucky)
  BY <1>1, TrainedRounds
<1> DEFINE G == [j \in 0..N |-> SameLengths(s, f[j])]
<1>3. G[0]
  <2>1. SameLengths(s, f[0])
    BY <1>2 DEF SameLengths
  <2> QED BY <2>1
<1>4. ASSUME NEW j \in 1..N, G[j-1] PROVE G[j]
  <2>1. j - 1 \in 0..N /\ j \in 0..N
    OBVIOUS
  <2>2. SameLengths(s, f[j-1])
    BY <1>4, <2>1
  <2>3. SameLengths(s, f[j])
    BY <1>2, <2>2, TaughtStrays
  <2> QED BY <2>1, <2>3
<1>5. G \in [0..N -> BOOLEAN]
  BY DEF SameLengths
<1> HIDE DEF G
<1>6. G[N]
  <2>1. \A j \in 0..N : G[j]
    BY <1>3, <1>4, <1>5, RoundByRound
  <2> QED BY <2>1
<1> QED BY <1>2, <1>6 DEF G

LEMMA WrongBlockStrays ==
  ASSUME NEW c, NEW s, NEW w, Strayed(c, s, w.s), NEW lucky,
         NEW n, n = wrongpath_block(c, w, lucky).s
  PROVE  Strayed(c, s, n)
<1>1. PICK r, pc : r = predict(w.s, w.pc) /\ pc = w.pc
  OBVIOUS
<1>2. PICK known, o : known = (pc \in DOMAIN r.s.smap) /\ o = r.s.smap[pc]
  OBVIOUS
<1>3. PICK x : x = IF known /\ c.wp_train_tage THEN TrainedOn(r.s, o, lucky) ELSE r.s
  OBVIOUS
<1>4. PICK y : y = IF known /\ c.wp_train_btb THEN Allocating(x, pc, o) ELSE x
  OBVIOUS
<1>5. n = Followed(y, r.p)
  BY <1>1, <1>2, <1>3, <1>4 DEF wrongpath_block, WrongBlock
<1>6. Strayed(c, s, r.s)
  <2>1. SimOK(w.s)
    BY DEF Strayed
  <2>2. SimOK(r.s) /\ r.s.tage = w.s.tage /\ r.s.ilen = w.s.ilen
    BY <1>1, <2>1, PredictTouches
  <2> QED BY <2>2 DEF Strayed
<1>7. Strayed(c, s, x)
  <2>1. CASE x = r.s
    BY <1>6, <2>1
  <2>2. CASE x = TrainedOn(r.s, o, lucky) /\ c.wp_train_tage
    <3>1. SimOK(r.s) /\ r.s.ilen = s.ilen
      BY <1>6 DEF Strayed
    <3>2. SameLengths(r.s, x)
      BY <2>2, <3>1, TrainedOnStrays
    <3> QED BY <2>2, <3>1, <3>2 DEF SameLengths, Strayed
  <2> QED BY <1>3, <2>1, <2>2
<1>8. Strayed(c, s, y)
  <2>1. CASE y = x
    BY <1>7, <2>1
  <2>2. CASE y = Allocating(x, pc, o)
    <3>1. SimOK(x)
      BY <1>7 DEF Strayed
    <3>2. SimOK(y) /\ y.tage = x.tage /\ y.ilen = x.ilen
      BY <2>2, <3>1, AllocatingTouches
    <3> QED BY <1>7, <3>2 DEF Strayed
  <2> QED BY <1>4, <2>1, <2>2
<1> QED BY <1>5, <1>8, FollowedStrays

\* Two simulators that agree on all that a wrong path must give back.
Alike(c, s, z) ==
  /\ SimOK(s) /\ SimOK(z)
  /\ z.ras = s.ras /\ z.ilen = s.ilen
  /\ z.tage.hist = s.tage.hist /\ z.tage.fold = s.tage.fold
  /\ ~c.wp_train_tage => z.tage = s.tage

LEMMA UndoneIsAlike ==
  ASSUME NEW c, NEW s, SimOK(s), NEW x, Strayed(c, s, x), NEW n, n = Undone(x, s)
  PROVE  Alike(c, s, n)
<1>1. PICK t : t = restore(x.tage, s.tage) /\ n = [x EXCEPT !.tage = t, !.ras = s.ras]
  BY DEF Undone, Strayed, SimOK, SimFields
<1>2. TageOK(t) /\ t.hist = s.tage.hist /\ t.fold = s.tage.fold
  BY <1>1 DEF restore, Strayed, SimOK, TageOK, TageFields
<1>3. SimOK(n) /\ n.tage = t /\ n.ras = s.ras /\ n.ilen = x.ilen
  BY <1>1, <1>2 DEF Strayed, SimOK, SimFields
<1>4. ASSUME ~c.wp_train_tage PROVE t = s.tage
  <2>1. TageOK(s.tage)
    BY DEF SimOK
  <2>2. \A f \in TageFields \ {"hist", "fold"} : x.tage[f] = s.tage[f] /\ t[f] = x.tage[f]
    BY <1>1, <1>4 DEF restore, Strayed, SameCounters, TageOK, TageFields
  <2>3. \A f \in TageFields : t[f] = s.tage[f]
    BY <1>2, <2>2 DEF TageFields
  <2> QED BY <1>2, <2>1, <2>3 DEF TageOK
<1> QED BY <1>2, <1>3, <1>4 DEF Alike, Strayed

\* The loop over the blocks of the wrong path.
Straying(c, lucky) == [over |-> "blocks", c |-> c, lucky |-> lucky]

LEMMA WrongRounds ==
  ASSUME NEW c, c.D \in Nat, NEW s, NEW p, NEW lucky
  PROVE  \E f : /\ f[0].s = Followed(s, p) /\ WrongPath(c, s, p, lucky).s = Undone(f[c.D].s, s)
               /\ \A d \in 1..c.D : f[d] = wrongpath_block(c, f[d-1], lucky)
<1> DEFINE P(f) == f = [d \in 0..c.D |-> IF d = 0 THEN [s |-> Followed(s, p), pc |-> p.next, bytes |-> <<>>]
                                         ELSE wrongpath_block(c, f[d-1], lucky)]
<1>1. PICK b : b = [s |-> Followed(s, p), pc |-> p.next, bytes |-> <<>>]
  OBVIOUS
<1>2. \A k, x : Advance(Straying(c, lucky), k, x) = wrongpath_block(c, x, lucky)
  BY DEF Advance, Straying
<1>3. \A f : Loop(f, c.D, Straying(c, lucky), b) <=> P(f)
  BY <1>1, <1>2 DEF Loop
<1>4. P(CHOOSE f : P(f))
  BY <1>3, LoopExists
<1>5. WrongPath(c, s, p, lucky).s = Undone((CHOOSE f : P(f))[c.D].s, s)
  BY DEF WrongPath, Returning
<1>6. PICK f : P(f) /\ WrongPath(c, s, p, lucky).s = Undone(f[c.D].s, s)
  BY <1>4, <1>5
<1>7. f[0].s = Followed(s, p)
  BY <1>6
<1>8. ASSUME NEW d \in 1..c.D PROVE f[d] = wrongpath_block(c, f[d-1], lucky)
  <2>1. d \in 0..c.D /\ d # 0
    OBVIOUS
  <2> QED BY <1>6, <2>1
<1> QED BY <1>6, <1>7, <1>8

LEMMA WrongPathIsUndone ==
  ASSUME NEW c, c.D \in Nat, NEW s, SimOK(s), NEW p, NEW lucky,
         NEW n, n = WrongPath(c, s, p, lucky).s
  PROVE  Alike(c, s, n)
<1>1. PICK D \in Nat : D = c.D
  OBVIOUS
<1>2. PICK f : /\ f[0].s = Followed(s, p) /\ n = Undone(f[D].s, s)
               /\ \A d \in 1..D : f[d] = wrongpath_block(c, f[d-1], lucky)
  BY <1>1, WrongRounds
<1> DEFINE G == [j \in 0..D |-> Strayed(c, s, f[j].s)]
<1>3. G[0]
  <2>1. Strayed(c, s, s)
    BY DEF Strayed, SimOK, SameCounters
  <2>2. Strayed(c, s, f[0].s)
    BY <1>2, <2>1, FollowedStrays
  <2> QED BY <2>2
<1>4. ASSUME NEW j \in 1..D, G[j-1] PROVE G[j]
  <2>1. j - 1 \in 0..D /\ j \in 0..D
    OBVIOUS
  <2>2. Strayed(c, s, f[j-1].s)
    BY <1>4, <2>1
  <2>3. Strayed(c, s, f[j].s)
    BY <1>2, <2>2, WrongBlockStrays
  <2> QED BY <2>1, <2>3
<1>5. G \in [0..D -> BOOLEAN]
  BY DEF Strayed
<1> HIDE DEF G
<1>6. G[D]
  <2>1. \A j \in 0..D : G[j]
    BY <1>3, <1>4, <1>5, RoundByRound
  <2> QED BY <2>1
<1>7. Strayed(c, s, f[D].s)
  BY <1>6 DEF G
<1> QED BY <1>2, <1>7, UndoneIsAlike
----------------------------------------------------------------------------
(* The folds.  A fold has, for each of its bits, the parity of the history *)
(* bits that fall on it; a push moves each on by one, brings one in and     *)
(* lets one out.                                                           *)

\* The history bits below L that fall on bit b of a fold of T bits.
OnBit(h, L, T, b) == {i \in 0..L-1 : i % T = b /\ bit(h, i)}

\* The bit of the fold from which bit b is moved.
Behind(T, b) == IF b = 0 THEN T - 1 ELSE b - 1

LEMMA OnBitFinite ==
  ASSUME NEW h, NEW L \in Nat, NEW T, NEW b
  PROVE  IsFiniteSet(OnBit(h, L, T, b)) /\ Cardinality(OnBit(h, L, T, b)) \in Nat
<1>1. OnBit(h, L, T, b) \in SUBSET (0..L-1) /\ IsFiniteSet(0..L-1)
  BY FS_Interval DEF OnBit
<1> QED BY <1>1, FS_Subset, FS_CardinalityType

LEMMA NextMod ==
  ASSUME NEW T \in Nat \ {0}, NEW i \in Nat, NEW b \in 0..T-1
  PROVE  (i + 1) % T = b <=> i % T = Behind(T, b)
<1>1. PICK q \in Nat, r \in 0..T-1 : i = q * T + r /\ i % T = r
  <2>1. i = (i \div T) * T + (i % T) /\ i \div T \in Nat /\ i % T \in 0..T-1
    OBVIOUS
  <2> QED BY <2>1
<1>2. CASE r < T - 1
  <2>1. (i + 1) % T = r + 1
    <3>1. PICK x \in 0..T-1 : x = r + 1 /\ i + 1 = q * T + x
      BY <1>1, <1>2
    <3>2. (q * T + x) % T = x
      BY ModOf
    <3> QED BY <3>1, <3>2
  <2> QED BY <1>1, <1>2, <2>1 DEF Behind
<1>3. CASE r = T - 1
  <2>1. (i + 1) % T = 0
    <3>1. i + 1 = (q + 1) * T + 0 /\ q + 1 \in Int /\ 0 \in 0..T-1
      BY <1>1, <1>3
    <3> QED BY <3>1, ModOf
  <2> QED BY <1>1, <1>3, <2>1 DEF Behind
<1> QED BY <1>1, <1>2, <1>3

\* The bits of a history after a push.
LEMMA PushedBits ==
  ASSUME NEW h \in Seq(BOOLEAN), Len(h) <= HIST_N, NEW dir \in BOOLEAN, NEW g, g = Pushed(h, dir)
  PROVE  /\ g \in Seq(BOOLEAN) /\ Len(g) <= HIST_N
         /\ bit(g, 0) <=> dir
         /\ \A i \in 0..HIST_N-2 : bit(g, i + 1) <=> bit(h, i)
<1>1. HIST_N \in Nat \ {0} /\ Len(h) \in Nat
  BY TageAssumption
<1>2. PICK e : e = <<dir>> \o h
  OBVIOUS
<1>3. e \in Seq(BOOLEAN) /\ Len(e) = Len(h) + 1 /\ e[1] = dir /\ \A i \in 1..Len(h) : e[i+1] = h[i]
  BY <1>2
<1>4. PICK n \in 1..HIST_N : n = (IF Len(h) + 1 > HIST_N THEN HIST_N ELSE Len(h) + 1) /\ g = SubSeq(e, 1, n)
  BY <1>1, <1>2 DEF Pushed, Clamp
<1>5. n <= Len(e)
  BY <1>1, <1>3, <1>4
<1>6. g \in Seq(BOOLEAN) /\ Len(g) = n /\ \A i \in 1..n : g[i] = e[i]
  BY <1>3, <1>4, <1>5
<1>7. bit(g, 0) <=> dir
  BY <1>3, <1>6 DEF bit
<1>8. ASSUME NEW i \in 0..HIST_N-2 PROVE bit(g, i + 1) <=> bit(h, i)
  <2>1. i + 1 < n <=> i < Len(h)
    BY <1>1, <1>4
  <2>2. CASE i < Len(h)
    <3>1. i + 2 \in 1..n /\ i + 1 \in 1..Len(h) /\ (i + 1) + 1 = i + 2
      BY <1>1, <1>4, <2>1, <2>2
    <3>2. g[(i + 1) + 1] = h[i + 1]
      BY <1>3, <1>6, <3>1
    <3> QED BY <1>6, <2>1, <2>2, <3>2 DEF bit
  <2>3. CASE ~(i < Len(h))
    BY <1>6, <2>1, <2>3 DEF bit
  <2> QED BY <2>2, <2>3
<1> QED BY <1>6, <1>7, <1>8
MovedOn(M)     == {i + 1 : i \in M}
Come(S, new)   == IF new THEN S \cup {0} ELSE S
Gone(S, L, go) == IF go THEN S \ {L} ELSE S

\* What a push does to the bits behind one bit of a fold: those that fell on
\* the bit behind have come, perhaps the new one has, perhaps one has gone.
LEMMA PushMoves ==
  ASSUME NEW h, NEW g, NEW L \in Nat \ {0}, NEW T \in Nat \ {0}, NEW b \in 0..T-1,
         \A i \in 0..L-1 : bit(g, i + 1) <=> bit(h, i),
         NEW M, M = OnBit(h, L, T, Behind(T, b)),
         NEW S, S = MovedOn(M),
         NEW new, new = (b = 0 /\ bit(g, 0)), NEW gone, gone = (L % T = b /\ bit(g, L)),
         NEW U, U = Come(S, new)
  PROVE  /\ OnBit(g, L, T, b) = Gone(U, L, gone)
         /\ 0 \notin S /\ (L \in S <=> gone)
         /\ IsFiniteSet(S) /\ Cardinality(S) = Cardinality(M) /\ Cardinality(M) \in Nat
<1>1. S \subseteq 1..L
  BY DEF OnBit, MovedOn
<1>2. ASSUME NEW j \in 1..L PROVE j \in S <=> j % T = b /\ bit(g, j)
  <2>1. PICK i \in 0..L-1 : j = i + 1
    <3>1. j - 1 \in 0..L-1 /\ j = (j - 1) + 1
      OBVIOUS
    <3> QED BY <3>1
  <2>2. j \in S <=> i \in M
    <3>1. \A k \in M : k \in Int
      BY DEF OnBit
    <3> QED BY <2>1, <3>1 DEF MovedOn
  <2>3. i \in M <=> i % T = Behind(T, b) /\ bit(h, i)
    BY DEF OnBit
  <2>4. j % T = b <=> i % T = Behind(T, b)
    <3>1. i \in Nat
      OBVIOUS
    <3> QED BY <2>1, <3>1, NextMod
  <2>5. bit(g, j) <=> bit(h, i)
    BY <2>1
  <2> QED BY <2>2, <2>3, <2>4, <2>5
<1>3. ASSUME NEW j
      PROVE  j \in OnBit(g, L, T, b) <=>
             (j \in S /\ j # L) \/ (j = 0 /\ b = 0 /\ bit(g, 0))
  <2>1. CASE j \in 1..L-1
    <3>1. j \in 1..L /\ j \in 0..L-1 /\ j # L /\ j # 0
      BY <2>1
    <3> QED BY <1>2, <3>1 DEF OnBit
  <2>2. CASE j = 0
    <3>1. 0 \in 0..L-1 /\ 0 % T = 0 /\ 0 \notin S
      BY <1>1
    <3> QED BY <2>2, <3>1 DEF OnBit
  <2>3. CASE j \notin 0..L-1
    <3>1. j \notin OnBit(g, L, T, b) /\ j # 0 /\ (j \in S => j = L)
      BY <1>1, <2>3 DEF OnBit
    <3> QED BY <3>1
  <2> QED BY <2>1, <2>2, <2>3
<1>4. L \in S <=> L % T = b /\ bit(g, L)
  BY <1>2
<1>5. L # 0 /\ 0 \notin S
  BY <1>1
<1>6. OnBit(g, L, T, b) = Gone(U, L, gone)
  BY <1>3, <1>4, <1>5 DEF Come, Gone
<1>7. IsFiniteSet(M) /\ Cardinality(M) \in Nat
  BY OnBitFinite
<1>8. ExistsBijection(M, S)
  <2> DEFINE f == [i \in M |-> i + 1]
  <2>1. f \in Bijection(M, S)
    <3>1. M \subseteq Int
      BY DEF OnBit
    <3>2. f \in [M -> S] /\ \A i, k \in M : f[i] = f[k] => i = k
      BY <3>1 DEF MovedOn
    <3>3. \A j \in S : \E i \in M : f[i] = j
      BY DEF MovedOn
    <3> HIDE DEF f
    <3> QED BY <3>2, <3>3 DEF Bijection, Injection, Surjection, IsInjective
  <2> QED BY <2>1 DEF ExistsBijection
<1>9. IsFiniteSet(S) /\ Cardinality(S) = Cardinality(M)
  BY <1>7, <1>8, FS_Bijection
<1> QED BY <1>4, <1>5, <1>6, <1>7, <1>9
Odd(n) == n % 2 = 1

LEMMA OddSteps ==
  ASSUME NEW n \in Nat
  PROVE  (Odd(n + 1) <=> ~Odd(n)) /\ (n > 0 => (Odd(n - 1) <=> ~Odd(n)))
BY DEF Odd

\* So its parity is that of the bit behind, turned by the bit that comes and
\* by the one that goes.
LEMMA PushParity ==
  ASSUME NEW h, NEW g, NEW L \in Nat \ {0}, NEW T \in Nat \ {0}, NEW b \in 0..T-1,
         \A i \in 0..L-1 : bit(g, i + 1) <=> bit(h, i),
         NEW m, m = Cardinality(OnBit(h, L, T, Behind(T, b))),
         NEW n, n = Cardinality(OnBit(g, L, T, b)),
         NEW new, new = (b = 0 /\ bit(g, 0)), NEW gone, gone = (L % T = b /\ bit(g, L))
  PROVE  Odd(n) <=> ((Odd(m) <=> new) <=> gone)
<1>1. PICK M, S : M = OnBit(h, L, T, Behind(T, b)) /\ S = MovedOn(M)
  OBVIOUS
<1>2. PICK U : U = Come(S, new)
  OBVIOUS
<1>3. /\ OnBit(g, L, T, b) = Gone(U, L, gone)
      /\ 0 \notin S /\ (L \in S <=> gone)
      /\ IsFiniteSet(S) /\ Cardinality(S) = m /\ m \in Nat
  BY <1>1, <1>2, PushMoves
<1>4. IsFiniteSet(U) /\ Cardinality(U) = (IF new THEN m + 1 ELSE m) /\ (L \in U <=> gone)
  BY <1>3, <1>2, FS_AddElement DEF Come
<1>5. n = IF gone THEN Cardinality(U) - 1 ELSE Cardinality(U)
  <2>1. CASE gone
    <3>1. OnBit(g, L, T, b) = U \ {L}
      BY <1>3, <2>1 DEF Gone
    <3> QED BY <1>4, <2>1, <3>1, FS_RemoveElement
  <2>2. CASE ~gone
    <3>1. OnBit(g, L, T, b) = U
      BY <1>3, <2>2 DEF Gone
    <3> QED BY <2>2, <3>1
  <2> QED BY <2>1, <2>2
<1>6. PICK u \in Nat : u = Cardinality(U) /\ (gone => u > 0)
  <2>1. gone => U # {}
    BY <1>4
  <2>2. Cardinality(U) \in Nat
    BY <1>4, FS_CardinalityType
  <2>3. U # {} => Cardinality(U) # 0
    BY <1>4, FS_EmptySet
  <2> QED BY <2>1, <2>2, <2>3
<1>7. Odd(u) <=> ~(Odd(m) <=> new)
  <2>1. CASE new
    BY <1>3, <1>4, <1>6, <2>1, OddSteps
  <2>2. CASE ~new
    BY <1>4, <1>6, <2>2
  <2> QED BY <2>1, <2>2
<1>8. Odd(n) <=> ~(Odd(u) <=> gone)
  <2>1. CASE gone
    BY <1>5, <1>6, <2>1, OddSteps
  <2>2. CASE ~gone
    BY <1>5, <1>6, <2>2
  <2> QED BY <2>1, <2>2
<1> QED BY <1>7, <1>8
\* The fold that FoldUpdate makes, bit by bit.
LEMMA UpdatedBit ==
  ASSUME NEW T \in Nat \ {0}, NEW f \in SUBSET (0..T-1), NEW g, NEW L \in Nat, NEW b \in 0..T-1,
         NEW new, new = (b = 0 /\ bit(g, 0)), NEW gone, gone = (L % T = b /\ bit(g, L))
  PROVE  b \in FoldUpdate(f, g, L, T) <=> ((Behind(T, b) \in f <=> new) <=> gone)
<1>1. PICK in : in = {c + 1 : c \in f} \cup (IF bit(g, 0) THEN {0} ELSE {})
  OBVIOUS
<1>2. PICK go : go = IF bit(g, L) THEN {L % T} ELSE {}
  OBVIOUS
<1>3. PICK out : out = Sym(in, go)
  OBVIOUS
<1>4. PICK over : over = {c - T : c \in {d \in out : d >= T}}
  OBVIOUS
<1>5. FoldUpdate(f, g, L, T) = {c \in Sym(out, over) : c < T}
  BY <1>1, <1>2, <1>3, <1>4 DEF FoldUpdate
<1>6. L % T \in 0..T-1
  OBVIOUS
<1>7. in \subseteq 0..T /\ (T \in in <=> T - 1 \in f) /\ (b \in in <=> (b # 0 /\ b - 1 \in f) \/ new)
  <2>1. \A c \in f : c \in 0..T-1
    OBVIOUS
  <2>2. in \subseteq 0..T
    BY <1>1, <2>1
  <2>3. T \in in <=> T - 1 \in f
    <3>1. (T - 1) + 1 = T /\ T # 0
      OBVIOUS
    <3> QED BY <1>1, <2>1, <3>1
  <2>4. b \in in <=> (b # 0 /\ b - 1 \in f) \/ new
    <3>1. (b - 1) + 1 = b /\ \A c \in f : c + 1 = b => c = b - 1 /\ b # 0
      BY <2>1
    <3> QED BY <1>1, <3>1
  <2> QED BY <2>2, <2>3, <2>4
<1>8. b \in go <=> gone
  BY <1>2
<1>9. T \notin go
  BY <1>2, <1>6
<1>10. out \subseteq 0..T /\ (T \in out <=> T - 1 \in f)
  <2>1. go \subseteq 0..T
    BY <1>2, <1>6
  <2>2. out \subseteq 0..T
    BY <1>3, <1>7, <2>1 DEF Sym
  <2>3. T \in out <=> T \in in
    BY <1>3, <1>9 DEF Sym
  <2> QED BY <1>7, <2>2, <2>3
<1>11. b \in over <=> b = 0 /\ T - 1 \in f
  <2>1. over = IF T \in out THEN {0} ELSE {}
    <3>1. \A d \in out : d >= T => d = T
      BY <1>10
    <3>2. T >= T /\ T - T = 0
      OBVIOUS
    <3> QED BY <1>4, <3>1, <3>2
  <2> QED BY <1>10, <2>1
<1>12. b \in FoldUpdate(f, g, L, T) <=> ~((b \in in <=> ~(b \in go)) <=> b \in over)
  BY <1>3, <1>5 DEF Sym
<1>13. CASE b = 0
  BY <1>7, <1>8, <1>11, <1>12, <1>13 DEF Behind
<1>14. CASE b # 0
  BY <1>7, <1>8, <1>11, <1>12, <1>14 DEF Behind
<1> QED BY <1>13, <1>14

\* A fold that is updated with a push is the fold of the history after it.
LEMMA FoldFollows ==
  ASSUME NEW h, NEW g, NEW L \in Nat \ {0}, NEW T \in Nat \ {0},
         \A i \in 0..L-1 : bit(g, i + 1) <=> bit(h, i)
  PROVE  FoldUpdate(FoldOf(h, L, T), g, L, T) = FoldOf(g, L, T)
<1>1. PICK f : f = FoldOf(h, L, T)
  OBVIOUS
<1>2. f \in SUBSET (0..T-1) /\ \A b \in 0..T-1 : b \in f <=> Odd(Cardinality(OnBit(h, L, T, b)))
  BY <1>1 DEF FoldOf, OnBit, Odd
<1>3. ASSUME NEW b \in 0..T-1 PROVE b \in FoldUpdate(f, g, L, T) <=> Odd(Cardinality(OnBit(g, L, T, b)))
  <2>1. PICK new, gone : new = (b = 0 /\ bit(g, 0)) /\ gone = (L % T = b /\ bit(g, L))
    OBVIOUS
  <2>2. PICK m, n : m = Cardinality(OnBit(h, L, T, Behind(T, b))) /\ n = Cardinality(OnBit(g, L, T, b))
    OBVIOUS
  <2>3. Behind(T, b) \in 0..T-1
    BY DEF Behind
  <2>4. Behind(T, b) \in f <=> Odd(m)
    BY <1>2, <2>2, <2>3
  <2>5. Odd(n) <=> ((Odd(m) <=> new) <=> gone)
    BY <2>1, <2>2, PushParity
  <2>6. b \in FoldUpdate(f, g, L, T) <=> ((Behind(T, b) \in f <=> new) <=> gone)
    BY <1>2, <2>1, UpdatedBit
  <2> QED BY <2>2, <2>4, <2>5, <2>6
<1>4. FoldUpdate(f, g, L, T) \subseteq 0..T-1
  <2>1. \A c \in FoldUpdate(f, g, L, T) : c \in Int /\ c >= 0 /\ c < T
    <3>1. \A c \in f : c \in Nat
      BY <1>2
    <3>2. L % T \in Nat
      OBVIOUS
    <3> QED BY <3>1, <3>2 DEF FoldUpdate, Sym
  <2> QED BY <2>1
<1>5. \A b \in 0..T-1 : b \in FoldOf(g, L, T) <=> Odd(Cardinality(OnBit(g, L, T, b)))
  BY DEF FoldOf, OnBit, Odd
<1>6. FoldOf(g, L, T) \subseteq 0..T-1
  BY DEF FoldOf
<1> QED BY <1>1, <1>3, <1>4, <1>5, <1>6
----------------------------------------------------------------------------
(* The right path.                                                         *)

\* The part of Alike that the direction predictor has.
TageAlike(c, t, u) ==
  /\ TageOK(t) /\ TageOK(u) /\ u.hist = t.hist /\ u.fold = t.fold
  /\ ~c.wp_train_tage => u = t

LEMMA TrainedAlike ==
  ASSUME NEW c, NEW t, NEW u, TageAlike(c, t, u), NEW pc, NEW taken, NEW lucky,
         NEW x, x = tage_update(t, pc, taken, lucky), NEW y, y = tage_update(u, pc, taken, lucky)
  PROVE  TageAlike(c, x, y)
<1>1. SameHistory(t, x) /\ SameHistory(u, y)
  BY UpdateKeepsHistory DEF TageAlike
<1>2. ~c.wp_train_tage => y = x
  BY DEF TageAlike
<1> QED BY <1>1, <1>2 DEF TageAlike, SameHistory

LEMMA PushedAlike ==
  ASSUME NEW c, NEW t, NEW u, TageAlike(c, t, u), NEW dir,
         NEW x, x = push_history(t, dir), NEW y, y = push_history(u, dir)
  PROVE  TageAlike(c, x, y)
<1>1. PICK h, v : /\ x = [t EXCEPT !.hist = h, !.fold = v]
                  /\ y = [u EXCEPT !.hist = h, !.fold = v]
  BY DEF push_history, TageAlike
<1>2. TageOK(x) /\ TageOK(y) /\ y.hist = x.hist /\ y.fold = x.fold
  BY <1>1 DEF TageAlike, TageOK, TageFields
<1>3. ~c.wp_train_tage => y = x
  BY DEF TageAlike
<1> QED BY <1>2, <1>3 DEF TageAlike

\* Two simulators that get alike predictors, stacks and lengths are alike.
Given(s, t, r, l) == [s EXCEPT !.tage = t, !.ras = r, !.ilen = l]

LEMMA AlikeFrom ==
  ASSUME NEW c, NEW s, NEW z, Alike(c, s, z), NEW t, NEW u, TageAlike(c, t, u), NEW r, NEW l,
         NEW x, x = Given(s, t, r, l), NEW y, y = Given(z, u, r, l)
  PROVE  Alike(c, x, y)
<1>1. /\ x = [f \in SimFields |-> x[f]] /\ x.tage = t /\ x.ras = r /\ x.ilen = l
      /\ y = [f \in SimFields |-> y[f]] /\ y.tage = u /\ y.ras = r /\ y.ilen = l
  BY DEF Alike, SimOK, SimFields, Given
<1> QED BY <1>1 DEF Alike, SimOK, TageAlike

\* A simulator with one part given has the others as they were.
LEMMA GivenOne ==
  ASSUME NEW s, SimOK(s), NEW v
  PROVE  /\ s = Given(s, s.tage, s.ras, s.ilen)
         /\ [s EXCEPT !.tage = v] = Given(s, v, s.ras, s.ilen)
         /\ [s EXCEPT !.ras = v] = Given(s, s.tage, v, s.ilen)
         /\ [s EXCEPT !.ilen = v] = Given(s, s.tage, s.ras, v)
<1>1. s = Given(s, s.tage, s.ras, s.ilen)
  BY DEF Given, SimOK, SimFields
<1>2. [s EXCEPT !.tage = v] = Given(s, v, s.ras, s.ilen)
  BY DEF Given, SimOK, SimFields
<1>3. [s EXCEPT !.ras = v] = Given(s, s.tage, v, s.ilen)
  BY DEF Given, SimOK, SimFields
<1>4. [s EXCEPT !.ilen = v] = Given(s, s.tage, s.ras, v)
  BY DEF Given, SimOK, SimFields
<1> QED BY <1>1, <1>2, <1>3, <1>4

\* What is alike in them.
LEMMA AlikeParts ==
  ASSUME NEW c, NEW s, NEW z, Alike(c, s, z)
  PROVE  TageAlike(c, s.tage, z.tage) /\ z.ras = s.ras /\ z.ilen = s.ilen
BY DEF Alike, SimOK, TageAlike

\* What a return makes of the lengths l with stack r.
Shown(r, act) == {x \in Popped(r) : x.addr # act /\ act - x.call_pc \in 1..8}
AfterReturn(l, r, act) ==
  IF learn_call_len /\ Shown(r, act) # {}
    THEN LET x == CHOOSE y \in Shown(r, act) : TRUE IN Put(l, x.call_pc, act - x.call_pc) ELSE l

LEMMA ReturnedIs ==
  ASSUME NEW s, SimOK(s), NEW act
  PROVE  Returned(s, act) = Given(s, s.tage, ras_pop(s.ras), AfterReturn(s.ilen, s.ras, act))
<1>1. PICK r, l, l1 : r = ras_pop(s.ras) /\ l = s.ilen /\ l1 = AfterReturn(l, s.ras, act)
  OBVIOUS
<1>2. PICK s1 : s1 = [s EXCEPT !.ras = r]
  OBVIOUS
<1>3. s1.ilen = l /\ s1 = [s1 EXCEPT !.ilen = l]
  BY <1>1, <1>2 DEF SimOK, SimFields
<1>4. Returned(s, act) = [s1 EXCEPT !.ilen = l1]
  BY <1>1, <1>2, <1>3 DEF Returned, AfterReturn, Shown
<1>5. [s1 EXCEPT !.ilen = l1] = Given(s, s.tage, r, l1)
  BY <1>2 DEF Given, SimOK, SimFields
<1> QED BY <1>1, <1>4, <1>5

LEMMA LearnedAlike ==
  ASSUME NEW c, NEW s, NEW z, Alike(c, s, z), NEW b, NEW x, x = Learned(s, b), NEW y, y = Learned(z, b)
  PROVE  Alike(c, x, y)
<1>1. PICK l : /\ x = [s EXCEPT !.ilen = l] \/ (x = s /\ l = s.ilen)
               /\ y = [z EXCEPT !.ilen = l] \/ (y = z /\ l = z.ilen)
  <2>1. CASE b.obs.n_br > 0 /\ ~b.taken /\ b.has_next /\ b.next_pc - b.last_pc \in 1..8
    <3>1. z.ilen = s.ilen
      BY AlikeParts
    <3> QED BY <2>1, <3>1 DEF Learned
  <2>2. CASE ~(b.obs.n_br > 0 /\ ~b.taken /\ b.has_next /\ b.next_pc - b.last_pc \in 1..8)
    <3>1. z.ilen = s.ilen
      BY AlikeParts
    <3> QED BY <2>2, <3>1 DEF Learned
  <2> QED BY <2>1, <2>2
<1>2. PICK t, u, r : /\ TageAlike(c, t, u) /\ t = s.tage /\ u = z.tage /\ r = s.ras /\ r = z.ras
  BY AlikeParts
<1>3. /\ x = Given(s, t, r, l)
      /\ y = Given(z, u, r, l)
  <2>1. SimOK(s) /\ SimOK(z)
    BY DEF Alike
  <2>2. x = Given(s, s.tage, s.ras, l)
    <3>1. CASE x = [s EXCEPT !.ilen = l]
      BY <2>1, <3>1, GivenOne
    <3>2. CASE x = s /\ l = s.ilen
      BY <2>1, <3>2, GivenOne
    <3> QED BY <1>1, <3>1, <3>2
  <2>3. y = Given(z, z.tage, z.ras, l)
    <3>1. CASE y = [z EXCEPT !.ilen = l]
      BY <2>1, <3>1, GivenOne
    <3>2. CASE y = z /\ l = z.ilen
      BY <2>1, <3>2, GivenOne
    <3> QED BY <1>1, <3>1, <3>2
  <2> QED BY <1>2, <2>2, <2>3
<1> QED BY <1>2, <1>3, AlikeFrom

\* Parts that are not compared may change on either side.
LEMMA ElsewhereAlike ==
  ASSUME NEW c, NEW s, NEW z, Alike(c, s, z), NEW x, NEW y, SimOK(x), SimOK(y),
         x.tage = s.tage, x.ras = s.ras, x.ilen = s.ilen,
         y.tage = z.tage, y.ras = z.ras, y.ilen = z.ilen
  PROVE  Alike(c, x, y)
BY DEF Alike

LEMMA AllocatingAlike ==
  ASSUME NEW c, NEW s, NEW z, Alike(c, s, z), NEW pc, NEW o,
         NEW x, x = Allocating(s, pc, o), NEW y, y = Allocating(z, pc, o)
  PROVE  Alike(c, x, y)
<1>1. SimOK(s) /\ SimOK(z)
  BY DEF Alike
<1>2. /\ SimOK(x) /\ x.tage = s.tage /\ x.ras = s.ras /\ x.ilen = s.ilen
      /\ SimOK(y) /\ y.tage = z.tage /\ y.ras = z.ras /\ y.ilen = z.ilen
  BY <1>1, AllocatingTouches
<1> QED BY <1>2, ElsewhereAlike

LEMMA NotedAlike ==
  ASSUME NEW c, NEW s, NEW z, Alike(c, s, z), NEW b, NEW x, x = Noted(s, b), NEW y, y = Noted(z, b)
  PROVE  Alike(c, x, y)
<1>1. PICK u, v : x = [s EXCEPT !.smap = u] /\ y = [z EXCEPT !.smap = v]
  BY DEF Noted
<1>2. /\ SimOK(x) /\ x.tage = s.tage /\ x.ras = s.ras /\ x.ilen = s.ilen
      /\ SimOK(y) /\ y.tage = z.tage /\ y.ras = z.ras /\ y.ilen = z.ilen
  BY <1>1 DEF Alike, SimOK, SimFields
<1> QED BY <1>2, ElsewhereAlike

\* A branch that was executed: the direction, the stack and the lengths go
\* the same way in both.
LEMMA ResolvedAlike ==
  ASSUME NEW c, NEW s, NEW z, Alike(c, s, z), NEW br, NEW taken, NEW act, NEW lucky,
         NEW x, x = Resolved(s, br, taken, act, lucky), NEW y, y = Resolved(z, br, taken, act, lucky)
  PROVE  Alike(c, x, y)
<1>1. PICK t, u, r, l : /\ TageAlike(c, t, u) /\ t = s.tage /\ u = z.tage
                        /\ r = s.ras /\ r = z.ras /\ l = s.ilen /\ l = z.ilen
  BY AlikeParts
<1>2. CASE br.type = "cond"
  <2>1. PICK t1, u1 : t1 = tage_update(t, br.pc, taken, br.pc \in lucky) /\ u1 = tage_update(u, br.pc, taken, br.pc \in lucky)
    OBVIOUS
  <2>2. TageAlike(c, t1, u1)
    BY <1>1, <2>1, TrainedAlike
  <2>3. PICK t2, u2 : t2 = push_history(t1, taken) /\ u2 = push_history(u1, taken)
    OBVIOUS
  <2>4. TageAlike(c, t2, u2)
    BY <2>2, <2>3, PushedAlike
  <2>5. x = [s EXCEPT !.tage = t2] /\ y = [z EXCEPT !.tage = u2]
    BY <1>1, <1>2, <2>1, <2>3 DEF Resolved
  <2>6. /\ x = Given(s, t2, r, l)
        /\ y = Given(z, u2, r, l)
    <3>1. SimOK(s) /\ SimOK(z)
      BY DEF Alike
    <3>2. x = Given(s, t2, s.ras, s.ilen)
      BY <2>5, <3>1, GivenOne
    <3>3. y = Given(z, u2, z.ras, z.ilen)
      BY <2>5, <3>1, GivenOne
    <3> QED BY <1>1, <3>2, <3>3
  <2> QED BY <2>4, <2>6, AlikeFrom
<1>3. CASE br.type = "call"
  <2>1. PICK r1 : r1 = ras_push(r, br.pc + IF br.pc \in DOMAIN l THEN l[br.pc] ELSE ilen_bytes, br.pc)
    OBVIOUS
  <2>2. x = [s EXCEPT !.ras = r1] /\ y = [z EXCEPT !.ras = r1]
    BY <1>1, <1>3, <2>1 DEF Resolved, Called
  <2>3. /\ x = Given(s, t, r1, l)
        /\ y = Given(z, u, r1, l)
    <3>1. SimOK(s) /\ SimOK(z)
      BY DEF Alike
    <3>2. x = Given(s, s.tage, r1, s.ilen)
      BY <2>2, <3>1, GivenOne
    <3>3. y = Given(z, z.tage, r1, z.ilen)
      BY <2>2, <3>1, GivenOne
    <3> QED BY <1>1, <3>2, <3>3
  <2> QED BY <1>1, <2>3, AlikeFrom
<1>4. CASE br.type = "ret"
  <2>1. x = Returned(s, act) /\ y = Returned(z, act)
    BY <1>4 DEF Resolved
  <2>2. SimOK(s) /\ SimOK(z)
    BY DEF Alike
  <2>3. PICK r1, l1 : r1 = ras_pop(r) /\ l1 = AfterReturn(l, r, act)
    OBVIOUS
  <2>4. x = Given(s, t, r1, l1)
    BY <1>1, <2>1, <2>2, <2>3, ReturnedIs
  <2>5. y = Given(z, u, r1, l1)
    BY <1>1, <2>1, <2>2, <2>3, ReturnedIs
  <2> QED BY <1>1, <2>4, <2>5, AlikeFrom
<1>5. CASE br.type \notin {"cond", "call", "ret"}
  <2>1. x = s /\ y = z
    BY <1>5 DEF Resolved
  <2> QED BY <2>1
<1> QED BY <1>2, <1>3, <1>4, <1>5

LEMMA ResolvedAtAlike ==
  ASSUME NEW c, NEW s, NEW z, Alike(c, s, z), NEW b, NEW i, NEW act, NEW lucky,
         NEW x, x = ResolvedAt(s, b, i, act, lucky), NEW y, y = ResolvedAt(z, b, i, act, lucky)
  PROVE  Alike(c, x, y)
<1>1. CASE i \in Executed(b.obs)
  BY <1>1, ResolvedAlike DEF ResolvedAt
<1>2. CASE i \notin Executed(b.obs)
  BY <1>2 DEF ResolvedAt
<1> QED BY <1>1, <1>2
\* Both expect the block to go on at the same address.
LEMMA SameNext ==
  ASSUME NEW c, NEW s, NEW z, Alike(c, s, z), NEW b
  PROVE  actual_next(s, b) = actual_next(z, b)
<1>1. z.ilen = s.ilen
  BY AlikeParts
<1>2. Fallthru(z, b) = Fallthru(s, b)
  BY <1>1 DEF Fallthru
<1> QED BY <1>2 DEF actual_next

\* The loop over the branches that were executed.
Resolving(s, b, lucky) == [over |-> "branches", b |-> b, act |-> actual_next(s, b), lucky |-> lucky]
Before(s, b) == Allocating(Learned(s, b), b.pc, b.obs)

LEMMA ResolveRounds ==
  ASSUME NEW s, NEW b, NEW lucky
  PROVE  \E f : /\ Loop(f, FE_MAX_SLOTS, Resolving(s, b, lucky), Before(s, b))
               /\ resolve(s, b, lucky) = f[FE_MAX_SLOTS]
<1> DEFINE P(f) == f = [i \in 0..FE_MAX_SLOTS |->
                          IF i = 0 THEN Allocating(Learned(s, b), b.pc, b.obs)
                          ELSE ResolvedAt(f[i-1], b, i, actual_next(s, b), lucky)]
<1>1. FE_MAX_SLOTS \in Nat
  BY PredictorsAssumption
<1>2. \A k, a : Advance(Resolving(s, b, lucky), k, a) = ResolvedAt(a, b, k, actual_next(s, b), lucky)
  BY DEF Advance, Resolving
<1>3. \A f : Loop(f, FE_MAX_SLOTS, Resolving(s, b, lucky), Before(s, b)) <=> P(f)
  BY <1>2 DEF Loop, Before
<1>4. P(CHOOSE f : P(f))
  BY <1>1, <1>3, LoopExists
<1>5. resolve(s, b, lucky) = (CHOOSE f : P(f))[FE_MAX_SLOTS]
  BY DEF resolve
<1> HIDE DEF P
<1> QED BY <1>3, <1>4, <1>5

LEMMA ResolveAlike ==
  ASSUME NEW c, NEW s, NEW z, Alike(c, s, z), NEW b, NEW lucky,
         NEW x, x = resolve(s, b, lucky), NEW y, y = resolve(z, b, lucky)
  PROVE  Alike(c, x, y)
<1>1. PICK act : act = actual_next(s, b) /\ act = actual_next(z, b)
  BY SameNext
<1>2. PICK s1, z1 : s1 = Before(s, b) /\ z1 = Before(z, b)
  OBVIOUS
<1>3. Alike(c, s1, z1)
  <2>1. PICK s0, z0 : s0 = Learned(s, b) /\ z0 = Learned(z, b)
    OBVIOUS
  <2>2. Alike(c, s0, z0)
    BY <2>1, LearnedAlike
  <2> QED BY <1>2, <2>1, <2>2, AllocatingAlike DEF Before
<1>4. PICK N \in Nat : N = FE_MAX_SLOTS
  BY PredictorsAssumption
<1>5. PICK l : l = Resolving(s, b, lucky) /\ l = Resolving(z, b, lucky)
  BY <1>1 DEF Resolving
<1>6. \A k, a : Advance(l, k, a) = ResolvedAt(a, b, k, act, lucky)
  <2>1. PICK a : a = actual_next(s, b) /\ a = act
    BY <1>1
  <2>2. l = [over |-> "branches", b |-> b, act |-> a, lucky |-> lucky]
    BY <1>5, <2>1 DEF Resolving
  <2>3. l.over = "branches" /\ l.b = b /\ l.act = act /\ l.lucky = lucky
    BY <2>1, <2>2
  <2> QED BY <2>3 DEF Advance
<1>7. PICK f : Loop(f, N, l, s1) /\ x = f[N]
  BY <1>2, <1>4, <1>5, ResolveRounds
<1>8. PICK g : Loop(g, N, l, z1) /\ y = g[N]
  BY <1>2, <1>4, <1>5, ResolveRounds
<1> DEFINE G == [j \in 0..N |-> Alike(c, f[j], g[j])]
<1>9. G[0]
  <2>1. 0 \in 0..N /\ f[0] = s1 /\ g[0] = z1
    BY <1>7, <1>8 DEF Loop
  <2> QED BY <1>3, <2>1
<1>10. ASSUME NEW j \in 1..N, G[j-1] PROVE G[j]
  <2>1. j - 1 \in 0..N /\ j \in 0..N /\ j # 0
    OBVIOUS
  <2>2. Alike(c, f[j-1], g[j-1])
    BY <1>10, <2>1
  <2>3. /\ f[j] = ResolvedAt(f[j-1], b, j, act, lucky)
        /\ g[j] = ResolvedAt(g[j-1], b, j, act, lucky)
    BY <1>6, <1>7, <1>8, <2>1 DEF Loop
  <2>4. Alike(c, f[j], g[j])
    BY <2>2, <2>3, ResolvedAtAlike
  <2> QED BY <2>1, <2>4
<1>11. G \in [0..N -> BOOLEAN]
  BY DEF Alike
<1> HIDE DEF G
<1>12. G[N]
  <2>1. \A j \in 0..N : G[j]
    BY <1>9, <1>10, <1>11, RoundByRound
  <2> QED BY <2>1
<1> QED BY <1>7, <1>8, <1>12 DEF G

LEMMA AlikeIsTransitive ==
  ASSUME NEW c, NEW s, NEW z, NEW u, Alike(c, s, z), Alike(c, z, u)
  PROVE  Alike(c, s, u)
BY DEF Alike

\* A block that is run with wrong paths, and without them.
LEMMA RunAlike ==
  ASSUME NEW c \in FrontEndOptions, NEW z, NEW s, Alike(c, z, s), NEW raw, NEW lucky,
         NEW x, x = RunBlock([c EXCEPT !.D = 0], z, raw, lucky).s,
         NEW y, y = RunBlock(c, s, raw, lucky).s
  PROVE  Alike(c, x, y)
<1>1. PICK b, pz, ps : b = fix_fallthru(raw) /\ pz = predict(z, raw.pc) /\ ps = predict(s, raw.pc)
  OBVIOUS
<1>2. PICK z1, s1 : z1 = pz.s /\ s1 = ps.s
  OBVIOUS
<1>3. Alike(c, z1, s1)
  <2>1. SimOK(z) /\ SimOK(s)
    BY DEF Alike
  <2>2. /\ SimOK(z1) /\ z1.tage = z.tage /\ z1.ras = z.ras /\ z1.ilen = z.ilen
        /\ SimOK(s1) /\ s1.tage = s.tage /\ s1.ras = s.ras /\ s1.ilen = s.ilen
    BY <1>1, <1>2, <2>1, PredictTouches
  <2> QED BY <2>2, ElsewhereAlike
<1>4. c.D \in Nat /\ [c EXCEPT !.D = 0].D = 0
  BY DEF FrontEndOptions
<1>5. x = Noted(resolve(z1, b, lucky), b)
  <2>1. ~([c EXCEPT !.D = 0].D > 0)
    BY <1>4
  <2> QED BY <1>1, <1>2, <2>1 DEF RunBlock, Judged, BlockOver
<1>6. PICK s2 : y = Noted(resolve(s2, b, lucky), b) /\ (s2 = s1 \/ s2 = WrongPath(c, s1, ps.p, lucky).s)
  BY <1>1, <1>2 DEF RunBlock, Judged, BlockOver
<1>7. Alike(c, z1, s2)
  <2>1. CASE s2 = s1
    BY <1>3, <2>1
  <2>2. CASE s2 = WrongPath(c, s1, ps.p, lucky).s
    <3>1. SimOK(s1)
      BY <1>3 DEF Alike
    <3>2. Alike(c, s1, s2)
      BY <1>4, <2>2, <3>1, WrongPathIsUndone
    <3> QED BY <1>3, <3>2, AlikeIsTransitive
  <2> QED BY <1>6, <2>1, <2>2
<1>8. PICK z3, s3 : z3 = resolve(z1, b, lucky) /\ s3 = resolve(s2, b, lucky)
  OBVIOUS
<1>9. Alike(c, z3, s3)
  BY <1>7, <1>8, ResolveAlike
<1> QED BY <1>5, <1>6, <1>8, <1>9, NotedAlike
----------------------------------------------------------------------------
(* The wrong path leaves nothing behind.                                   *)

\* The simulator and the one that never leaves the right path are alike.
WInv == case \in Cases /\ Alike(case.fe, twin, sim)

LEMMA StartIsOK == SimOK(Start)
BY DEF Start, TageInit, SimOK, SimFields, TageOK, TageFields

LEMMA WInvInit == Init => WInv
<1> SUFFICES ASSUME Init PROVE WInv
  OBVIOUS
<1>1. case \in Cases /\ sim = Start /\ twin = Start
  BY DEF Init
<1>2. Alike(case.fe, twin, sim)
  BY <1>1, StartIsOK DEF Alike
<1> QED BY <1>1, <1>2 DEF WInv

LEMMA WInvNext == WInv /\ [Next]_vars => WInv'
<1> SUFFICES ASSUME WInv, [Next]_vars PROVE WInv'
  OBVIOUS
<1>1. CASE UNCHANGED <<case, sim, twin>>
  BY <1>1 DEF WInv
<1>2. CASE Block
  <2>1. PICK raw, r, t : /\ RanBlock(raw, r, t)
                         /\ r = RunBlock(case.fe, sim, raw, case.lucky)
                         /\ t = RunBlock([case.fe EXCEPT !.D = 0], twin, raw, case.lucky)
    BY <1>2 DEF Block
  <2>2. sim' = r.s /\ twin' = t.s /\ case' = case
    BY <2>1 DEF RanBlock
  <2>3. PICK c \in FrontEndOptions : c = case.fe
    BY PreprocessAssumption DEF WInv
  <2>4. PICK x, y : x = t.s /\ y = r.s
    OBVIOUS
  <2>5. Alike(c, x, y)
    BY <2>1, <2>3, <2>4, RunAlike DEF WInv
  <2> QED BY <2>2, <2>3, <2>4, <2>5 DEF WInv
<1>3. ASSUME Next, ~Block PROVE UNCHANGED <<case, sim, twin>>
  BY <1>3 DEF Next, Retire, LogEnds, FrontEnds, Again, AgainEnds
<1>4. UNCHANGED vars => UNCHANGED <<case, sim, twin>>
  BY DEF vars
<1> QED BY <1>1, <1>2, <1>3, <1>4

\* Behind the wrong path of every misprediction, whatever was predicted,
\* trained and called there, the history, its folds, the return stack and the
\* learned lengths are those of a simulator that never went there, and so
\* are the direction counters unless they are to train there
\* (frontend_sim.cpp:465-475, restore).
THEOREM WrongPathLeavesNothing == Spec => []NothingLeftBehind
<1>1. WInv => NothingLeftBehind
  BY DEF WInv, Alike, NothingLeftBehind
<1> QED BY <1>1, WInvInit, WInvNext, PTL DEF Spec
----------------------------------------------------------------------------
(* What every simulator keeps, on either path: buffers that hold no more    *)
(* than they have room for, the ring of the return stack, the history and  *)
(* its folds.                                                              *)

AnySeq(L)     == \E S : L \in Seq(S)
Bounded(L, n) == AnySeq(L) /\ Len(L) <= n
RingOK(r)     == r = [s |-> r.s, top |-> r.top, cnt |-> r.cnt] /\ r.top \in 0..ras_depth-1 /\ r.cnt \in 0..ras_depth
BuffersOK(u, b) ==
  /\ Bounded(u, ubtb_entries)
  /\ b = [i \in 0..btb_sets-1 |-> b[i]] /\ \A i \in 0..btb_sets-1 : Bounded(b[i], btb_ways)

RightFolds(h, f) == \A i \in Tagged : \A w \in 1..3 : f[i][w] = FoldOf(h, Tables[i].hist, Widths(i)[w])
HistoryOK(h, f)  == h \in Seq(BOOLEAN) /\ Len(h) <= HIST_N /\ RightFolds(h, f)
SoundTage(t)     == TageOK(t) /\ HistoryOK(t.hist, t.fold) /\ t.use_alt \in 0..15
Sound(s)         == SimOK(s) /\ BuffersOK(s.ubtb, s.btb) /\ RingOK(s.ras) /\ SoundTage(s.tage)

\* One set of a buffer.
LEMMA Moved ==
  ASSUME NEW n \in Nat, NEW L, Bounded(L, n), NEW P, P \subseteq DOMAIN L, NEW x
  PROVE  /\ P # {} => Bounded(<<x>> \o Without(L, P), n)
         /\ Len(L) < n => Bounded(<<x>> \o Without(L, P), n)
<1>1. PICK S : L \in Seq(S)
  BY DEF Bounded, AnySeq
<1>2. PICK k \in Nat : k = Len(L) /\ k <= n
  BY <1>1, LenProperties DEF Bounded
<1>3. PICK R : R = Without(L, P)
  OBVIOUS
<1>4. R \in Seq(S) /\ Len(R) = IF P = {} THEN k ELSE k - 1
  <2>1. CASE P = {}
    BY <1>1, <1>2, <1>3, <2>1 DEF Without
  <2>2. CASE P # {}
    <3>1. PICK p \in 1..k : p = CHOOSE i \in P : TRUE
      BY <1>1, <1>2, <2>2, LenProperties
    <3>2. R = SubSeq(L, 1, p - 1) \o SubSeq(L, p + 1, Len(L))
      BY <1>3, <2>2, <3>1 DEF Without, RemoveAt
    <3>3. LosesOne(S, L, k, p, R)
      BY <1>1, <1>2, <3>2, Shortened
    <3>4. R \in Seq(S) /\ Len(R) = k - 1
      BY <3>3 DEF LosesOne
    <3> QED BY <2>2, <3>4
  <2> QED BY <2>1, <2>2
<1>5. P # {} => k >= 1
  BY <1>1, <1>2, LenProperties
<1>6. AnySeq(<<x>> \o R) /\ Len(<<x>> \o R) = 1 + Len(R)
  <2>1. <<x>> \in Seq(S \cup {x}) /\ R \in Seq(S \cup {x}) /\ Len(<<x>>) = 1
    <3>1. S \subseteq S \cup {x}
      OBVIOUS
    <3>2. R \in Seq(S \cup {x})
      BY <1>4, <3>1, SeqMonotonic
    <3> QED BY <3>2
  <2>2. <<x>> \o R \in Seq(S \cup {x}) /\ Len(<<x>> \o R) = 1 + Len(R)
    BY <2>1, ConcatProperties
  <2> QED BY <2>2 DEF AnySeq
<1> QED BY <1>2, <1>3, <1>4, <1>5, <1>6 DEF Bounded

LEMMA UsedBounded ==
  ASSUME NEW n \in Nat, NEW L, Bounded(L, n), NEW tag
  PROVE  Bounded(Used(L, tag), n)
<1>1. Places(L, tag) \subseteq DOMAIN L
  BY DEF Places
<1> QED BY <1>1, Moved DEF Used

LEMMA UpdatedBounded ==
  ASSUME NEW n \in Nat \ {0}, NEW L, Bounded(L, n), NEW slots, NEW tag, NEW o
  PROVE  Bounded(Updated(L, n, slots, tag, o), n)
<1>1. PICK x : Updated(L, n, slots, tag, o) = <<x>> \o Without(L, Victim(L, n, tag))
  BY DEF Updated
<1>2. PICK S : L \in Seq(S)
  BY DEF Bounded, AnySeq
<1>3. PICK k \in Nat : k = Len(L) /\ k <= n /\ DOMAIN L = 1..k
  BY <1>2, LenProperties DEF Bounded
<1>4. PICK P : P = Victim(L, n, tag)
  OBVIOUS
<1>5. P \subseteq DOMAIN L /\ (P # {} \/ k < n)
  BY <1>3, <1>4 DEF Victim, Places
<1> QED BY <1>1, <1>3, <1>4, <1>5, Moved

\* The return stack.
LEMMA RingPush ==
  ASSUME NEW r, RingOK(r), NEW addr, NEW pc
  PROVE  RingOK(ras_push(r, addr, pc))
<1>1. ras_depth \in Nat \ {0}
  BY PredictorsAssumption
<1>2. PICK a, t, n : /\ ras_push(r, addr, pc) = [s |-> a, top |-> t, cnt |-> n]
                     /\ t = (r.top + 1) % ras_depth /\ n = Least(r.cnt + 1, ras_depth)
  BY DEF ras_push
<1>3. t \in 0..ras_depth-1 /\ n \in 0..ras_depth
  <2>1. PICK i \in Int, k \in Int : i = r.top + 1 /\ k = r.cnt /\ k \in 0..ras_depth
    BY <1>1 DEF RingOK
  <2> QED BY <1>1, <1>2, <2>1 DEF Least
<1> QED BY <1>2, <1>3 DEF RingOK

LEMMA RingPop ==
  ASSUME NEW r, RingOK(r)
  PROVE  RingOK(ras_pop(r))
<1>1. ras_depth \in Nat \ {0}
  BY PredictorsAssumption
<1>2. CASE r.cnt = 0
  BY <1>2 DEF ras_pop
<1>3. CASE r.cnt # 0
  <2>1. PICK t, n : ras_pop(r) = [r EXCEPT !.top = t, !.cnt = n] /\ t = Below(r) /\ n = r.cnt - 1
    BY <1>3 DEF ras_pop, RingOK
  <2>2. t \in 0..ras_depth-1 /\ n \in 0..ras_depth
    <3>1. PICK i \in Int : i = r.top + ras_depth - 1
      BY <1>1 DEF RingOK
    <3>2. t \in 0..ras_depth-1
      BY <1>1, <2>1, <3>1 DEF Below
    <3> QED BY <1>1, <1>3, <2>1, <3>2 DEF RingOK
  <2>3. PICK p : p = ras_pop(r)
    OBVIOUS
  <2>4. p = [s |-> p.s, top |-> p.top, cnt |-> p.cnt] /\ p.top = t /\ p.cnt = n
    BY <2>1, <2>3 DEF RingOK
  <2> QED BY <2>2, <2>3, <2>4 DEF RingOK
<1> QED BY <1>2, <1>3

\* The counter that says whether new entries are to be believed.
ChoiceOK(t) == TageOK(t) /\ t.use_alt \in 0..15

LEMMA TrainedChoice ==
  ASSUME NEW t, ChoiceOK(t), NEW i, NEW pc, NEW taken
  PROVE  ChoiceOK(Trained(t, i, pc, taken))
<1>1. PICK v : Trained(t, i, pc, taken) = [t EXCEPT !.bim = v] \/ Trained(t, i, pc, taken) = [t EXCEPT !.tab = v]
  BY DEF Trained
<1> QED BY <1>1 DEF ChoiceOK, TageOK, TageFields

LEMMA CreditedChoice ==
  ASSUME NEW t, ChoiceOK(t), NEW pc, NEW taken, NEW p
  PROVE  ChoiceOK(Credited(t, pc, taken, p))
<1>1. PICK w : w = Weighed(t, pc, taken, p, DirOf(t, p.provider, pc))
  OBVIOUS
<1>2. ChoiceOK(w)
  <2>1. PICK v, a, d : /\ w = t \/ w = [t EXCEPT !.use_alt = a, !.tab = v]
                       /\ d \in {1, -1} /\ a \in {t.use_alt, Clamp(t.use_alt + d, 0, 15)}
    <3>1. PICK new, d : /\ new = Newly(Entry(t, p.provider, pc))
                        /\ d = IF p.alt_taken = taken THEN 1 ELSE -1
      OBVIOUS
    <3>2. CASE DirOf(t, p.provider, pc) = p.alt_taken
      <4>1. w = t
        BY <1>1, <3>2 DEF Weighed
      <4> QED BY <3>1, <4>1
    <3>3. CASE DirOf(t, p.provider, pc) # p.alt_taken
      <4>1. PICK v, a : /\ w = [t EXCEPT !.use_alt = a, !.tab = v]
                        /\ a = IF new THEN Clamp(t.use_alt + d, 0, 15) ELSE t.use_alt
        BY <1>1, <3>1, <3>3 DEF Weighed, ChoiceOK, TageOK, TageFields
      <4> QED BY <3>1, <4>1
    <3> QED BY <3>2, <3>3
  <2>2. a \in 0..15
    BY <2>1 DEF ChoiceOK, Clamp
  <2>3. CASE w = [t EXCEPT !.use_alt = a, !.tab = v]
    <3>1. TageOK(w) /\ w.use_alt = a
      BY <2>3 DEF ChoiceOK, TageOK, TageFields
    <3> QED BY <2>2, <3>1 DEF ChoiceOK
  <2> QED BY <2>1, <2>3
<1>3. PICK x : x = Trained(w, p.provider, pc, taken)
  OBVIOUS
<1>4. ChoiceOK(x)
  BY <1>2, <1>3, TrainedChoice
<1>5. PICK also : also = Newly(Entry(t, p.provider, pc))
  OBVIOUS
<1>6. ChoiceOK(TrainedIf(also, x, p.altprov, pc, taken))
  BY <1>4, TrainedChoice DEF TrainedIf
<1>7. ChoiceOK(Trained(t, 0, pc, taken))
  BY TrainedChoice
<1>8. Credited(t, pc, taken, p) \in {Trained(t, 0, pc, taken), TrainedIf(also, x, p.altprov, pc, taken)}
  BY <1>1, <1>3, <1>5 DEF Credited
<1> QED BY <1>6, <1>7, <1>8

LEMMA UpdateKeepsChoice ==
  ASSUME NEW t, ChoiceOK(t), NEW pc, NEW taken, NEW lucky
  PROVE  ChoiceOK(tage_update(t, pc, taken, lucky))
<1>1. PICK p, u, v : /\ p = tage_predict(t, pc) /\ u = Credited(t, pc, taken, p)
                     /\ v = Allocated(u, pc, taken, p, lucky)
  OBVIOUS
<1>2. ChoiceOK(u)
  BY <1>1, CreditedChoice
<1>3. ChoiceOK(v)
  <2>1. PICK w : v = u \/ v = [u EXCEPT !.tab = w]
    BY <1>1 DEF Allocated, TakenIn
  <2> QED BY <1>2, <2>1 DEF ChoiceOK, TageOK, TageFields
<1>4. ChoiceOK(Aged(v))
  <2>1. PICK n, w : Aged(v) = [v EXCEPT !.tick = n] \/ Aged(v) = [v EXCEPT !.tick = n, !.tab = w]
    BY DEF Aged
  <2> QED BY <1>3, <2>1 DEF ChoiceOK, TageOK, TageFields
<1> QED BY <1>1, <1>4 DEF tage_update, Learning

\* Training and a push leave a sound predictor.
LEMMA UpdateSound ==
  ASSUME NEW t, SoundTage(t), NEW pc, NEW taken, NEW lucky
  PROVE  SoundTage(tage_update(t, pc, taken, lucky))
<1>1. ChoiceOK(t)
  BY DEF SoundTage, ChoiceOK
<1>2. ChoiceOK(tage_update(t, pc, taken, lucky))
  BY <1>1, UpdateKeepsChoice
<1>3. SameHistory(t, tage_update(t, pc, taken, lucky))
  BY UpdateKeepsHistory DEF SoundTage
<1> QED BY <1>2, <1>3 DEF SoundTage, ChoiceOK, SameHistory

LEMMA PushSound ==
  ASSUME NEW t, SoundTage(t), NEW dir \in BOOLEAN, NEW u, u = push_history(t, dir)
  PROVE  SoundTage(u) /\ u.hist = Pushed(t.hist, dir)
<1>1. PICK h, f : h = t.hist /\ f = t.fold /\ h \in Seq(BOOLEAN) /\ Len(h) <= HIST_N /\ RightFolds(h, f)
  BY DEF SoundTage, HistoryOK
<1>2. PICK g : g = Pushed(h, dir)
  OBVIOUS
<1>7. PICK v : v = [i \in Tagged |-> [w \in 1..3 |-> FoldUpdate(f[i][w], g, Tables[i].hist, Widths(i)[w])]]
  OBVIOUS
<1>8. u = [t EXCEPT !.hist = g, !.fold = v]
  BY <1>1, <1>2, <1>7 DEF push_history
<1>3. /\ g \in Seq(BOOLEAN) /\ Len(g) <= HIST_N
      /\ \A i \in 0..HIST_N-2 : bit(g, i + 1) <=> bit(h, i)
  BY <1>1, <1>2, PushedBits
<1>4. ASSUME NEW i \in Tagged, NEW w \in 1..3
      PROVE  v[i][w] = FoldOf(g, Tables[i].hist, Widths(i)[w])
  <2>1. PICK L \in 1..HIST_N-1 : L = Tables[i].hist
    BY TageAssumption DEF Tagged
  <2>2. PICK T \in Nat \ {0} : T = Widths(i)[w]
    <3>1. Tables[i].idx \in Nat \ {0} /\ Tables[i].tag \in Nat \ {0, 1}
      BY TageAssumption DEF Tagged
    <3>2. w = 1 \/ w = 2 \/ w = 3
      OBVIOUS
    <3> QED BY <3>1, <3>2 DEF Widths
  <2>3. v[i][w] = FoldUpdate(FoldOf(h, L, T), g, L, T)
    <3>1. v[i][w] = FoldUpdate(f[i][w], g, L, T)
      BY <1>7, <2>1, <2>2
    <3>2. f[i][w] = FoldOf(h, L, T)
      BY <1>1, <2>1, <2>2 DEF RightFolds
    <3> QED BY <3>1, <3>2
  <2>4. HIST_N \in Nat /\ L \in Nat \ {0}
    BY TageAssumption
  <2>5. \A j \in 0..L-1 : bit(g, j + 1) <=> bit(h, j)
    <3>1. \A j \in 0..L-1 : j \in 0..HIST_N-2
      BY <2>4
    <3> QED BY <1>3, <3>1
  <2>6. FoldUpdate(FoldOf(h, L, T), g, L, T) = FoldOf(g, L, T)
    BY <2>4, <2>5, FoldFollows
  <2> QED BY <2>1, <2>2, <2>3, <2>6
<1>5. RightFolds(g, v)
  BY <1>4 DEF RightFolds
<1>6. TageOK(u) /\ u.hist = g /\ u.fold = v /\ u.use_alt = t.use_alt
  BY <1>8 DEF SoundTage, TageOK, TageFields
<1> QED BY <1>1, <1>2, <1>3, <1>5, <1>6 DEF SoundTage, HistoryOK

\* Buffers that a prediction has used, and that took a block in.
LEMMA TouchedBuffers ==
  ASSUME NEW u, NEW b, BuffersOK(u, b), NEW pc
  PROVE  BuffersOK(ubtb_touched(u, pc), btb_touched(b, pc))
<1>1. ubtb_entries \in Nat /\ btb_ways \in Nat
  BY PredictorsAssumption
<1>2. Bounded(ubtb_touched(u, pc), ubtb_entries)
  BY <1>1, UsedBounded DEF ubtb_touched, BuffersOK
<1>3. PICK i, tag, d : /\ i = btb_index(pc) /\ tag = btb_tag(pc)
                       /\ d = btb_touched(b, pc) /\ d = [b EXCEPT ![i] = Used(b[i], tag)]
  BY DEF btb_touched
<1>4. d = [k \in 0..btb_sets-1 |-> d[k]]
  BY <1>3 DEF BuffersOK
<1>5. ASSUME NEW k \in 0..btb_sets-1 PROVE Bounded(d[k], btb_ways)
  <2>1. d[k] = b[k] \/ d[k] = Used(b[k], tag)
    BY <1>3 DEF BuffersOK
  <2>2. Bounded(b[k], btb_ways)
    BY DEF BuffersOK
  <2> QED BY <1>1, <2>1, <2>2, UsedBounded
<1> QED BY <1>2, <1>3, <1>4, <1>5 DEF BuffersOK

LEMMA UpdatedBuffers ==
  ASSUME NEW u, NEW b, BuffersOK(u, b), NEW pc, NEW o
  PROVE  BuffersOK(ubtb_update(u, pc, o), btb_update(b, pc, o))
<1>1. ubtb_entries \in Nat \ {0} /\ btb_ways \in Nat \ {0}
  BY PredictorsAssumption
<1>2. Bounded(ubtb_update(u, pc, o), ubtb_entries)
  BY <1>1, UpdatedBounded DEF ubtb_update, BuffersOK
<1>3. PICK i, tag, d : /\ i = btb_index(pc) /\ tag = btb_tag(pc)
                       /\ d = btb_update(b, pc, o) /\ d = [b EXCEPT ![i] = Updated(b[i], btb_ways, btb_slots, tag, o)]
  BY DEF btb_update
<1>4. d = [k \in 0..btb_sets-1 |-> d[k]]
  BY <1>3 DEF BuffersOK
<1>5. ASSUME NEW k \in 0..btb_sets-1 PROVE Bounded(d[k], btb_ways)
  <2>1. d[k] = b[k] \/ d[k] = Updated(b[k], btb_ways, btb_slots, tag, o)
    BY <1>3 DEF BuffersOK
  <2>2. Bounded(b[k], btb_ways)
    BY DEF BuffersOK
  <2> QED BY <1>1, <2>1, <2>2, UpdatedBounded
<1> QED BY <1>2, <1>3, <1>4, <1>5 DEF BuffersOK

\* A sound simulator with new sound parts.
LEMMA SoundFrom ==
  ASSUME NEW s, Sound(s), NEW u, NEW b, BuffersOK(u, b), NEW r, RingOK(r), NEW t, SoundTage(t), NEW m, NEW l,
         NEW x, x = [ubtb |-> u, btb |-> b, ras |-> r, tage |-> t, smap |-> m, ilen |-> l]
  PROVE  Sound(x)
<1>1. x = [f \in SimFields |-> x[f]] /\ x.ubtb = u /\ x.btb = b /\ x.ras = r /\ x.tage = t
  BY DEF SimFields
<1> QED BY <1>1 DEF Sound, SimOK, SoundTage

LEMMA PredictSound ==
  ASSUME NEW s, Sound(s), NEW pc, NEW n, n = predict(s, pc).s
  PROVE  Sound(n)
<1>1. PICK u, b : u = ubtb_touched(s.ubtb, pc) /\ b = btb_touched(s.btb, pc)
  OBVIOUS
<1>2. n = [s EXCEPT !.ubtb = u, !.btb = b]
  BY <1>1 DEF predict, Sound, SimOK, SimFields
<1>3. n = [ubtb |-> u, btb |-> b, ras |-> s.ras, tage |-> s.tage, smap |-> s.smap, ilen |-> s.ilen]
  BY <1>2 DEF Sound, SimOK, SimFields
<1>4. BuffersOK(u, b) /\ RingOK(s.ras) /\ SoundTage(s.tage)
  BY <1>1, TouchedBuffers DEF Sound
<1> QED BY <1>3, <1>4, SoundFrom

LEMMA AllocatingSound ==
  ASSUME NEW s, Sound(s), NEW pc, NEW o, NEW n, n = Allocating(s, pc, o)
  PROVE  Sound(n)
<1>1. PICK u, b : u = ubtb_update(s.ubtb, pc, o) /\ b = btb_update(s.btb, pc, o)
  OBVIOUS
<1>2. n = [s EXCEPT !.ubtb = u, !.btb = b]
  BY <1>1 DEF Allocating, Sound, SimOK, SimFields
<1>3. n = [ubtb |-> u, btb |-> b, ras |-> s.ras, tage |-> s.tage, smap |-> s.smap, ilen |-> s.ilen]
  BY <1>2 DEF Sound, SimOK, SimFields
<1>4. BuffersOK(u, b) /\ RingOK(s.ras) /\ SoundTage(s.tage)
  BY <1>1, UpdatedBuffers DEF Sound
<1> QED BY <1>3, <1>4, SoundFrom

\* The parts that the right path or a wrong path gives it.
LEMMA GivenSound ==
  ASSUME NEW s, Sound(s), NEW t, SoundTage(t), NEW r, RingOK(r), NEW l, NEW n, n = Given(s, t, r, l)
  PROVE  Sound(n)
<1>1. n = [ubtb |-> s.ubtb, btb |-> s.btb, ras |-> r, tage |-> t, smap |-> s.smap, ilen |-> l]
  BY DEF Given, Sound, SimOK, SimFields
<1>2. BuffersOK(s.ubtb, s.btb)
  BY DEF Sound
<1> QED BY <1>1, <1>2, SoundFrom

LEMMA SoundParts ==
  ASSUME NEW s, Sound(s)
  PROVE  SimOK(s) /\ SoundTage(s.tage) /\ RingOK(s.ras)
BY DEF Sound

LEMMA FollowedSound ==
  ASSUME NEW s, Sound(s), NEW p, NEW n, n = Followed(s, p)
  PROVE  Sound(n)
<1>1. PICK t, r : /\ t = IF p.taken /\ p.type = "cond" THEN push_history(s.tage, TRUE) ELSE s.tage
                  /\ r = IF p.type = "call" THEN ras_push(s.ras, p.fall, p.pc)
                         ELSE IF p.type = "ret" THEN ras_pop(s.ras) ELSE s.ras
  OBVIOUS
<1>2. n = Given(s, t, r, s.ilen)
  <2>1. n = [s EXCEPT !.tage = t, !.ras = r]
    BY <1>1 DEF Followed, Sound, SimOK, SimFields
  <2> QED BY <2>1 DEF Given, Sound, SimOK, SimFields
<1>3. SoundTage(t)
  BY <1>1, SoundParts, PushSound
<1>4. RingOK(r)
  BY <1>1, SoundParts, RingPush, RingPop
<1> QED BY <1>2, <1>3, <1>4, GivenSound

LEMMA TaughtSound ==
  ASSUME NEW s, Sound(s), NEW o, NEW i, NEW lucky, NEW n, n = Taught(s, o, i, lucky)
  PROVE  Sound(n)
<1>1. CASE n = s
  BY <1>1
<1>2. CASE n # s
  <2>1. PICK t : t = tage_update(s.tage, o.br[i].pc, o.taken_idx = i, o.br[i].pc \in lucky) /\ n = [s EXCEPT !.tage = t]
    BY <1>2 DEF Taught
  <2>2. SoundTage(t)
    BY <2>1, SoundParts, UpdateSound
  <2>3. n = Given(s, t, s.ras, s.ilen)
    <3>1. SimOK(s)
      BY SoundParts
    <3>2. [s EXCEPT !.tage = t] = Given(s, t, s.ras, s.ilen)
      BY <3>1, GivenOne
    <3> QED BY <2>1, <3>2
  <2>4. RingOK(s.ras)
    BY SoundParts
  <2> QED BY <2>2, <2>3, <2>4, GivenSound
<1> QED BY <1>1, <1>2

LEMMA LearnedSound ==
  ASSUME NEW s, Sound(s), NEW b, NEW n, n = Learned(s, b)
  PROVE  Sound(n) /\ n.tage = s.tage
<1>1. CASE n = s
  BY <1>1
<1>2. CASE n # s
  <2>1. PICK l : n = [s EXCEPT !.ilen = l]
    BY <1>2 DEF Learned
  <2>2. n = Given(s, s.tage, s.ras, l)
    BY <2>1, SoundParts, GivenOne
  <2>3. n.tage = s.tage
    BY <2>1, SoundParts DEF SimOK, SimFields
  <2> QED BY <2>2, <2>3, SoundParts, GivenSound
<1> QED BY <1>1, <1>2

LEMMA NotedSound ==
  ASSUME NEW s, Sound(s), NEW b, NEW n, n = Noted(s, b)
  PROVE  Sound(n) /\ n.tage = s.tage
<1>1. PICK m : n = [s EXCEPT !.smap = m]
  BY DEF Noted
<1>2. n = [ubtb |-> s.ubtb, btb |-> s.btb, ras |-> s.ras, tage |-> s.tage, smap |-> m, ilen |-> s.ilen]
  BY <1>1 DEF Sound, SimOK, SimFields
<1>3. BuffersOK(s.ubtb, s.btb) /\ RingOK(s.ras) /\ SoundTage(s.tage)
  BY DEF Sound
<1>4. Sound(n)
  BY <1>2, <1>3, SoundFrom
<1> QED BY <1>2, <1>4

LEMMA UndoneSound ==
  ASSUME NEW s, Sound(s), NEW x, Sound(x), NEW n, n = Undone(x, s)
  PROVE  Sound(n)
<1>1. PICK t : t = restore(x.tage, s.tage) /\ n = [x EXCEPT !.tage = t, !.ras = s.ras]
  BY DEF Undone, Sound, SimOK, SimFields
<1>2. n = Given(x, t, s.ras, x.ilen)
  BY <1>1 DEF Given, Sound, SimOK, SimFields
<1>3. TageOK(t) /\ t.hist = s.tage.hist /\ t.fold = s.tage.fold /\ t.use_alt = x.tage.use_alt
  BY <1>1 DEF restore, Sound, SoundTage, TageOK, TageFields
<1>4. SoundTage(t)
  BY <1>3 DEF Sound, SoundTage
<1> QED BY <1>2, <1>4, SoundParts, GivenSound

\* A branch that was executed; only a direction moves the history.
Told(h, br, taken) == IF br.type = "cond" THEN Pushed(h, taken) ELSE h

LEMMA ResolvedSound ==
  ASSUME NEW s, Sound(s), NEW br, NEW taken \in BOOLEAN, NEW act, NEW lucky,
         NEW n, n = Resolved(s, br, taken, act, lucky)
  PROVE  Sound(n) /\ n.tage.hist = Told(s.tage.hist, br, taken)
<1>1. CASE br.type = "cond"
  <2>1. PICK t, u : /\ t = tage_update(s.tage, br.pc, taken, br.pc \in lucky) /\ u = push_history(t, taken)
                    /\ n = [s EXCEPT !.tage = u]
    BY <1>1 DEF Resolved
  <2>2. SoundTage(t) /\ t.hist = s.tage.hist
    BY <2>1, SoundParts, UpdateSound, UpdateKeepsHistory DEF SameHistory, SoundTage
  <2>3. SoundTage(u) /\ u.hist = Pushed(s.tage.hist, taken)
    BY <2>1, <2>2, PushSound
  <2>4. n = Given(s, u, s.ras, s.ilen) /\ n.tage = u
    BY <2>1, SoundParts, GivenOne DEF SimOK, SimFields
  <2> QED BY <1>1, <2>3, <2>4, SoundParts, GivenSound DEF Told
<1>2. CASE br.type = "call"
  <2>1. PICK r : RingOK(r) /\ n = [s EXCEPT !.ras = r]
    BY <1>2, SoundParts, RingPush DEF Resolved, Called
  <2>2. n = Given(s, s.tage, r, s.ilen) /\ n.tage = s.tage
    <3>1. SimOK(s)
      BY SoundParts
    <3>2. [s EXCEPT !.ras = r] = Given(s, s.tage, r, s.ilen)
      BY <3>1, GivenOne
    <3>3. n.tage = s.tage
      BY <2>1, <3>1 DEF SimOK, SimFields
    <3> QED BY <2>1, <3>2, <3>3
  <2> QED BY <1>2, <2>1, <2>2, SoundParts, GivenSound DEF Told
<1>3. CASE br.type = "ret"
  <2>1. PICK r, l : r = ras_pop(s.ras) /\ n = Given(s, s.tage, r, l)
    BY <1>3, SoundParts, ReturnedIs DEF Resolved
  <2>2. RingOK(r)
    BY <2>1, SoundParts, RingPop
  <2>3. n.tage = s.tage
    BY <2>1, SoundParts DEF Given, SimOK, SimFields
  <2> QED BY <1>3, <2>1, <2>2, <2>3, SoundParts, GivenSound DEF Told
<1>4. CASE br.type \notin {"cond", "call", "ret"}
  BY <1>4 DEF Resolved, Told
<1> QED BY <1>1, <1>2, <1>3, <1>4

\* The three loops.
LEMMA TrainedOnSound ==
  ASSUME NEW s, Sound(s), NEW o, NEW lucky, NEW n, n = TrainedOn(s, o, lucky)
  PROVE  Sound(n)
<1>1. PICK N \in Nat : N = FE_MAX_SLOTS
  BY PredictorsAssumption
<1>2. PICK f : /\ f[0] = s /\ n = f[N]
               /\ \A i \in 1..N : f[i] = Taught(f[i-1], o, i, lucky)
  BY <1>1, TrainedRounds
<1> DEFINE G == [j \in 0..N |-> Sound(f[j])]
<1>3. G[0]
  BY <1>2
<1>4. ASSUME NEW j \in 1..N, G[j-1] PROVE G[j]
  <2>1. j - 1 \in 0..N /\ j \in 0..N
    OBVIOUS
  <2>2. Sound(f[j-1])
    BY <1>4, <2>1
  <2>3. Sound(f[j])
    BY <1>2, <2>2, TaughtSound
  <2> QED BY <2>1, <2>3
<1>5. G \in [0..N -> BOOLEAN]
  BY DEF Sound
<1> HIDE DEF G
<1>6. G[N]
  <2>1. \A j \in 0..N : G[j]
    BY <1>3, <1>4, <1>5, RoundByRound
  <2> QED BY <2>1
<1> QED BY <1>2, <1>6 DEF G

LEMMA WrongBlockSound ==
  ASSUME NEW c, NEW w, Sound(w.s), NEW lucky, NEW n, n = wrongpath_block(c, w, lucky).s
  PROVE  Sound(n)
<1>1. PICK r, pc : r = predict(w.s, w.pc) /\ pc = w.pc
  OBVIOUS
<1>2. PICK known, o : known = (pc \in DOMAIN r.s.smap) /\ o = r.s.smap[pc]
  OBVIOUS
<1>3. PICK x : x = IF known /\ c.wp_train_tage THEN TrainedOn(r.s, o, lucky) ELSE r.s
  OBVIOUS
<1>4. PICK y : y = IF known /\ c.wp_train_btb THEN Allocating(x, pc, o) ELSE x
  OBVIOUS
<1>5. n = Followed(y, r.p)
  BY <1>1, <1>2, <1>3, <1>4 DEF wrongpath_block, WrongBlock
<1>6. Sound(r.s)
  BY <1>1, PredictSound
<1>7. Sound(x)
  BY <1>3, <1>6, TrainedOnSound
<1>8. Sound(y)
  BY <1>4, <1>7, AllocatingSound
<1> QED BY <1>5, <1>8, FollowedSound

LEMMA WrongPathSound ==
  ASSUME NEW c, c.D \in Nat, NEW s, Sound(s), NEW p, NEW lucky,
         NEW n, n = WrongPath(c, s, p, lucky).s
  PROVE  Sound(n)
<1>1. PICK D \in Nat : D = c.D
  OBVIOUS
<1>2. PICK f : /\ f[0].s = Followed(s, p) /\ n = Undone(f[D].s, s)
               /\ \A d \in 1..D : f[d] = wrongpath_block(c, f[d-1], lucky)
  BY <1>1, WrongRounds
<1> DEFINE G == [j \in 0..D |-> Sound(f[j].s)]
<1>3. G[0]
  <2>1. Sound(f[0].s)
    BY <1>2, FollowedSound
  <2> QED BY <2>1
<1>4. ASSUME NEW j \in 1..D, G[j-1] PROVE G[j]
  <2>1. j - 1 \in 0..D /\ j \in 0..D
    OBVIOUS
  <2>2. Sound(f[j-1].s)
    BY <1>4, <2>1
  <2>3. Sound(f[j].s)
    BY <1>2, <2>2, WrongBlockSound
  <2> QED BY <2>1, <2>3
<1>5. G \in [0..D -> BOOLEAN]
  BY DEF Sound
<1> HIDE DEF G
<1>6. G[D]
  <2>1. \A j \in 0..D : G[j]
    BY <1>3, <1>4, <1>5, RoundByRound
  <2> QED BY <2>1
<1>7. Sound(f[D].s)
  BY <1>6 DEF G
<1> QED BY <1>2, <1>7, UndoneSound

LEMMA ResolvedAtSound ==
  ASSUME NEW s, Sound(s), NEW b, NEW i, NEW act, NEW lucky, NEW n, n = ResolvedAt(s, b, i, act, lucky)
  PROVE  Sound(n)
<1>1. CASE n = s
  BY <1>1
<1>2. CASE n # s
  <2>1. PICK taken \in BOOLEAN : taken = (b.obs.taken_idx = i)
    OBVIOUS
  <2>2. PICK br : br = b.obs.br[i]
    OBVIOUS
  <2>3. n = Resolved(s, br, taken, act, lucky)
    BY <1>2, <2>1, <2>2 DEF ResolvedAt
  <2> QED BY <2>3, ResolvedSound
<1> QED BY <1>1, <1>2

\* The rounds of resolve, each one sound.
SoundSteps(s, b, lucky, f, act) ==
  /\ resolve(s, b, lucky) = f[FE_MAX_SLOTS]
  /\ act = actual_next(s, b) /\ f[0] = Before(s, b)
  /\ Sound(f[0]) /\ f[0].tage = s.tage
  /\ \A i \in 1..FE_MAX_SLOTS : f[i] = ResolvedAt(f[i-1], b, i, act, lucky)
  /\ \A i \in 0..FE_MAX_SLOTS : Sound(f[i])

\* The simulators that the update goes through, before each branch.
LEMMA ResolveSteps ==
  ASSUME NEW s, Sound(s), NEW b, NEW lucky
  PROVE  \E f, act : SoundSteps(s, b, lucky, f, act)
<1>1. PICK N \in Nat : N = FE_MAX_SLOTS
  BY PredictorsAssumption
<1>2. PICK s0, s1, l, act : /\ s0 = Learned(s, b) /\ s1 = Allocating(s0, b.pc, b.obs) /\ s1 = Before(s, b)
                            /\ l = Resolving(s, b, lucky) /\ act = actual_next(s, b)
  BY DEF Before
<1>3. Sound(s0) /\ s0.tage = s.tage
  BY <1>2, LearnedSound
<1>4. Sound(s1) /\ s1.tage = s.tage
  <2>1. PICK pc, o : s1 = Allocating(s0, pc, o)
    BY <1>2
  <2>2. Sound(s1)
    BY <1>3, <2>1, AllocatingSound
  <2>3. SimOK(s0)
    BY <1>3, SoundParts
  <2>4. s1.tage = s0.tage
    BY <2>1, <2>3, AllocatingTouches
  <2> QED BY <1>3, <2>2, <2>4
<1>5. \A k, a : Advance(l, k, a) = ResolvedAt(a, b, k, act, lucky)
  <2>1. l = [over |-> "branches", b |-> b, act |-> act, lucky |-> lucky]
    BY <1>2 DEF Resolving
  <2>2. l.over = "branches" /\ l.b = b /\ l.act = act /\ l.lucky = lucky
    BY <2>1
  <2> QED BY <2>2 DEF Advance
<1>6. PICK f : Loop(f, N, l, s1) /\ resolve(s, b, lucky) = f[N]
  BY <1>1, <1>2, ResolveRounds
<1>7. f[0] = s1
  BY <1>6 DEF Loop
<1>8. ASSUME NEW j \in 1..N PROVE f[j] = ResolvedAt(f[j-1], b, j, act, lucky)
  <2>1. j \in 0..N /\ j # 0
    OBVIOUS
  <2> QED BY <1>5, <1>6, <2>1 DEF Loop
<1> DEFINE G == [j \in 0..N |-> Sound(f[j])]
<1>9. G[0]
  BY <1>4, <1>7
<1>10. ASSUME NEW j \in 1..N, G[j-1] PROVE G[j]
  <2>1. j - 1 \in 0..N /\ j \in 0..N
    OBVIOUS
  <2>2. Sound(f[j-1])
    BY <1>10, <2>1
  <2>3. Sound(f[j])
    BY <1>8, <2>2, ResolvedAtSound
  <2> QED BY <2>1, <2>3
<1>11. G \in [0..N -> BOOLEAN]
  BY DEF Sound
<1> HIDE DEF G
<1>12. \A j \in 0..N : G[j]
  BY <1>9, <1>10, <1>11, RoundByRound
<1>13. \A j \in 0..N : Sound(f[j])
  BY <1>12 DEF G
<1>14. SoundSteps(s, b, lucky, f, act)
  BY <1>1, <1>2, <1>4, <1>6, <1>7, <1>8, <1>13 DEF SoundSteps
<1> QED BY <1>14

\* A block with its wrong path: what the update starts from has the history,
\* the stack and the lengths from before.
LEMMA RunSteps ==
  ASSUME NEW c \in FrontEndOptions, NEW s, Sound(s), NEW raw, NEW lucky,
         NEW b, b = fix_fallthru(raw), NEW n, n = RunBlock(c, s, raw, lucky).s
  PROVE  \E x : /\ Sound(x) /\ x.tage.hist = s.tage.hist /\ x.ras = s.ras /\ x.ilen = s.ilen
                /\ n = Noted(resolve(x, b, lucky), b)
<1>1. PICK r : r = predict(s, raw.pc)
  OBVIOUS
<1>2. Sound(r.s) /\ r.s.tage = s.tage /\ r.s.ras = s.ras /\ r.s.ilen = s.ilen
  BY <1>1, PredictSound, PredictTouches, SoundParts
<1>3. PICK x : n = Noted(resolve(x, b, lucky), b) /\ (x = r.s \/ x = WrongPath(c, r.s, r.p, lucky).s)
  BY <1>1 DEF RunBlock, Judged, BlockOver
<1>4. c.D \in Nat
  BY DEF FrontEndOptions
<1>5. CASE x = r.s
  BY <1>2, <1>3, <1>5
<1>6. CASE x = WrongPath(c, r.s, r.p, lucky).s
  <2>1. Sound(x)
    BY <1>2, <1>4, <1>6, WrongPathSound
  <2>2. Alike(c, r.s, x)
    BY <1>2, <1>4, <1>6, SoundParts, WrongPathIsUndone
  <2>3. x.tage.hist = s.tage.hist /\ x.ras = s.ras /\ x.ilen = s.ilen
    BY <1>2, <2>2 DEF Alike
  <2> QED BY <1>3, <2>1, <2>3
<1> QED BY <1>3, <1>5, <1>6

LEMMA RunSound ==
  ASSUME NEW c \in FrontEndOptions, NEW s, Sound(s), NEW raw, NEW lucky, NEW n, n = RunBlock(c, s, raw, lucky).s
  PROVE  Sound(n)
<1>1. PICK b : b = fix_fallthru(raw)
  OBVIOUS
<1>2. PICK x, y : Sound(x) /\ y = resolve(x, b, lucky) /\ n = Noted(y, b)
  BY <1>1, RunSteps
<1>3. Sound(y)
  <2>1. FE_MAX_SLOTS \in 0..FE_MAX_SLOTS
    BY PredictorsAssumption
  <2>2. PICK f, act : SoundSteps(x, b, lucky, f, act)
    BY <1>2, ResolveSteps
  <2> QED BY <1>2, <2>1, <2>2 DEF SoundSteps
<1> QED BY <1>2, <1>3, NotedSound
----------------------------------------------------------------------------
(* The simulator of a run. *)

Phases == phase \in {"log", "front", "again", "done"}
SInv   == case \in Cases /\ Phases /\ Sound(sim)

LEMMA FoldOfNothing == \A t : \A o \in Nat : FoldOf(<<>>, o, t) = {}
<1> SUFFICES ASSUME NEW o \in Nat, NEW t PROVE FoldOf(<<>>, o, t) = {}
  OBVIOUS
<1>1. ASSUME NEW b \in FoldOf(<<>>, o, t) PROVE FALSE
  <2>1. Odd(Cardinality(OnBit(<<>>, o, t, b)))
    BY <1>1 DEF FoldOf, OnBit, Odd
  <2>2. OnBit(<<>>, o, t, b) = {}
    BY DEF OnBit, bit
  <2>3. Cardinality({}) = 0
    BY FS_EmptySet
  <2> QED BY <2>1, <2>2, <2>3 DEF Odd
<1> QED BY <1>1

LEMMA StartIsSound == Sound(Start)
<1>1. BuffersOK(Start.ubtb, Start.btb)
  <2>1. Start.ubtb = <<>> /\ Start.btb = [i \in 0..btb_sets-1 |-> <<>>]
    BY DEF Start
  <2>2. \A n \in Nat : Bounded(<<>>, n)
    <3>1. <<>> \in Seq({}) /\ Len(<<>>) = 0
      OBVIOUS
    <3> QED BY <3>1 DEF Bounded, AnySeq
  <2> QED BY <2>1, <2>2, PredictorsAssumption DEF BuffersOK
<1>2. RingOK(Start.ras)
  BY PredictorsAssumption DEF Start, RasInit, RingOK
<1>3. SoundTage(Start.tage)
  <2>1. PICK t : t = Start.tage
    OBVIOUS
  <2>2. t = TageInit
    BY <2>1 DEF Start
  <2>3. t.hist = <<>> /\ t.fold = [i \in Tagged |-> <<{}, {}, {}>>] /\ t.use_alt = 8 /\ TageOK(t)
    BY <2>1, <2>2, StartIsOK DEF TageInit, SimOK
  <2>4. RightFolds(<<>>, t.fold)
    <3>1. SUFFICES ASSUME NEW i \in Tagged, NEW w \in 1..3
                   PROVE  t.fold[i][w] = FoldOf(<<>>, Tables[i].hist, Widths(i)[w])
      BY DEF RightFolds
    <3>2. Tables[i].hist \in Nat
      BY TageAssumption DEF Tagged
    <3>3. t.fold[i][w] = {}
      BY <2>3
    <3> QED BY <3>2, <3>3, FoldOfNothing
  <2>5. <<>> \in Seq(BOOLEAN) /\ Len(<<>>) <= HIST_N
    BY TageAssumption
  <2> QED BY <2>1, <2>3, <2>4, <2>5 DEF SoundTage, HistoryOK
<1> QED BY <1>1, <1>2, <1>3, StartIsOK DEF Sound

LEMMA SInvInit == Init => SInv
BY StartIsSound DEF Init, SInv, Phases

LEMMA SInvNext == SInv /\ [Next]_vars => SInv'
<1> SUFFICES ASSUME SInv, [Next]_vars PROVE SInv'
  OBVIOUS
<1>1. Phases'
  BY DEF SInv, Phases, Next, vars, Retire, LogEnds, Block, RanBlock, FrontEnds, Again, AgainEnds
<1>2. CASE UNCHANGED <<case, sim>>
  BY <1>1, <1>2 DEF SInv
<1>3. CASE Block
  <2>1. PICK raw, r, t : /\ RanBlock(raw, r, t) /\ r = RunBlock(case.fe, sim, raw, case.lucky)
    BY <1>3 DEF Block
  <2>2. sim' = r.s /\ case' = case
    BY <2>1 DEF RanBlock
  <2>3. PICK c \in FrontEndOptions : c = case.fe
    BY PreprocessAssumption DEF SInv
  <2>4. PICK s, n, lucky : s = sim /\ n = r.s /\ lucky = case.lucky
    OBVIOUS
  <2>5. Sound(n)
    BY <2>1, <2>3, <2>4, RunSound DEF SInv
  <2> QED BY <1>1, <2>2, <2>4, <2>5 DEF SInv
<1>4. ASSUME Next, ~Block PROVE UNCHANGED <<case, sim>>
  BY <1>4 DEF Next, Retire, LogEnds, FrontEnds, Again, AgainEnds
<1>5. UNCHANGED vars => UNCHANGED <<case, sim>>
  BY DEF vars
<1> QED BY <1>2, <1>3, <1>4, <1>5

LEMMA SoundIsRight == SInv => TypeOK /\ FoldsRight
<1> SUFFICES ASSUME SInv PROVE TypeOK /\ FoldsRight
  OBVIOUS
<1>1. PICK s : s = sim /\ Sound(s)
  BY DEF SInv
<1>2. Len(s.ubtb) <= ubtb_entries /\ \A i \in DOMAIN s.btb : Len(s.btb[i]) <= btb_ways
  <2>1. DOMAIN s.btb = 0..btb_sets-1
    BY <1>1 DEF Sound, BuffersOK
  <2> QED BY <1>1, <2>1 DEF Sound, BuffersOK, Bounded
<1>3. s.ras.cnt \in 0..ras_depth /\ s.ras.top \in 0..ras_depth-1
  BY <1>1 DEF Sound, RingOK
<1>4. /\ s.tage.use_alt \in 0..15 /\ Len(s.tage.hist) <= HIST_N
      /\ RightFolds(s.tage.hist, s.tage.fold)
  BY <1>1 DEF Sound, SoundTage, HistoryOK
<1>5. FoldsRight
  BY <1>1, <1>4 DEF FoldsRight, RightFolds
<1>6. TypeOK
  BY <1>1, <1>2, <1>3, <1>4 DEF TypeOK, SInv, Phases
<1> QED BY <1>5, <1>6
----------------------------------------------------------------------------
(* What the history remembers.                                             *)

\* Row q of p and the directions after it.
Since(rs, p, q) == {r \in Conds(rs, p) : q <= r}

LEMMA CondsAre ==
  ASSUME NEW rs, NEW p \in Nat
  PROVE  /\ IsFiniteSet(Conds(rs, p)) /\ Conds(rs, p) \subseteq 1..p
         /\ Cardinality(Conds(rs, p)) \in Nat
         /\ \A q : /\ IsFiniteSet(Since(rs, p, q)) /\ Age(rs, p, q) \in Nat
                   /\ Age(rs, p, q) = Cardinality(Since(rs, p, q))
                   /\ Age(rs, p, q) <= Cardinality(Conds(rs, p))
<1>1. IsFiniteSet(1..p)
  BY FS_Interval
<1>2. Conds(rs, p) \subseteq 1..p
  BY DEF Conds
<1>3. IsFiniteSet(Conds(rs, p)) /\ Cardinality(Conds(rs, p)) \in Nat
  BY <1>1, <1>2, FS_Subset, FS_CardinalityType
<1>4. ASSUME NEW q
      PROVE  /\ IsFiniteSet(Since(rs, p, q)) /\ Cardinality(Since(rs, p, q)) \in Nat
             /\ Cardinality(Since(rs, p, q)) <= Cardinality(Conds(rs, p))
  <2>1. Since(rs, p, q) \subseteq Conds(rs, p)
    BY DEF Since
  <2> QED BY <1>3, <2>1, FS_Subset, FS_CardinalityType
<1>5. \A q : Age(rs, p, q) = Cardinality(Since(rs, p, q))
  BY DEF Age, Since
<1> QED BY <1>2, <1>3, <1>4, <1>5

LEMMA AgeIs ==
  ASSUME NEW rs, NEW p \in Nat, NEW q, NEW T, T = Since(rs, p, q)
  PROVE  IsFiniteSet(T) /\ Age(rs, p, q) = Cardinality(T) /\ Cardinality(T) \in Nat
<1>1. /\ IsFiniteSet(Since(rs, p, q)) /\ Age(rs, p, q) \in Nat
      /\ Age(rs, p, q) = Cardinality(Since(rs, p, q))
  BY CondsAre
<1> QED BY <1>1

\* A row that is no conditional branch changes nothing.
LEMMA RecallsOn ==
  ASSUME NEW rs, NEW p \in Nat, rs[p+1].type # "cond", NEW h, Recalls(rs, p, h)
  PROVE  Recalls(rs, p + 1, h)
<1>1. Conds(rs, p + 1) = Conds(rs, p)
  <2>1. \A r : r \in 1..p+1 <=> r \in 1..p \/ r = p + 1
    OBVIOUS
  <2> QED BY <2>1 DEF Conds
<1>2. \A q : Age(rs, p + 1, q) = Age(rs, p, q)
  BY <1>1 DEF Age
<1> QED BY <1>1, <1>2 DEF Recalls

\* A conditional branch makes those before it one step older.
LEMMA CondsGrow ==
  ASSUME NEW rs, NEW p \in Nat, rs[p+1].type = "cond"
  PROVE  /\ Conds(rs, p + 1) = Conds(rs, p) \cup {p + 1}
         /\ Cardinality(Conds(rs, p + 1)) = Cardinality(Conds(rs, p)) + 1
         /\ Age(rs, p + 1, p + 1) = 1
         /\ \A q \in Conds(rs, p) : Age(rs, p + 1, q) = Age(rs, p, q) + 1
<1>1. Conds(rs, p + 1) = Conds(rs, p) \cup {p + 1}
  <2>1. \A r : r \in 1..p+1 <=> r \in 1..p \/ r = p + 1
    OBVIOUS
  <2> QED BY <2>1 DEF Conds
<1>2. p + 1 \notin Conds(rs, p)
  BY DEF Conds
<1>3. Cardinality(Conds(rs, p + 1)) = Cardinality(Conds(rs, p)) + 1
  BY <1>1, <1>2, CondsAre, FS_AddElement
<1>4. Age(rs, p + 1, p + 1) = 1
  <2>1. \A r \in Conds(rs, p) : r \in Nat /\ r <= p
    BY DEF Conds
  <2>2. Since(rs, p + 1, p + 1) = {p + 1}
    BY <1>1, <2>1 DEF Since
  <2>3. PICK m \in Nat : m = p + 1
    OBVIOUS
  <2>4. Age(rs, m, m) = Cardinality({m})
    BY <2>2, <2>3, AgeIs
  <2> QED BY <2>3, <2>4, FS_Singleton
<1>5. ASSUME NEW q \in Conds(rs, p) PROVE Age(rs, p + 1, q) = Age(rs, p, q) + 1
  <2>1. q <= p + 1
    BY DEF Conds
  <2>2. Since(rs, p + 1, q) = Since(rs, p, q) \cup {p + 1}
    BY <1>1, <2>1 DEF Since
  <2>3. p + 1 \notin Since(rs, p, q)
    BY <1>2 DEF Since
  <2>4. PICK m \in Nat : m = p + 1
    OBVIOUS
  <2>5. PICK T : T = Since(rs, p, q)
    OBVIOUS
  <2>6. IsFiniteSet(T) /\ Age(rs, p, q) = Cardinality(T) /\ Cardinality(T) \in Nat
    BY <2>5, AgeIs
  <2>7. Age(rs, m, q) = Cardinality(T \cup {m})
    BY <2>2, <2>4, <2>5, AgeIs
  <2>8. Cardinality(T \cup {m}) = Cardinality(T) + 1
    BY <2>3, <2>4, <2>5, <2>6, FS_AddElement
  <2> QED BY <2>4, <2>6, <2>7, <2>8
<1> QED BY <1>1, <1>3, <1>4, <1>5

LEMMA PushedIs ==
  ASSUME NEW h \in Seq(BOOLEAN), NEW dir \in BOOLEAN, NEW g, g = Pushed(h, dir)
  PROVE  /\ Len(g) = Least(Len(h) + 1, HIST_N) /\ g[1] = dir
         /\ \A i \in 1..Len(h) : i + 1 <= HIST_N => g[i+1] = h[i]
<1>1. HIST_N \in Nat \ {0} /\ Len(h) \in Nat
  BY TageAssumption
<1>2. PICK e : e = <<dir>> \o h
  OBVIOUS
<1>3. e \in Seq(BOOLEAN) /\ Len(e) = Len(h) + 1 /\ e[1] = dir /\ \A i \in 1..Len(h) : e[i+1] = h[i]
  BY <1>2
<1>4. PICK n \in 1..HIST_N : n = (IF Len(h) + 1 > HIST_N THEN HIST_N ELSE Len(h) + 1) /\ g = SubSeq(e, 1, n)
  BY <1>1, <1>2 DEF Pushed, Clamp
<1>5. n <= Len(e) /\ n = Least(Len(h) + 1, HIST_N)
  BY <1>1, <1>3, <1>4 DEF Least
<1>6. Len(g) = n /\ \A i \in 1..n : g[i] = e[i]
  BY <1>3, <1>4, <1>5
<1>7. ASSUME NEW i \in 1..Len(h), i + 1 <= HIST_N PROVE g[i+1] = h[i]
  <2>1. i + 1 \in 1..n
    BY <1>1, <1>4, <1>7
  <2> QED BY <1>3, <1>6, <2>1
<1> QED BY <1>3, <1>5, <1>6, <1>7

LEMMA RecallsPush ==
  ASSUME NEW rs, NEW p \in Nat, rs[p+1].type = "cond", rs[p+1].taken \in BOOLEAN,
         NEW h \in Seq(BOOLEAN), Recalls(rs, p, h), NEW g, g = Pushed(h, rs[p+1].taken)
  PROVE  Recalls(rs, p + 1, g)
<1>1. PICK m \in Nat : m = Cardinality(Conds(rs, p))
  BY CondsAre
<1>2. HIST_N \in Nat \ {0}
  BY TageAssumption
<1>3. Len(h) = Least(m, HIST_N)
  BY <1>1 DEF Recalls
<1>4. Len(g) = Least(Len(h) + 1, HIST_N) /\ g[1] = rs[p+1].taken
      /\ \A i \in 1..Len(h) : i + 1 <= HIST_N => g[i+1] = h[i]
  BY PushedIs
<1>5. Len(g) = Least(m + 1, HIST_N)
  BY <1>2, <1>3, <1>4 DEF Least
<1>6. ASSUME NEW q \in Conds(rs, p + 1), Age(rs, p + 1, q) <= HIST_N
      PROVE  g[Age(rs, p + 1, q)] = rs[q].taken
  <2>1. CASE q = p + 1
    BY <1>4, <2>1, CondsGrow
  <2>2. CASE q \in Conds(rs, p)
    <3>1. PICK a \in Nat : a = Age(rs, p, q) /\ a <= m
      BY <1>1, CondsAre
    <3>2. Age(rs, p + 1, q) = a + 1
      BY <2>2, <3>1, CondsGrow
    <3>3. a >= 1
      <4>1. q \in Since(rs, p, q)
        <5>1. q \in Nat
          BY <2>2 DEF Conds
        <5> QED BY <2>2, <5>1 DEF Since
      <4>2. PICK T : T = Since(rs, p, q)
        OBVIOUS
      <4>3. IsFiniteSet(T) /\ a = Cardinality(T)
        BY <3>1, <4>2, AgeIs
      <4>4. a # 0
        BY <4>1, <4>2, <4>3, FS_EmptySet
      <4> QED BY <4>4
    <3>4. a + 1 <= HIST_N
      BY <1>6, <3>2
    <3>5. a \in 1..Len(h)
      BY <1>2, <1>3, <3>1, <3>3, <3>4 DEF Least
    <3>6. g[a+1] = h[a]
      BY <1>4, <3>4, <3>5
    <3>7. a <= HIST_N
      BY <1>2, <3>4
    <3>8. h[a] = rs[q].taken
      BY <2>2, <3>1, <3>7 DEF Recalls
    <3> QED BY <3>2, <3>6, <3>8
  <2> QED BY <2>1, <2>2, CondsGrow
<1>7. Cardinality(Conds(rs, p + 1)) = m + 1
  BY <1>1, CondsGrow
<1> QED BY <1>5, <1>6, <1>7 DEF Recalls
----------------------------------------------------------------------------
(* The block that the front end reads.                                     *)

Reading(mine) == [over |-> "read", mine |-> mine]

\* f[j]: what has been read with the first j rows.
Reads(mine, f) ==
  /\ f[0] = <<>>
  /\ \A j \in 1..Len(mine) : f[j] = IF mine[j].type = "none" THEN f[j-1] ELSE Append(f[j-1], mine[j])

LEMMA BranchRounds ==
  ASSUME NEW mine, Len(mine) \in Nat
  PROVE  \E f : Reads(mine, f) /\ Branches(mine) = f[Len(mine)]
<1> DEFINE P(f) == f = [j \in 0..Len(mine) |->
                          IF j = 0 THEN <<>>
                          ELSE IF mine[j].type = "none" THEN f[j-1] ELSE Append(f[j-1], mine[j])]
<1>1. \A k, a : Advance(Reading(mine), k, a) = IF mine[k].type = "none" THEN a ELSE Append(a, mine[k])
  BY DEF Advance, Reading
<1>2. \A f : Loop(f, Len(mine), Reading(mine), <<>>) <=> P(f)
  BY <1>1 DEF Loop
<1>3. P(CHOOSE f : P(f))
  BY <1>2, LoopExists
<1>4. Branches(mine) = (CHOOSE f : P(f))[Len(mine)]
  BY DEF Branches
<1>5. PICK f : f = (CHOOSE g : P(g))
  OBVIOUS
<1>6. P(f)
  <2> HIDE DEF P
  <2> QED BY <1>3, <1>5
<1>7. Reads(mine, f)
  <2>1. 0 \in 0..Len(mine) /\ \A j \in 1..Len(mine) : j \in 0..Len(mine) /\ j # 0
    OBVIOUS
  <2> QED BY <1>6, <2>1 DEF Reads
<1> HIDE DEF P
<1> QED BY <1>4, <1>5, <1>7

\* k counts the branches among the first rows; brs holds them in their order.
Counts(mine, k, brs) ==
  /\ k[0] = 0 /\ Len(brs) = k[Len(mine)]
  /\ \A j \in 0..Len(mine) : k[j] \in 0..j /\ k[j] <= Len(brs)
  /\ \A j \in 1..Len(mine) : mine[j].type = "none" => k[j] = k[j-1]
  /\ \A j \in 1..Len(mine) : mine[j].type # "none" => k[j] = k[j-1] + 1 /\ brs[k[j]] = mine[j]
  /\ \A i \in 1..Len(brs) : \E j \in 1..Len(mine) : k[j] = i /\ mine[j].type # "none" /\ brs[i] = mine[j]

HasRead(S, a, j) == a \in Seq(S) /\ Len(a) <= j

\* What has been read stays when more is read.
StartsWith(b, a) == Len(a) <= Len(b) /\ \A i \in 1..Len(a) : b[i] = a[i]

LEMMA BranchesCount ==
  ASSUME NEW S, NEW mine \in Seq(S)
  PROVE  Branches(mine) \in Seq(S) /\ \E k : Counts(mine, k, Branches(mine))
<1>1. PICK n \in Nat : n = Len(mine)
  OBVIOUS
<1>2. PICK f : /\ f[0] = <<>>
               /\ \A j \in 1..n : f[j] = IF mine[j].type = "none" THEN f[j-1] ELSE Append(f[j-1], mine[j])
               /\ Branches(mine) = f[n]
  BY <1>1, BranchRounds DEF Reads
<1>3. \A j \in 1..n : mine[j] \in S
  BY <1>1
<1>4. \A j \in 0..n : f[j] \in Seq(S) /\ Len(f[j]) <= j
  <2> DEFINE G == [j \in 0..n |-> HasRead(S, f[j], j)]
  <2>1. G \in [0..n -> BOOLEAN]
    BY DEF HasRead
  <2>2. G[0]
    <3>1. HasRead(S, f[0], 0)
      BY <1>2 DEF HasRead
    <3> QED BY <3>1
  <2>3. ASSUME NEW j \in 1..n, G[j-1] PROVE G[j]
    <3>1. j - 1 \in 0..n /\ j \in 0..n
      OBVIOUS
    <3>2. HasRead(S, f[j-1], j - 1)
      BY <2>3, <3>1
    <3>3. CASE mine[j].type = "none"
      <4>1. f[j] = f[j-1]
        BY <1>2, <3>3
      <4>2. HasRead(S, f[j], j)
        BY <3>2, <4>1 DEF HasRead
      <4> QED BY <3>1, <4>2
    <3>4. CASE mine[j].type # "none"
      <4>1. PICK a, x : a = f[j-1] /\ x = mine[j] /\ a \in Seq(S) /\ x \in S /\ Len(a) <= j - 1
        BY <1>3, <3>2 DEF HasRead
      <4>2. f[j] = Append(a, x)
        BY <1>2, <3>4, <4>1
      <4>3. HasRead(S, Append(a, x), j)
        BY <4>1 DEF HasRead
      <4>4. HasRead(S, f[j], j)
        BY <4>2, <4>3
      <4> QED BY <3>1, <4>4
    <3> QED BY <3>3, <3>4
  <2> HIDE DEF G
  <2>4. \A j \in 0..n : G[j]
    BY <2>1, <2>2, <2>3, RoundByRound
  <2> QED BY <2>4 DEF G, HasRead
<1>5. ASSUME NEW i \in 0..n PROVE \A j \in i..n : StartsWith(f[j], f[i])
  <2> DEFINE G == [j \in 0..n |-> j >= i => StartsWith(f[j], f[i])]
  <2>1. G \in [0..n -> BOOLEAN]
    BY DEF StartsWith
  <2>2. ASSUME NEW j \in 0..n, j = i PROVE StartsWith(f[j], f[i])
    BY <1>4, <2>2 DEF StartsWith
  <2>3. G[0]
    <3>1. 0 >= i => i = 0
      OBVIOUS
    <3>2. 0 \in 0..n
      OBVIOUS
    <3> QED BY <2>2, <3>1, <3>2
  <2>4. ASSUME NEW j \in 1..n, G[j-1] PROVE G[j]
    <3>1. j - 1 \in 0..n /\ j \in 0..n
      OBVIOUS
    <3>2. CASE j - 1 >= i
      <4>1. StartsWith(f[j-1], f[i])
        BY <2>4, <3>1, <3>2
      <4>2. f[j-1] \in Seq(S) /\ f[i] \in Seq(S)
        BY <1>4, <3>1
      <4>3. StartsWith(f[j], f[i])
        <5>1. CASE mine[j].type = "none"
          BY <1>2, <4>1, <5>1
        <5>2. CASE mine[j].type # "none"
          <6>1. PICK x \in S : x = mine[j]
            BY <1>3
          <6>2. f[j] = Append(f[j-1], x)
            BY <1>2, <5>2, <6>1
          <6> QED BY <4>1, <4>2, <6>2 DEF StartsWith
        <5> QED BY <5>1, <5>2
      <4> QED BY <3>1, <4>3
    <3>3. CASE ~(j - 1 >= i)
      <4>1. j >= i => j = i
        BY <3>3
      <4> QED BY <2>2, <3>1, <4>1
    <3> QED BY <3>2, <3>3
  <2> HIDE DEF G
  <2>5. \A j \in 0..n : G[j]
    BY <2>1, <2>3, <2>4, RoundByRound
  <2>6. \A j \in i..n : j \in 0..n /\ j >= i
    OBVIOUS
  <2> QED BY <2>5, <2>6 DEF G
<1>6. PICK brs : brs = Branches(mine) /\ brs = f[n]
  BY <1>2
<1> DEFINE k == [j \in 0..n |-> Len(f[j])]
<1>7. \A j \in 0..n : k[j] = Len(f[j]) /\ k[j] \in 0..j
  BY <1>4
<1> HIDE DEF k
<1>8. k[0] = 0 /\ Len(brs) = k[n]
  <2>1. n \in 0..n
    OBVIOUS
  <2> QED BY <1>6, <1>7, <2>1
<1>9. \A j \in 0..n : k[j] <= Len(brs) /\ \A i \in 1..k[j] : brs[i] = f[j][i]
  <2>1. \A j \in 0..n : n \in j..n
    OBVIOUS
  <2> QED BY <1>5, <1>6, <1>7, <2>1 DEF StartsWith
<1>10. ASSUME NEW j \in 1..n
       PROVE  /\ mine[j].type = "none" => k[j] = k[j-1]
              /\ mine[j].type # "none" => k[j] = k[j-1] + 1 /\ brs[k[j]] = mine[j]
  <2>1. j - 1 \in 0..n /\ j \in 0..n
    OBVIOUS
  <2>2. mine[j].type = "none" => k[j] = k[j-1]
    BY <1>2, <1>7, <2>1
  <2>3. ASSUME mine[j].type # "none" PROVE k[j] = k[j-1] + 1 /\ brs[k[j]] = mine[j]
    <3>1. PICK a \in Seq(S), x \in S, m \in Nat : a = f[j-1] /\ x = mine[j] /\ m = Len(a)
      BY <1>3, <1>4, <2>1
    <3>2. f[j] = Append(a, x)
      BY <1>2, <2>3, <3>1
    <3>3. k[j] = k[j-1] + 1 /\ f[j][k[j]] = mine[j] /\ k[j] \in 1..k[j]
      <4>1. Len(Append(a, x)) = m + 1 /\ Append(a, x)[m + 1] = x
        BY <3>1
      <4>2. k[j] = m + 1 /\ k[j-1] = m
        BY <1>7, <2>1, <3>1, <3>2, <4>1
      <4>3. m + 1 \in 1..m+1
        BY <3>1
      <4> QED BY <3>1, <3>2, <4>1, <4>2, <4>3
    <3> QED BY <1>9, <2>1, <3>3
  <2> QED BY <2>2, <2>3
<1>11. ASSUME NEW i \in 1..Len(brs)
       PROVE  \E j \in 1..n : k[j] = i /\ mine[j].type # "none" /\ brs[i] = mine[j]
  <2> DEFINE Up == {j \in 0..n : k[j] >= i}
  <2>1. n \in Up /\ Up \in SUBSET Nat
    BY <1>8
  <2>2. PICK j \in Up : \A x \in Up : j <= x
    BY <2>1, LeastNat
  <2>3. j # 0
    BY <1>8, <2>2
  <2>4. j \in 1..n /\ j - 1 \in 0..n /\ j - 1 \notin Up
    BY <2>2, <2>3
  <2>5. k[j] \in Nat /\ k[j-1] \in Nat /\ k[j-1] < i /\ k[j] >= i
    BY <1>7, <2>2, <2>4
  <2>6. mine[j].type # "none" /\ k[j] = i
    BY <1>10, <2>4, <2>5
  <2> QED BY <1>10, <2>4, <2>6
<1>12. Counts(mine, k, brs)
  BY <1>1, <1>7, <1>8, <1>9, <1>10, <1>11 DEF Counts
<1>13. brs \in Seq(S)
  <2>1. n \in 0..n
    OBVIOUS
  <2> QED BY <1>4, <1>6, <2>1
<1> QED BY <1>6, <1>12, <1>13

\* Rows as the generator writes them: a branch that is taken ends its block,
\* and no block is longer than a fetch.
RowOK(r)   == r.taken \in BOOLEAN /\ (r.taken => r.is_block_end /\ r.type # "none")
Closes(rs) == \A i \in 1..Len(rs) : \E j \in i..Len(rs) : rs[j].is_block_end /\ j - i < fetch_width
RowsOK(rs) == AnySeq(rs) /\ (\A i \in 1..Len(rs) : RowOK(rs[i])) /\ Closes(rs)

LEMMA BlockLastIs ==
  ASSUME NEW rs, RowsOK(rs), NEW a \in 1..Len(rs), NEW z, z = BlockLast(rs, a)
  PROVE  /\ Len(rs) \in Nat /\ z \in a..Len(rs) /\ z - a < fetch_width
         /\ \A i \in a..z-1 : ~rs[i].taken
<1>1. Len(rs) \in Nat
  BY DEF RowsOK, AnySeq
<1>2. PICK E : E = {i \in a..Len(rs) :
                      rs[i].is_block_end \/ rs[i].taken \/ i - a + 1 >= max_blk_instr \/ i = Len(rs)}
  OBVIOUS
<1>3. PICK j \in a..Len(rs) : rs[j].is_block_end /\ j - a < fetch_width
  BY DEF RowsOK, Closes
<1>4. j \in E /\ E \in SUBSET Nat
  BY <1>1, <1>2, <1>3
<1>5. PICK x \in E : \A y \in E : x <= y
  BY <1>4, LeastNat
<1>6. z = Min(E)
  BY <1>2 DEF BlockLast
<1>7. z \in E /\ \A y \in E : z <= y
  BY <1>5, <1>6 DEF Min
<1>8. fetch_width \in Nat
  BY TraceGenAssumption
<1>9. z \in a..Len(rs) /\ z <= j
  BY <1>2, <1>4, <1>7
<1>10. z - a < fetch_width
  BY <1>3, <1>8, <1>9
<1>11. ASSUME NEW i \in a..z-1 PROVE ~rs[i].taken
  <2>1. i \in a..Len(rs) /\ ~(z <= i)
    BY <1>1, <1>9
  <2> QED BY <1>2, <1>7, <2>1
<1> QED BY <1>1, <1>9, <1>10, <1>11

\* What an observation o of the n rows from a on says of their branches.
Tells(rs, a, n, k, o) ==
  /\ k[0] = 0
  /\ \A j \in 0..n : k[j] \in 0..n /\ k[j] <= k[n]
  /\ \A j \in 1..n : rs[a-1+j].type = "none" => k[j] = k[j-1]
  /\ \A j \in 1..n : rs[a-1+j].type # "none" =>
       /\ k[j] = k[j-1] + 1 /\ o.br[k[j]].type = rs[a-1+j].type /\ (o.taken_idx = k[j] <=> rs[a-1+j].taken)
       /\ o.br[k[j]].pc = rs[a-1+j].pc
  /\ \A i \in 1..FE_MAX_SLOTS : i \in Executed(o) <=> i <= k[n]

\* mine: n rows from a on, of which the last one only can be taken.
Block1(mine, n, rs, a) ==
  /\ \A j \in 1..n : mine[j] = rs[a-1+j] /\ RowOK(mine[j])
  /\ \A j \in 1..n-1 : ~mine[j].taken

LEMMA ObservedTells ==
  ASSUME NEW S, NEW mine \in Seq(S), NEW n, n = Len(mine), n \in 1..FE_MAX_SLOTS, NEW rs, NEW a \in Nat,
         Block1(mine, n, rs, a),
         NEW o, NEW brs, brs = Branches(mine), o.n_br = Len(brs), o.br = Slots(brs), o.taken_idx = TakenSlot(brs)
  PROVE  \E k : Tells(rs, a, n, k, o)
<1>0. (\A j \in 1..n : mine[j] = rs[a-1+j] /\ RowOK(mine[j])) /\ (\A j \in 1..n-1 : ~mine[j].taken)
  BY DEF Block1
<1>1. FE_MAX_SLOTS \in Nat /\ n \in Nat
  BY PredictorsAssumption
<1>2. PICK k : brs \in Seq(S) /\ Counts(mine, k, brs)
  BY BranchesCount
<1>3. /\ k[0] = 0 /\ Len(brs) = k[n]
      /\ \A j \in 0..n : k[j] \in 0..j /\ k[j] <= Len(brs)
      /\ \A j \in 1..n : mine[j].type = "none" => k[j] = k[j-1]
      /\ \A j \in 1..n : mine[j].type # "none" => k[j] = k[j-1] + 1 /\ brs[k[j]] = mine[j]
      /\ \A i \in 1..Len(brs) : \E j \in 1..n : k[j] = i /\ mine[j].type # "none" /\ brs[i] = mine[j]
  BY <1>2 DEF Counts
<1>4. k[n] \in 0..n /\ DOMAIN brs = 1..k[n] /\ k[n] <= FE_MAX_SLOTS
  BY <1>1, <1>2, <1>3
<1>5. \A j \in 0..n : k[j] \in 0..n /\ k[j] <= k[n]
  BY <1>1, <1>3
<1>6. ASSUME NEW i \in 1..k[n] PROVE o.br[i].type = brs[i].type /\ o.br[i].pc = brs[i].pc /\ brs[i].type # "none"
  <2>1. i \in 1..FE_MAX_SLOTS /\ ~(i > Len(brs))
    BY <1>1, <1>3, <1>4
  <2>2. brs[i].type # "none"
    BY <1>3
  <2> QED BY <2>1, <2>2 DEF Slots
<1>7. PICK T : T = {i \in DOMAIN brs : i <= FE_MAX_SLOTS /\ brs[i].taken} /\ o.taken_idx = Max(T \cup {0})
  BY DEF TakenSlot
<1>8. ASSUME NEW i \in T PROVE i = k[n] /\ mine[n].taken
  <2>1. i \in 1..k[n] /\ brs[i].taken
    BY <1>4, <1>7
  <2>2. PICK j \in 1..n : k[j] = i /\ brs[i] = mine[j]
    BY <1>3, <2>1
  <2>3. j = n
    BY <1>0, <1>1, <2>1, <2>2
  <2> QED BY <2>1, <2>2, <2>3
<1>9. o.taken_idx = IF mine[n].taken THEN k[n] ELSE 0
  <2>1. CASE mine[n].taken
    <3>1. mine[n].type # "none"
      BY <1>0, <1>1, <2>1 DEF RowOK
    <3>2. brs[k[n]] = mine[n] /\ k[n] >= 1
      <4>1. n \in 1..n /\ n - 1 \in 0..n
        BY <1>1
      <4>2. k[n-1] \in 0..n-1 /\ k[n] = k[n-1] + 1
        BY <1>3, <3>1, <4>1
      <4> QED BY <1>3, <3>1, <4>1, <4>2
    <3>3. T = {k[n]}
      BY <1>4, <1>7, <1>8, <2>1, <3>2
    <3>4. PICK m \in Nat : m = k[n]
      BY <1>4
    <3>5. Max({m, 0}) = m
      BY DEF Max
    <3>6. T \cup {0} = {m, 0}
      BY <3>3, <3>4
    <3> QED BY <1>7, <2>1, <3>4, <3>5, <3>6
  <2>2. CASE ~mine[n].taken
    <3>1. T \cup {0} = {0}
      BY <1>8, <2>2
    <3>2. Max({0}) = 0
      BY DEF Max
    <3> QED BY <1>7, <2>2, <3>1, <3>2
  <2> QED BY <2>1, <2>2
<1>10. ASSUME NEW j \in 1..n, mine[j].type # "none" PROVE o.taken_idx = k[j] <=> mine[j].taken
  <2>1. k[j] >= 1
    <3>1. j - 1 \in 0..n
      BY <1>1
    <3>2. k[j-1] \in 0..j-1 /\ k[j] = k[j-1] + 1
      BY <1>3, <1>10, <3>1
    <3> QED BY <3>2
  <2>2. CASE j = n
    BY <1>9, <2>1, <2>2
  <2>3. CASE j # n
    <3>1. ~mine[j].taken /\ j + 1 \in 1..n
      BY <1>0, <1>1, <2>3
    <3>2. CASE mine[n].taken
      <4>1. mine[n].type # "none" /\ n \in 1..n
        BY <1>0, <1>1, <3>2 DEF RowOK
      <4>2. brs[k[n]] = mine[n] /\ brs[k[j]] = mine[j]
        BY <1>3, <1>10, <4>1
      <4>3. k[j] # k[n]
        BY <3>1, <3>2, <4>2
      <4>4. o.taken_idx # k[j]
        BY <1>9, <3>2, <4>3
      <4> QED BY <3>1, <4>4
    <3>3. CASE ~mine[n].taken
      BY <1>9, <2>1, <3>1, <3>3
    <3> QED BY <3>2, <3>3
  <2> QED BY <2>2, <2>3
<1>11. ASSUME NEW i \in 1..FE_MAX_SLOTS PROVE i \in Executed(o) <=> i <= k[n]
  <2>1. PICK last : last = IF o.taken_idx > 0 THEN o.taken_idx ELSE Least(o.n_br, FE_MAX_SLOTS)
    OBVIOUS
  <2>2. last = k[n]
    BY <1>1, <1>3, <1>4, <1>9, <2>1 DEF Least
  <2>3. i \in Executed(o) <=> i <= k[n] /\ valid(o.br[i])
    BY <1>4, <2>1, <2>2 DEF Executed
  <2>4. ASSUME i <= k[n] PROVE valid(o.br[i])
    <3>1. i \in 1..k[n]
      BY <1>1, <1>4, <2>4
    <3> QED BY <1>6, <3>1 DEF valid
  <2> QED BY <2>3, <2>4
<1>12. ASSUME NEW j \in 1..n, rs[a-1+j].type # "none"
       PROVE  /\ k[j] = k[j-1] + 1 /\ o.br[k[j]].type = rs[a-1+j].type /\ (o.taken_idx = k[j] <=> rs[a-1+j].taken)
              /\ o.br[k[j]].pc = rs[a-1+j].pc
  <2>1. mine[j] = rs[a-1+j] /\ j - 1 \in 0..n /\ j \in 0..n
    BY <1>0, <1>1
  <2>2. k[j] = k[j-1] + 1 /\ brs[k[j]] = mine[j]
    BY <1>3, <1>12, <2>1
  <2>3. k[j] \in 1..k[n]
    BY <1>5, <2>1, <2>2
  <2>4. o.br[k[j]].type = mine[j].type /\ o.br[k[j]].pc = mine[j].pc
    BY <1>6, <2>2, <2>3
  <2>5. o.taken_idx = k[j] <=> mine[j].taken
    BY <1>10, <1>12, <2>1
  <2> QED BY <2>1, <2>2, <2>4, <2>5
<1>13. \A j \in 1..n : rs[a-1+j].type = "none" => k[j] = k[j-1]
  BY <1>0, <1>3
<1>14. Tells(rs, a, n, k, o)
  BY <1>3, <1>5, <1>11, <1>12, <1>13 DEF Tells
<1> QED BY <1>14

LEMMA BlockRead ==
  ASSUME NEW rs, RowsOK(rs), NEW a \in 1..Len(rs), NEW raw, raw = read_raw(rs, a),
         NEW b, b = fix_fallthru(raw)
  PROVE  /\ raw.n_instr \in 1..Len(rs) - a + 1 /\ raw.n_instr <= FE_MAX_SLOTS
         /\ \E k : Tells(rs, a, raw.n_instr, k, b.obs)
<1>1. PICK z : z = BlockLast(rs, a)
  OBVIOUS
<1>2. /\ Len(rs) \in Nat /\ z \in a..Len(rs) /\ z - a < fetch_width
      /\ \A i \in a..z-1 : ~rs[i].taken
  BY <1>1, BlockLastIs
<1>3. PICK S : rs \in Seq(S)
  BY DEF RowsOK, AnySeq
<1>4. PICK mine, n : mine = SubSeq(rs, a, z) /\ n = z - a + 1
  OBVIOUS
<1>5. a \in Nat /\ n \in 1..Len(rs) - a + 1 /\ mine \in Seq(S) /\ n = Len(mine) /\ \A j \in 1..n : mine[j] = rs[a-1+j]
  BY <1>2, <1>3, <1>4
<1>6. n \in 1..FE_MAX_SLOTS
  <2>1. fetch_width \in Nat /\ FE_MAX_SLOTS \in Nat /\ fetch_width <= FE_MAX_SLOTS
    BY TraceGenAssumption, PredictorsAssumption, PreprocessAssumption
  <2> QED BY <1>2, <1>4, <2>1
<1>7. \A j \in 1..n : RowOK(mine[j])
  <2>1. \A j \in 1..n : a-1+j \in 1..Len(rs)
    BY <1>2, <1>4
  <2> QED BY <1>5, <2>1 DEF RowsOK
<1>8. Block1(mine, n, rs, a)
  <2>1. \A j \in 1..n-1 : a-1+j \in a..z-1 /\ j \in 1..n
    BY <1>2, <1>4
  <2>2. \A j \in 1..n-1 : ~mine[j].taken
    BY <1>2, <1>5, <2>1
  <2> QED BY <1>5, <1>7, <2>2 DEF Block1
<1>9. PICK brs : brs = Branches(mine)
  OBVIOUS
<1>10. raw = Observed(mine, brs)
  BY <1>1, <1>4, <1>9 DEF read_raw
<1>11. /\ raw.n_instr = n /\ raw.obs.n_br = Len(brs) /\ raw.obs.br = Slots(brs)
       /\ raw.obs.taken_idx = TakenSlot(brs)
  BY <1>5, <1>10 DEF Observed
<1>12. PICK o : o = b.obs
  OBVIOUS
<1>13. o.n_br = raw.obs.n_br /\ o.br = raw.obs.br /\ o.taken_idx = raw.obs.taken_idx
  <2>1. PICK e : b = [raw EXCEPT !.obs.fallthru = e]
    BY DEF fix_fallthru
  <2>2. "obs" \in DOMAIN raw
    BY <1>10 DEF Observed
  <2>3. "n_br" \in DOMAIN raw.obs /\ "br" \in DOMAIN raw.obs /\ "taken_idx" \in DOMAIN raw.obs
    BY <1>10 DEF Observed
  <2>4. o = [raw.obs EXCEPT !.fallthru = e]
    BY <1>12, <2>1, <2>2
  <2> QED BY <2>3, <2>4
<1>14. \E k : Tells(rs, a, n, k, o)
  BY <1>5, <1>6, <1>8, <1>9, <1>11, <1>13, ObservedTells
<1> QED BY <1>5, <1>6, <1>11, <1>12, <1>14

\* One row more.
LEMMA RowRemembered ==
  ASSUME NEW rs, NEW p \in Nat, RowOK(rs[p+1]), rs[p+1].type # "none", NEW h \in Seq(BOOLEAN), Recalls(rs, p, h),
         NEW br, br.type = rs[p+1].type, NEW taken \in BOOLEAN, taken <=> rs[p+1].taken,
         NEW g, g = Told(h, br, taken)
  PROVE  Recalls(rs, p + 1, g)
<1>1. rs[p+1].taken \in BOOLEAN
  BY DEF RowOK
<1>2. CASE rs[p+1].type = "cond"
  <2>1. g = Pushed(h, rs[p+1].taken)
    <3>1. taken = rs[p+1].taken
      BY <1>1
    <3> QED BY <1>2, <3>1 DEF Told
  <2> QED BY <1>1, <1>2, <2>1, RecallsPush
<1>3. CASE rs[p+1].type # "cond"
  <2>1. g = h
    BY <1>3 DEF Told
  <2> QED BY <1>3, <2>1, RecallsOn
<1> QED BY <1>2, <1>3

\* From round m on a loop changes nothing.
Settled(f, m, i) == i >= m => f[i] = f[m]

LEMMA LoopSettles ==
  ASSUME NEW N \in Nat, NEW m \in 0..N, NEW f, \A i \in 1..N : i > m => f[i] = f[i-1]
  PROVE  f[N] = f[m]
<1> DEFINE H == [i \in 0..N |-> Settled(f, m, i)]
<1>1. H \in [0..N -> BOOLEAN]
  BY DEF Settled
<1>2. H[0]
  <2>1. Settled(f, m, 0)
    BY DEF Settled
  <2> QED BY <2>1
<1>3. ASSUME NEW i \in 1..N, H[i-1] PROVE H[i]
  <2>1. i - 1 \in 0..N /\ i \in 0..N
    OBVIOUS
  <2>2. CASE i <= m
    <3>1. Settled(f, m, i)
      BY <2>2 DEF Settled
    <3> QED BY <2>1, <3>1
  <2>3. CASE ~(i <= m)
    <3>0. Settled(f, m, i - 1) /\ i - 1 >= m
      BY <1>3, <2>1, <2>3
    <3>1. f[i-1] = f[m]
      BY <3>0 DEF Settled
    <3>2. f[i] = f[i-1]
      BY <2>3
    <3>3. Settled(f, m, i)
      BY <3>1, <3>2 DEF Settled
    <3> QED BY <2>1, <3>3
  <2> QED BY <2>2, <2>3
<1> HIDE DEF H
<1>4. \A i \in 0..N : H[i]
  BY <1>1, <1>2, <1>3, RoundByRound
<1>5. N \in 0..N /\ N >= m
  OBVIOUS
<1> QED BY <1>4, <1>5 DEF H, Settled

\* What row r makes of simulator x.
ByRow(r, x, z, act, lucky) ==
  /\ r.type = "none" => z = x
  /\ r.type # "none" => \E br : \E taken \in BOOLEAN :
       /\ br.pc = r.pc /\ br.type = r.type /\ (taken <=> r.taken)
       /\ z = Resolved(x, br, taken, act, lucky)

\* The update with block b, the n rows from a on, goes through the simulators
\* h, one row after the other.
RowByRow(rs, a, n, s, b, lucky, h, y) ==
  /\ h[0] = Before(s, b) /\ h[0].tage = s.tage /\ y = h[n]
  /\ \A j \in 0..n : Sound(h[j])
  /\ \A j \in 1..n : ByRow(rs[a-1+j], h[j-1], h[j], actual_next(s, b), lucky)

LEMMA ResolveByRows ==
  ASSUME NEW rs, RowsOK(rs), NEW a \in 1..Len(rs), NEW raw, raw = read_raw(rs, a), NEW b, b = fix_fallthru(raw),
         NEW s, Sound(s), NEW lucky, NEW y, y = resolve(s, b, lucky)
  PROVE  \E h : RowByRow(rs, a, raw.n_instr, s, b, lucky, h, y)
<1>1. PICK n : n = raw.n_instr
  OBVIOUS
<1>2. PICK k : /\ n \in 1..Len(rs) - a + 1 /\ n <= FE_MAX_SLOTS
               /\ Tells(rs, a, n, k, b.obs)
  BY <1>1, BlockRead
<1>3. a \in Nat /\ n \in Nat /\ FE_MAX_SLOTS \in Nat /\ Len(rs) \in Nat
  BY <1>2, PredictorsAssumption DEF RowsOK, AnySeq
<1>4. PICK f, act : /\ resolve(s, b, lucky) = f[FE_MAX_SLOTS] /\ act = actual_next(s, b)
                    /\ f[0] = Before(s, b) /\ f[0].tage = s.tage
                    /\ \A i \in 1..FE_MAX_SLOTS : f[i] = ResolvedAt(f[i-1], b, i, act, lucky)
                    /\ \A i \in 0..FE_MAX_SLOTS : Sound(f[i])
  <2>1. PICK f, act : SoundSteps(s, b, lucky, f, act)
    BY ResolveSteps
  <2> QED BY <2>1 DEF SoundSteps
<1>5. /\ k[0] = 0
      /\ \A j \in 0..n : k[j] \in 0..n /\ k[j] <= k[n]
      /\ \A j \in 1..n : rs[a-1+j].type = "none" => k[j] = k[j-1]
      /\ \A j \in 1..n : rs[a-1+j].type # "none" =>
           /\ k[j] = k[j-1] + 1 /\ b.obs.br[k[j]].type = rs[a-1+j].type /\ (b.obs.taken_idx = k[j] <=> rs[a-1+j].taken)
           /\ b.obs.br[k[j]].pc = rs[a-1+j].pc
      /\ \A i \in 1..FE_MAX_SLOTS : i \in Executed(b.obs) <=> i <= k[n]
  BY <1>2 DEF Tells
<1>6. n \in 0..n /\ k[n] \in 0..FE_MAX_SLOTS /\ \A j \in 0..n : k[j] \in 0..FE_MAX_SLOTS
  <2>1. n \in 0..n
    BY <1>3
  <2>2. \A j \in 0..n : k[j] \in 0..FE_MAX_SLOTS
    BY <1>2, <1>3, <1>5
  <2> QED BY <2>1, <2>2
<1>7. PICK h : h = [j \in 0..n |-> f[k[j]]]
  OBVIOUS
<1>8. \A j \in 0..n : h[j] = f[k[j]]
  BY <1>7
<1>9. h[0] = Before(s, b) /\ h[0].tage = s.tage
  <2>1. 0 \in 0..n
    BY <1>3
  <2> QED BY <1>4, <1>5, <1>8, <2>1
<1>10. \A j \in 0..n : Sound(h[j])
  BY <1>4, <1>6, <1>8
<1>11. ASSUME NEW j \in 1..n PROVE ByRow(rs[a-1+j], h[j-1], h[j], act, lucky)
  <2>1. j - 1 \in 0..n /\ j \in 0..n
    BY <1>3
  <2>2. PICK r, x, z : r = rs[a-1+j] /\ x = h[j-1] /\ z = h[j] /\ x = f[k[j-1]] /\ z = f[k[j]]
    BY <1>8, <2>1
  <2>3. CASE r.type = "none"
    BY <1>5, <2>2, <2>3 DEF ByRow
  <2>4. CASE r.type # "none"
    <3>1. PICK i : i = k[j]
      OBVIOUS
    <3>2. i = k[j-1] + 1 /\ b.obs.br[i].type = r.type /\ b.obs.br[i].pc = r.pc /\ (b.obs.taken_idx = i <=> r.taken)
      BY <1>5, <2>2, <2>4, <3>1
    <3>3. i \in 1..FE_MAX_SLOTS /\ i - 1 = k[j-1] /\ i <= k[n]
      <4>1. k[j-1] \in 0..n /\ k[j] \in 0..n /\ k[j] <= k[n]
        BY <1>5, <2>1
      <4> QED BY <1>2, <1>3, <3>1, <3>2, <4>1
    <3>4. PICK br : br = b.obs.br[i]
      OBVIOUS
    <3>5. PICK taken \in BOOLEAN : taken = (b.obs.taken_idx = i)
      OBVIOUS
    <3>6. z = Resolved(x, br, taken, act, lucky)
      BY <1>4, <1>5, <2>2, <3>1, <3>3, <3>4, <3>5 DEF ResolvedAt
    <3>7. br.pc = r.pc /\ br.type = r.type /\ (taken <=> r.taken)
      BY <3>2, <3>4, <3>5
    <3> QED BY <2>2, <2>4, <3>6, <3>7 DEF ByRow
  <2> QED BY <2>3, <2>4
<1>12. y = h[n]
  <2>1. \A i \in 1..FE_MAX_SLOTS : i > k[n] => f[i] = f[i-1]
    BY <1>4, <1>5, <1>6 DEF ResolvedAt
  <2>2. f[FE_MAX_SLOTS] = f[k[n]]
    BY <1>3, <1>6, <2>1, LoopSettles
  <2> QED BY <1>4, <1>6, <1>8, <2>2
<1>13. RowByRow(rs, a, n, s, b, lucky, h, y)
  BY <1>4, <1>9, <1>10, <1>11, <1>12 DEF RowByRow
<1> QED BY <1>1, <1>13

LEMMA ResolveRemembers ==
  ASSUME NEW rs, RowsOK(rs), NEW a \in 1..Len(rs), NEW raw, raw = read_raw(rs, a), NEW b, b = fix_fallthru(raw),
         NEW s, Sound(s), Recalls(rs, a - 1, s.tage.hist), NEW lucky, NEW y, y = resolve(s, b, lucky)
  PROVE  Recalls(rs, a - 1 + raw.n_instr, y.tage.hist)
<1>1. PICK n : n = raw.n_instr
  OBVIOUS
<1>2. n \in 1..Len(rs) - a + 1 /\ a \in Nat /\ n \in Nat /\ Len(rs) \in Nat
  BY <1>1, BlockRead DEF RowsOK, AnySeq
<1>3. PICK h, act : /\ act = actual_next(s, b) /\ h[0].tage = s.tage /\ y = h[n]
                    /\ \A j \in 0..n : Sound(h[j])
                    /\ \A j \in 1..n : ByRow(rs[a-1+j], h[j-1], h[j], act, lucky)
  <2>1. PICK h : RowByRow(rs, a, n, s, b, lucky, h, y)
    BY <1>1, ResolveByRows
  <2> QED BY <2>1 DEF RowByRow
<1> DEFINE G == [j \in 0..n |-> Recalls(rs, a - 1 + j, h[j].tage.hist)]
<1>4. G \in [0..n -> BOOLEAN]
  BY DEF Recalls
<1>5. G[0]
  <2>1. h[0].tage = s.tage /\ a - 1 + 0 = a - 1
    BY <1>2, <1>3
  <2>2. Recalls(rs, a - 1 + 0, h[0].tage.hist)
    BY <2>1
  <2> QED BY <1>2, <2>2
<1>6. ASSUME NEW j \in 1..n, G[j-1] PROVE G[j]
  <2>1. j - 1 \in 0..n /\ j \in 0..n
    BY <1>2
  <2>2. PICK p \in Nat : p = a - 1 + (j - 1) /\ p + 1 = a - 1 + j /\ p + 1 \in 1..Len(rs)
    BY <1>2
  <2>3. PICK x, z : x = h[j-1] /\ z = h[j]
    OBVIOUS
  <2>4. Recalls(rs, p, x.tage.hist)
    BY <1>6, <2>1, <2>2, <2>3
  <2>5. RowOK(rs[p+1])
    BY <2>2 DEF RowsOK
  <2>6. ByRow(rs[p+1], x, z, act, lucky) /\ Sound(x)
    BY <1>3, <2>1, <2>2, <2>3
  <2>7. Recalls(rs, p + 1, z.tage.hist)
    <3>1. CASE rs[p+1].type = "none"
      <4>1. z = x
        BY <2>6, <3>1 DEF ByRow
      <4> QED BY <2>4, <3>1, <4>1, RecallsOn
    <3>2. CASE rs[p+1].type # "none"
      <4>1. PICK br : \E taken \in BOOLEAN :
                        /\ br.pc = rs[p+1].pc /\ br.type = rs[p+1].type /\ (taken <=> rs[p+1].taken)
                        /\ z = Resolved(x, br, taken, act, lucky)
        BY <2>6, <3>2 DEF ByRow
      <4>2. PICK taken \in BOOLEAN : /\ br.type = rs[p+1].type /\ (taken <=> rs[p+1].taken)
                                     /\ z = Resolved(x, br, taken, act, lucky)
        BY <4>1
      <4>3. z.tage.hist = Told(x.tage.hist, br, taken)
        BY <2>6, <4>2, ResolvedSound
      <4>4. x.tage.hist \in Seq(BOOLEAN)
        BY <2>6 DEF Sound, SoundTage, HistoryOK
      <4> QED BY <2>4, <2>5, <3>2, <4>2, <4>3, <4>4, RowRemembered
    <3> QED BY <3>1, <3>2
  <2> QED BY <2>1, <2>2, <2>3, <2>7
<1> HIDE DEF G
<1>7. \A j \in 0..n : G[j]
  BY <1>2, <1>4, <1>5, <1>6, RoundByRound
<1>8. Recalls(rs, a - 1 + n, h[n].tage.hist)
  <2>1. n \in 0..n
    BY <1>2
  <2> QED BY <1>7, <2>1 DEF G
<1> QED BY <1>1, <1>3, <1>8

LEMMA RunRemembers ==
  ASSUME NEW c \in FrontEndOptions, NEW rs, RowsOK(rs), NEW a \in 1..Len(rs), NEW raw, raw = read_raw(rs, a),
         NEW s, Sound(s), Recalls(rs, a - 1, s.tage.hist), NEW lucky, NEW n, n = RunBlock(c, s, raw, lucky).s
  PROVE  Recalls(rs, a - 1 + raw.n_instr, n.tage.hist)
<1>1. PICK b : b = fix_fallthru(raw)
  OBVIOUS
<1>2. PICK x, y : Sound(x) /\ x.tage.hist = s.tage.hist /\ y = resolve(x, b, lucky) /\ n = Noted(y, b)
  BY <1>1, RunSteps
<1>3. Recalls(rs, a - 1 + raw.n_instr, y.tage.hist)
  BY <1>1, <1>2, ResolveRemembers
<1>4. Sound(y)
  <2>1. FE_MAX_SLOTS \in 0..FE_MAX_SLOTS
    BY PredictorsAssumption
  <2>2. PICK f, act : SoundSteps(x, b, lucky, f, act)
    BY <1>2, ResolveSteps
  <2> QED BY <1>2, <2>1, <2>2 DEF SoundSteps
<1>5. n.tage = y.tage
  BY <1>2, <1>4, SoundParts DEF Noted, SimOK, SimFields
<1> QED BY <1>3, <1>5
----------------------------------------------------------------------------
(* The rows that the generator writes: a block is at most fetch_width rows,  *)
(* and nothing but its last row is a taken branch.                           *)

GenFields == {"rec", "rows", "pend", "blk", "n_fe", "n_mem", "mem_rows", "blk_mem", "n_ifetch",
              "refs", "shadow", "memwp", "cpu", "finished"}
AllRowsOK(rs) == AnySeq(rs) /\ \A i \in 1..Len(rs) : RowOK(rs[i])
Writing(rs, pend, blk) ==
  /\ RowsOK(rs) /\ AllRowsOK(pend)
  /\ AnySeq(blk) /\ Len(pend) = Len(blk) /\ Len(blk) < fetch_width
GenOK(g) == g = [f \in GenFields |-> g[f]] /\ Writing(g.rows, g.pend, g.blk)

\* g and h write the same block.
SameBlock(g, h) == h = [f \in GenFields |-> h[f]] /\ h.rows = g.rows /\ h.pend = g.pend /\ h.blk = g.blk

LEMMA RowsGrow ==
  ASSUME NEW rs, RowsOK(rs), NEW p, AllRowsOK(p), Len(p) \in 1..fetch_width, p[Len(p)].is_block_end
  PROVE  RowsOK(rs \o p)
<1>1. PICK S, T : rs \in Seq(S) /\ p \in Seq(T)
  BY DEF RowsOK, AllRowsOK, AnySeq
<1>2. rs \in Seq(S \cup T) /\ p \in Seq(S \cup T)
  BY <1>1
<1>3. PICK q, n, m : q = rs \o p /\ n = Len(rs) /\ m = Len(p)
  OBVIOUS
<1>4. /\ q \in Seq(S \cup T) /\ Len(q) = n + m /\ n \in Nat /\ m \in Nat
      /\ \A i \in 1..n : q[i] = rs[i]
      /\ \A i \in n+1..n+m : q[i] = p[i-n]
  BY <1>2, <1>3
<1>5. fetch_width \in Nat
  BY TraceGenAssumption
<1>6. ASSUME NEW i \in 1..Len(q) PROVE RowOK(q[i])
  <2>1. CASE i \in 1..n
    BY <1>3, <1>4, <2>1 DEF RowsOK
  <2>2. CASE i \notin 1..n
    <3>1. i \in n+1..n+m /\ i - n \in 1..m
      BY <1>4, <2>2
    <3> QED BY <1>3, <1>4, <3>1 DEF AllRowsOK
  <2> QED BY <2>1, <2>2
<1>7. ASSUME NEW i \in 1..Len(q) PROVE \E j \in i..Len(q) : q[j].is_block_end /\ j - i < fetch_width
  <2>1. CASE i \in 1..n
    <3>1. PICK j \in i..n : rs[j].is_block_end /\ j - i < fetch_width
      BY <1>3, <2>1 DEF RowsOK, Closes
    <3>2. j \in 1..n /\ j \in i..Len(q)
      BY <1>4, <2>1, <3>1
    <3> QED BY <1>4, <3>1, <3>2
  <2>2. CASE i \notin 1..n
    <3>1. n + m \in i..Len(q) /\ n + m \in n+1..n+m /\ n + m - n = m /\ n + m - i < fetch_width
      BY <1>3, <1>4, <1>5, <2>2
    <3>2. q[n+m].is_block_end
      BY <1>3, <1>4, <3>1
    <3>3. PICK j \in Nat : j = n + m
      BY <1>4
    <3>4. j \in i..Len(q) /\ j - i < fetch_width
      BY <1>4, <3>1, <3>3
    <3>5. q[j].is_block_end
      BY <3>2, <3>3
    <3> QED BY <3>4, <3>5
  <2> QED BY <2>1, <2>2
<1>8. AnySeq(q)
  BY <1>4 DEF AnySeq
<1> QED BY <1>3, <1>6, <1>7, <1>8 DEF RowsOK, Closes

LEMMA ShadowKeeps ==
  ASSUME NEW g, g = [f \in GenFields |-> g[f]], NEW from, NEW recs, NEW mem
  PROVE  SameBlock(g, Shadowed(g, from, recs, mem))
<1>1. PICK s, m, r : Shadowed(g, from, recs, mem) = [g EXCEPT !.shadow = s, !.memwp = m, !.refs = r]
  BY DEF Shadowed
<1> QED BY <1>1 DEF SameBlock, GenFields

LEMMA FlushOK ==
  ASSUME NEW g, g = [f \in GenFields |-> g[f]], RowsOK(g.rows), AllRowsOK(g.pend),
         Len(g.pend) \in 1..fetch_width, g.pend[Len(g.pend)].is_block_end, NEW end
  PROVE  GenOK(flush_block(g, end))
<1>1. PICK h : h = flush_block(g, end)
  OBVIOUS
<1>2. PICK a, b, c : h = [g EXCEPT !.rows = g.rows \o g.pend, !.pend = <<>>, !.blk = <<>>, !.n_fe = a,
                                   !.mem_rows = b, !.blk_mem = 0, !.n_ifetch = c]
  BY <1>1 DEF flush_block
<1>3. PICK q : q = g.rows \o g.pend
  OBVIOUS
<1>4. h = [f \in GenFields |-> h[f]] /\ h.rows = q /\ h.pend = <<>> /\ h.blk = <<>>
  BY <1>2, <1>3 DEF GenFields
<1>5. RowsOK(q)
  BY <1>3, RowsGrow
<1>6. Writing(q, <<>>, <<>>)
  <2>1. <<>> \in Seq({}) /\ Len(<<>>) = 0 /\ 0 < fetch_width
    BY TraceGenAssumption
  <2> QED BY <1>5, <2>1 DEF Writing, AllRowsOK, AnySeq
<1> QED BY <1>1, <1>4, <1>6 DEF GenOK

\* The instruction at pc joins its block.
LEMMA EmitOK ==
  ASSUME NEW g, GenOK(g), NEW instrs, NEW pc, NEW next, NEW last, NEW fe_bytes, NEW w
  PROVE  GenOK(emit(g, instrs, pc, next, last, fe_bytes, w))
<1> DEFINE d     == instrs[pc]
           taken == Ctrl(d) /\ (next # pc + d.len \/ d.kind # "cond")
           blk   == Append(g.blk, pc)
           be    == BlockEnds(d, pc, blk[1], Len(blk), next, taken) \/ last
           row   == [pc |-> pc, type |-> IF Ctrl(d) THEN d.kind ELSE "none", taken |-> taken,
                     target |-> IF Direct(d) THEN target(d) ELSE IF Ctrl(d) THEN next ELSE 0,
                     is_block_end |-> be, next_pc |-> IF last THEN 0 ELSE next]
           g1 == [g EXCEPT !.blk = blk, !.pend = Append(@, row),
                      !.rec = Append(@, Record(d.kind, be, IF g.blk = <<>> THEN 1 ELSE 0, MemDelta(g, d))),
                      !.n_mem = @ + IF Mem(d) THEN 1 ELSE 0, !.blk_mem = @ + IF Mem(d) THEN 1 ELSE 0]
           marked == g.n_fe < Len(fe_bytes) /\ fe_bytes[g.n_fe + 1].redirect
           e  == emit(g, instrs, pc, next, last, fe_bytes, w)
<1>1. e = IF ~be THEN g1
          ELSE flush_block(IF marked THEN gen_shadow(g1, instrs, d, pc, taken, w) ELSE g1, pc + d.len)
  BY DEF emit
<1>2. row.taken = taken /\ row.is_block_end = be /\ (Ctrl(d) => row.type = d.kind)
  OBVIOUS
<1>3. taken \in BOOLEAN /\ be \in BOOLEAN /\ (taken => be /\ Ctrl(d)) /\ (~be => ~(Len(blk) >= fetch_width))
  BY DEF BlockEnds
<1>4. Ctrl(d) => d.kind # "none"
  BY DEF Ctrl
<1> HIDE DEF taken, be, row
<1>5. RowOK(row)
  BY <1>2, <1>3, <1>4 DEF RowOK
<1>6. g = [f \in GenFields |-> g[f]] /\ Writing(g.rows, g.pend, g.blk)
  BY DEF GenOK
<1>7. PICK p, b, r : p = Append(g.pend, row) /\ b = blk /\ r = row
  OBVIOUS
<1>8. /\ g1 = [f \in GenFields |-> g1[f]]
      /\ g1.rows = g.rows /\ g1.pend = p /\ g1.blk = b
  BY <1>6, <1>7 DEF GenFields
<1>9. /\ AllRowsOK(p) /\ Len(p) = Len(b) /\ AnySeq(b) /\ Len(b) \in 1..fetch_width
      /\ p[Len(p)] = r
  <2>1. PICK S, T : g.pend \in Seq(S) /\ g.blk \in Seq(T)
    BY <1>6 DEF Writing, AllRowsOK, AnySeq
  <2>2. PICK o, c : o = g.pend /\ c = g.blk
    OBVIOUS
  <2>3. /\ o \in Seq(S \cup {r}) /\ c \in Seq(T \cup {pc})
        /\ p = Append(o, r) /\ b = Append(c, pc)
    BY <1>7, <2>1, <2>2
  <2>4. /\ p \in Seq(S \cup {r}) /\ b \in Seq(T \cup {pc})
        /\ Len(p) = Len(o) + 1 /\ Len(b) = Len(c) + 1 /\ Len(o) \in Nat /\ Len(c) \in Nat
        /\ p[Len(p)] = r /\ \A i \in 1..Len(o) : p[i] = o[i]
    BY <2>3
  <2>5. Len(o) = Len(c) /\ Len(c) < fetch_width /\ fetch_width \in Nat /\ \A i \in 1..Len(o) : RowOK(o[i])
    BY <1>6, <2>2, TraceGenAssumption DEF Writing, AllRowsOK
  <2>6. ASSUME NEW i \in 1..Len(p) PROVE RowOK(p[i])
    <3>1. i \in 1..Len(o) \/ i = Len(p)
      BY <2>4
    <3>2. i = Len(p) => RowOK(p[i])
      BY <1>5, <1>7, <2>4
    <3> QED BY <2>4, <2>5, <3>1, <3>2
  <2> QED BY <2>4, <2>5, <2>6 DEF AllRowsOK, AnySeq
<1>10. PICK h : h = g1
  OBVIOUS
<1> HIDE DEF g1
<1>11. CASE ~be
  <2>1. e = h
    BY <1>1, <1>10, <1>11
  <2>2. fetch_width \in Nat /\ Len(b) < fetch_width
    BY <1>3, <1>7, <1>9, <1>11, TraceGenAssumption
  <2>3. Writing(h.rows, h.pend, h.blk)
    BY <1>6, <1>8, <1>9, <1>10, <2>2 DEF Writing
  <2> QED BY <1>8, <1>10, <2>1, <2>3 DEF GenOK
<1>12. CASE be
  <2>1. PICK x : x = IF marked THEN gen_shadow(g1, instrs, d, pc, taken, w) ELSE g1
    OBVIOUS
  <2>2. SameBlock(h, x)
    <3>1. CASE marked
      <4>1. PICK from, recs, mem : x = Shadowed(h, from, recs, mem)
        BY <1>10, <2>1, <3>1 DEF gen_shadow
      <4>2. h = [f \in GenFields |-> h[f]]
        BY <1>8, <1>10
      <4> QED BY <4>1, <4>2, ShadowKeeps
    <3>2. CASE ~marked
      <4>1. x = h
        BY <1>10, <2>1, <3>2
      <4> QED BY <1>8, <1>10, <4>1 DEF SameBlock
    <3> QED BY <3>1, <3>2
  <2>3. x = [f \in GenFields |-> x[f]] /\ x.rows = g.rows /\ x.pend = p
    BY <1>8, <1>10, <2>2 DEF SameBlock
  <2>4. RowsOK(x.rows) /\ AllRowsOK(x.pend) /\ Len(x.pend) \in 1..fetch_width
    BY <1>6, <1>9, <2>3 DEF Writing
  <2>5. x.pend[Len(x.pend)].is_block_end
    BY <1>2, <1>7, <1>9, <1>12, <2>3
  <2>6. PICK end : e = flush_block(x, end)
    BY <1>1, <1>12, <2>1
  <2> QED BY <2>3, <2>4, <2>5, <2>6, FlushOK
<1> QED BY <1>3, <1>11, <1>12

LEMMA CpuKeeps ==
  ASSUME NEW g, GenOK(g), NEW x, NEW h, h = [g EXCEPT !.cpu = x] \/ h = [g EXCEPT !.finished = x]
  PROVE  GenOK(h)
<1>1. g = [f \in GenFields |-> g[f]] /\ Writing(g.rows, g.pend, g.blk)
  BY DEF GenOK
<1>2. h = [f \in GenFields |-> h[f]] /\ h.rows = g.rows /\ h.pend = g.pend /\ h.blk = g.blk
  BY <1>1 DEF GenFields
<1> QED BY <1>1, <1>2 DEF GenOK

LEMMA HeaderOK ==
  ASSUME NEW g, GenOK(g), NEW instrs, NEW pcs, NEW k, NEW o, NEW fe_bytes, NEW w
  PROVE  GenOK(header(g, instrs, pcs, k, o, fe_bytes, w))
<1>1. PICK x, last, e : /\ header(g, instrs, pcs, k, o, fe_bytes, w) = [x EXCEPT !.cpu = k - 1]
                        /\ e = emit(g, instrs, pcs[k-2], pcs[k-1], last, fe_bytes, w)
                        /\ (x = g \/ x = [e EXCEPT !.finished = last])
  BY DEF header
<1>2. GenOK(e)
  BY <1>1, EmitOK
<1>3. GenOK(x)
  BY <1>1, <1>2, CpuKeeps
<1>4. PICK h, c : h = header(g, instrs, pcs, k, o, fe_bytes, w) /\ h = [x EXCEPT !.cpu = c]
  BY <1>1
<1> QED BY <1>3, <1>4, CpuKeeps

LEMMA DrainOK ==
  ASSUME NEW g, GenOK(g), NEW instrs, NEW pcs, NEW fe_bytes, NEW w
  PROVE  GenOK(drain(g, instrs, pcs, fe_bytes, w))
<1>1. PICK n, g1 : /\ n = Len(pcs)
                   /\ g1 = g \/ g1 = emit(g, instrs, pcs[n-1], pcs[n], FALSE, fe_bytes, w)
                   /\ \/ drain(g, instrs, pcs, fe_bytes, w) = g
                      \/ drain(g, instrs, pcs, fe_bytes, w)
                           = emit(g1, instrs, pcs[n], pcs[n] + instrs[pcs[n]].len, TRUE, fe_bytes, w)
  BY DEF drain
<1>2. GenOK(g1)
  BY <1>1, EmitOK
<1> QED BY <1>1, <1>2, EmitOK

LEMMA GenStarts == GenOK(GenInit)
<1>1. PICK g : g = GenInit
  OBVIOUS
<1>2. g = [f \in GenFields |-> g[f]] /\ g.rows = <<>> /\ g.pend = <<>> /\ g.blk = <<>>
  BY <1>1 DEF GenInit, GenFields
<1>3. <<>> \in Seq({}) /\ Len(<<>>) = 0 /\ 0 < fetch_width
  BY TraceGenAssumption
<1>4. Writing(<<>>, <<>>, <<>>)
  BY <1>3 DEF Writing, RowsOK, AllRowsOK, Closes, AnySeq
<1> QED BY <1>1, <1>2, <1>4 DEF GenOK
----------------------------------------------------------------------------
(* The history of a run. *)

\* How many rows the front end has read.
PastLen == IF phase = "front" THEN at - 1 ELSE Len(rows)

\* The first run writes good rows; the front end reads them in order.
Reader ==
  /\ phase = "log" => rows = <<>> /\ at = 1 /\ GenOK(gen)
  /\ phase = "front" => at \in 1..Len(rows)+1
HInv == SInv /\ Reader /\ RowsOK(rows) /\ Recalls(rows, PastLen, sim.tage.hist)

LEMMA NothingRead == ASSUME NEW rs, NEW h PROVE Recalls(rs, 0, h) <=> Len(h) = 0
<1>1. Conds(rs, 0) = {}
  BY DEF Conds
<1>2. Cardinality({}) = 0 /\ Least(0, HIST_N) = 0
  BY FS_EmptySet, TageAssumption DEF Least
<1> QED BY <1>1, <1>2 DEF Recalls

LEMMA HInvInit == Init => HInv
<1> SUFFICES ASSUME Init PROVE HInv
  OBVIOUS
<1>1. rows = <<>> /\ phase = "log" /\ at = 1 /\ gen = GenInit /\ sim = Start
  BY DEF Init
<1>2. RowsOK(rows) /\ Len(rows) = 0
  <2>1. <<>> \in Seq({}) /\ Len(<<>>) = 0
    OBVIOUS
  <2> QED BY <1>1, <2>1 DEF RowsOK, Closes, AnySeq
<1>3. PICK h : h = sim.tage.hist /\ Len(h) = 0
  <2>1. PICK t : t = Start.tage
    OBVIOUS
  <2>2. t = TageInit
    BY <2>1 DEF Start
  <2>3. t.hist = <<>>
    BY <2>2 DEF TageInit
  <2> QED BY <1>1, <2>1, <2>3
<1>4. PastLen = 0
  BY <1>1, <1>2 DEF PastLen
<1>5. Recalls(rows, PastLen, h)
  BY <1>3, <1>4, NothingRead
<1> QED BY <1>1, <1>2, <1>3, <1>5, SInvInit, GenStarts DEF HInv, Reader

LEMMA HInvBlock ==
  ASSUME HInv, Block
  PROVE  at' \in 1..Len(rows)+1 /\ Recalls(rows, at' - 1, sim'.tage.hist)
<1>1. phase = "front" /\ at <= Len(rows)
  BY DEF Block
<1>2. PICK raw, r, t : RanBlock(raw, r, t) /\ raw = read_raw(rows, at) /\ r = RunBlock(case.fe, sim, raw, case.lucky)
  BY DEF Block
<1>3. PICK c \in FrontEndOptions : c = case.fe
  BY PreprocessAssumption DEF HInv, SInv
<1>4. PICK s, n, lucky, rs, a, i : s = sim /\ n = r.s /\ lucky = case.lucky /\ rs = rows /\ a = at /\ i = raw.n_instr
  OBVIOUS
<1>5. Len(rs) \in Nat /\ RowsOK(rs) /\ a \in 1..Len(rs)
  BY <1>1, <1>4 DEF HInv, Reader, RowsOK, AnySeq
<1>6. Sound(s) /\ Recalls(rs, a - 1, s.tage.hist)
  BY <1>1, <1>4 DEF HInv, SInv, PastLen
<1>7. PICK b : b = fix_fallthru(raw)
  OBVIOUS
<1>8. i \in 1..Len(rs) - a + 1
  BY <1>2, <1>4, <1>5, <1>7, BlockRead
<1>9. Recalls(rs, a - 1 + i, n.tage.hist)
  BY <1>2, <1>3, <1>4, <1>5, <1>6, RunRemembers
<1>10. at' = a + i /\ sim' = n
  BY <1>2, <1>4 DEF RanBlock
<1>11. at' - 1 = a - 1 + i /\ at' \in 1..Len(rs)+1
  BY <1>5, <1>8, <1>10
<1> QED BY <1>4, <1>9, <1>10, <1>11

LEMMA HInvNext == HInv /\ [Next]_vars => HInv'
<1> SUFFICES ASSUME HInv, [Next]_vars PROVE HInv'
  OBVIOUS
<1>1. SInv'
  BY SInvNext DEF HInv
<1>2. PICK h : h = sim.tage.hist
  OBVIOUS
<1>3. ASSUME NEW pc, Retire(pc) PROVE HInv'
  <2>1. phase = "log" /\ UNCHANGED <<phase, rows, at, sim>>
    BY <1>3 DEF Retire
  <2>2. PICK g, i, o, w : gen' = header(g, i, log', Len(log'), o, <<>>, w) /\ g = gen
    BY <1>3 DEF Retire
  <2>3. GenOK(gen')
    BY <2>1, <2>2, HeaderOK DEF HInv, Reader
  <2>4. PastLen' = PastLen
    BY <2>1 DEF PastLen
  <2> QED BY <1>1, <2>1, <2>3, <2>4 DEF HInv, Reader
<1>4. CASE LogEnds
  <2>1. phase = "log" /\ phase' = "front" /\ rows' = gen'.rows /\ UNCHANGED <<at, sim>>
    BY <1>4 DEF LogEnds
  <2>2. PICK g, i, w : gen' = drain(g, i, log, <<>>, w) /\ g = gen
    BY <1>4 DEF LogEnds
  <2>3. GenOK(gen')
    BY <2>1, <2>2, DrainOK DEF HInv, Reader
  <2>4. PICK rs : rs = rows' /\ RowsOK(rs) /\ Len(rs) \in Nat
    <3>1. RowsOK(rows')
      BY <2>1, <2>3 DEF GenOK, Writing
    <3> QED BY <3>1 DEF RowsOK, AnySeq
  <2>5. at' = 1 /\ PastLen' = 0 /\ rows = <<>> /\ PastLen = 0
    BY <2>1 DEF HInv, Reader, PastLen
  <2>6. Recalls(rows, 0, h)
    BY <1>2, <2>5 DEF HInv
  <2>7. Recalls(rs, 0, h)
    BY <2>6, NothingRead
  <2>8. sim'.tage.hist = h
    BY <1>2, <2>1
  <2> QED BY <1>1, <2>1, <2>4, <2>5, <2>7, <2>8 DEF HInv, Reader
<1>5. CASE Block
  <2>1. phase' = "front" /\ rows' = rows
    BY <1>5 DEF Block, RanBlock
  <2>2. at' \in 1..Len(rows)+1 /\ Recalls(rows, at' - 1, sim'.tage.hist)
    BY <1>5, HInvBlock
  <2>3. PastLen' = at' - 1
    BY <2>1 DEF PastLen
  <2> QED BY <1>1, <2>1, <2>2, <2>3 DEF HInv, Reader
<1>6. CASE FrontEnds
  <2>1. phase = "front" /\ phase' = "again" /\ at > Len(rows) /\ UNCHANGED <<rows, sim>>
    BY <1>6 DEF FrontEnds
  <2>2. at \in 1..Len(rows)+1 /\ Len(rows) \in Nat
    BY <2>1 DEF HInv, Reader, RowsOK, AnySeq
  <2>3. PastLen' = PastLen
    BY <2>1, <2>2 DEF PastLen
  <2> QED BY <1>1, <2>1, <2>3 DEF HInv, Reader
<1>7. CASE Again \/ AgainEnds
  <2>1. phase = "again" /\ phase' \in {"again", "done"} /\ UNCHANGED <<rows, sim>>
    BY <1>7 DEF Again, AgainEnds
  <2>2. PastLen' = PastLen
    BY <2>1 DEF PastLen
  <2> QED BY <1>1, <2>1, <2>2 DEF HInv, Reader
<1>8. CASE UNCHANGED vars
  <2>1. UNCHANGED <<phase, rows, at, gen, sim>>
    BY <1>8 DEF vars
  <2>2. PastLen' = PastLen
    BY <2>1 DEF PastLen
  <2> QED BY <1>1, <2>1, <2>2 DEF HInv, Reader
<1> QED BY <1>3, <1>4, <1>5, <1>6, <1>7, <1>8 DEF Next

LEMMA HInvIsExact == HInv => FoldsExact
<1> SUFFICES ASSUME HInv PROVE FoldsExact
  OBVIOUS
<1>1. TypeOK /\ FoldsRight
  BY SoundIsRight DEF HInv
<1>2. PICK S : rows \in Seq(S)
  BY DEF HInv, RowsOK, AnySeq
<1>3. PICK n : n = PastLen
  OBVIOUS
<1>4. n \in 0..Len(rows)
  BY <1>2, <1>3 DEF HInv, Reader, PastLen
<1>5. Past = SubSeq(rows, 1, n)
  BY <1>3 DEF Past, PastLen
<1>6. Len(Past) = PastLen
  BY <1>2, <1>3, <1>4, <1>5
<1> QED BY <1>1, <1>6 DEF HInv, FoldsExact

\* What the history remembers: at every block the history of the simulator is
\* the outcomes of the conditional branches of the rows read so far, the last
\* HIST_N of them, whatever was predicted, whatever wrong path was followed and
\* undone (predictors.hpp:226-246, frontend_sim.cpp:715-867), and every
\* incremental fold is the fold of that history.
THEOREM FoldsStayExact == Spec => []FoldsExact
BY HInvInit, HInvNext, HInvIsExact, PTL DEF Spec
----------------------------------------------------------------------------
(* The calls that are open.                                                *)

Opening(p, pcs) == [over |-> "open", p |-> p, pcs |-> pcs]

\* f[j]: what is open after the first j instructions.
Opens(p, pcs, f) == f[0] = <<>> /\ \A j \in 1..Len(pcs) : f[j] = Through(p, f[j-1], pcs[j])

LEMMA OpenRounds ==
  ASSUME NEW p, NEW pcs, Len(pcs) \in Nat
  PROVE  \E f : Opens(p, pcs, f) /\ OpenAfter(p, pcs) = f[Len(pcs)]
<1> DEFINE P(f) == f = [j \in 0..Len(pcs) |-> IF j = 0 THEN <<>> ELSE Through(p, f[j-1], pcs[j])]
<1>1. \A k, a : Advance(Opening(p, pcs), k, a) = Through(p, a, pcs[k])
  BY DEF Advance, Opening
<1>2. \A f : Loop(f, Len(pcs), Opening(p, pcs), <<>>) <=> P(f)
  BY <1>1 DEF Loop
<1>3. P(CHOOSE f : P(f))
  BY <1>2, LoopExists
<1>4. OpenAfter(p, pcs) = (CHOOSE f : P(f))[Len(pcs)]
  BY DEF OpenAfter
<1>5. PICK f : f = (CHOOSE g : P(g))
  OBVIOUS
<1>6. P(f)
  <2> HIDE DEF P
  <2> QED BY <1>3, <1>5
<1>7. Opens(p, pcs, f)
  <2>1. 0 \in 0..Len(pcs) /\ \A j \in 1..Len(pcs) : j \in 0..Len(pcs) /\ j # 0
    OBVIOUS
  <2> QED BY <1>6, <2>1 DEF Opens
<1> HIDE DEF P
<1> QED BY <1>4, <1>5, <1>7

\* a is how b begins.
Begins(a, b) == Len(a) \in Nat /\ Len(b) \in Nat /\ Len(a) <= Len(b) /\ \A i \in 1..Len(a) : a[i] = b[i]

\* The rounds over b are those over a as far as a goes.
LEMMA OpenPrefix ==
  ASSUME NEW p, NEW a, NEW b, Begins(a, b), NEW g, Opens(p, b, g)
  PROVE  OpenAfter(p, a) = g[Len(a)]
<1>1. PICK n \in Nat : n = Len(a) /\ n <= Len(b) /\ Len(b) \in Nat
  BY DEF Begins
<1>2. PICK f : Opens(p, a, f) /\ OpenAfter(p, a) = f[n]
  BY <1>1, OpenRounds
<1> DEFINE G == [j \in 0..n |-> f[j] = g[j]]
<1>3. G \in [0..n -> BOOLEAN]
  OBVIOUS
<1>4. G[0]
  <2>1. 0 \in 0..n /\ f[0] = g[0]
    BY <1>2 DEF Opens
  <2> QED BY <2>1
<1>5. ASSUME NEW j \in 1..n, G[j-1] PROVE G[j]
  <2>1. j - 1 \in 0..n /\ j \in 0..n /\ j \in 1..Len(b) /\ a[j] = b[j]
    BY <1>1 DEF Begins
  <2>2. f[j-1] = g[j-1]
    BY <1>5, <2>1
  <2>3. f[j] = Through(p, f[j-1], a[j]) /\ g[j] = Through(p, g[j-1], b[j])
    BY <1>1, <1>2, <2>1 DEF Opens
  <2> QED BY <2>1, <2>2, <2>3
<1> HIDE DEF G
<1>6. \A j \in 0..n : G[j]
  BY <1>3, <1>4, <1>5, RoundByRound
<1>7. n \in 0..n
  OBVIOUS
<1> QED BY <1>1, <1>2, <1>6, <1>7 DEF G

\* One instruction more, and none.
LEMMA OpenOne ==
  ASSUME NEW p, NEW a, NEW b, Begins(a, b), Len(b) = Len(a) + 1
  PROVE  OpenAfter(p, b) = Through(p, OpenAfter(p, a), b[Len(b)])
<1>1. PICK n \in Nat : n = Len(b) /\ n \in 1..n /\ Len(a) = n - 1
  BY DEF Begins
<1>2. PICK g : Opens(p, b, g) /\ OpenAfter(p, b) = g[n]
  BY <1>1, OpenRounds
<1>3. OpenAfter(p, a) = g[n-1]
  BY <1>1, <1>2, OpenPrefix
<1> QED BY <1>1, <1>2, <1>3 DEF Opens

LEMMA OpenSame ==
  ASSUME NEW p, NEW a, NEW b, Begins(a, b), Len(b) = Len(a)
  PROVE  OpenAfter(p, b) = OpenAfter(p, a)
<1>1. PICK g : Opens(p, b, g) /\ OpenAfter(p, b) = g[Len(b)]
  BY OpenRounds DEF Begins
<1> QED BY <1>1, OpenPrefix

LEMMA NothingOpen == \A p : OpenAfter(p, <<>>) = <<>>
<1> SUFFICES ASSUME NEW p PROVE OpenAfter(p, <<>>) = <<>>
  OBVIOUS
<1>1. Len(<<>>) = 0
  OBVIOUS
<1> QED BY <1>1, OpenRounds DEF Opens

LEMMA ThroughType ==
  ASSUME NEW S, NEW p, NEW s \in Seq(S), NEW pc \in S
  PROVE  Through(p, s, pc) \in Seq(S)
BY DEF Through, Front

AreAll(S, s) == s \in Seq(S)

LEMMA OpenType ==
  ASSUME NEW S, NEW p, NEW pcs \in Seq(S)
  PROVE  OpenAfter(p, pcs) \in Seq(S)
<1>1. PICK n \in Nat : n = Len(pcs)
  OBVIOUS
<1>2. PICK f : Opens(p, pcs, f) /\ OpenAfter(p, pcs) = f[n]
  BY <1>1, OpenRounds
<1> DEFINE G == [j \in 0..n |-> AreAll(S, f[j])]
<1>3. G \in [0..n -> BOOLEAN]
  BY DEF AreAll
<1>4. G[0]
  <2>1. AreAll(S, f[0])
    BY <1>2 DEF Opens, AreAll
  <2> QED BY <2>1
<1>5. ASSUME NEW j \in 1..n, G[j-1] PROVE G[j]
  <2>1. j - 1 \in 0..n /\ j \in 0..n
    OBVIOUS
  <2>2. AreAll(S, f[j-1])
    BY <1>5, <2>1
  <2>3. PICK s \in Seq(S), pc \in S : s = f[j-1] /\ pc = pcs[j]
    BY <1>1, <2>2 DEF AreAll
  <2>4. f[j] = Through(p, s, pc)
    BY <1>1, <1>2, <2>3 DEF Opens
  <2>5. Through(p, s, pc) \in Seq(S)
    BY ThroughType
  <2>6. AreAll(S, f[j])
    BY <2>4, <2>5 DEF AreAll
  <2> QED BY <2>1, <2>6
<1> HIDE DEF G
<1>6. \A j \in 0..n : G[j]
  BY <1>3, <1>4, <1>5, RoundByRound
<1>7. n \in 0..n
  OBVIOUS
<1> QED BY <1>2, <1>6, <1>7 DEF G, AreAll

\* The j-th entry of the ring below its top.
At(r, j)      == (r.top + ras_depth - j) % ras_depth
FromTop(r, j) == r.s[At(r, j)]

LEMMA AtIs ==
  ASSUME NEW d \in Nat \ {0}, NEW t \in 0..d-1, NEW j \in 0..d
  PROVE  (t + d - j) % d = IF j <= t THEN t - j ELSE t + d - j
<1>1. PICK x \in Int : x = t + d - j /\ -d <= x /\ x < 2 * d
  OBVIOUS
<1>2. /\ 0 <= x /\ x < d => x % d = x
      /\ d <= x => x % d = x - d
  BY <1>1, ModWraps
<1>3. CASE j <= t
  BY <1>1, <1>2, <1>3
<1>4. CASE ~(j <= t)
  BY <1>1, <1>2, <1>4
<1> QED BY <1>3, <1>4

\* One place on, and one back.
TurnedOn(d, t, x) ==
  /\ x \in 0..d-1 /\ (x + d - 1) % d = t
  /\ \A j \in 1..d-1 : (x + d - (j + 1)) % d = (t + d - j) % d /\ (t + d - j) % d # t

LEMMA TurnOn ==
  ASSUME NEW d \in Nat \ {0}, NEW t \in 0..d-1, NEW x, x = (t + 1) % d
  PROVE  TurnedOn(d, t, x)
<1>1. PICK y \in Int : y = t + 1 /\ -d <= y /\ y < 2 * d /\ 0 <= y
  OBVIOUS
<1>2. y < d => y % d = y
  BY <1>1, ModWraps
<1>3. d <= y => y % d = y - d
  BY <1>1, ModWraps
<1>4. x = IF t + 1 < d THEN t + 1 ELSE 0
  BY <1>1, <1>2, <1>3
<1>5. x \in 0..d-1 /\ \A j \in 1..d : j \in 0..d
  BY <1>4
<1>6. \A j \in 1..d : (x + d - j) % d = IF j <= x THEN x - j ELSE x + d - j
  BY <1>5, AtIs
<1>7. \A j \in 1..d : (t + d - j) % d = IF j <= t THEN t - j ELSE t + d - j
  BY <1>5, AtIs
<1>8. (x + d - 1) % d = t
  <2>1. 1 \in 1..d
    OBVIOUS
  <2>2. (x + d - 1) % d = IF 1 <= x THEN x - 1 ELSE x + d - 1
    BY <1>6, <2>1
  <2> QED BY <1>4, <2>2
<1>9. ASSUME NEW j \in 1..d-1
      PROVE  (x + d - (j + 1)) % d = (t + d - j) % d /\ (t + d - j) % d # t
  <2>1. PICK i \in Int : i = j + 1 /\ i \in 1..d /\ j \in 1..d
    OBVIOUS
  <2>2. (x + d - i) % d = IF i <= x THEN x - i ELSE x + d - i
    BY <1>6, <2>1
  <2>3. (t + d - j) % d = IF j <= t THEN t - j ELSE t + d - j
    BY <1>7, <2>1
  <2>4. (t + d - j) % d # t
    BY <2>3
  <2>5. (IF i <= x THEN x - i ELSE x + d - i) = IF j <= t THEN t - j ELSE t + d - j
    BY <1>4, <2>1
  <2> QED BY <2>1, <2>2, <2>3, <2>4, <2>5
<1> QED BY <1>5, <1>8, <1>9 DEF TurnedOn

LEMMA TurnBack ==
  ASSUME NEW d \in Nat \ {0}, NEW t \in 0..d-1, NEW x, x = (t + d - 1) % d
  PROVE  x \in 0..d-1 /\ \A j \in 1..d-1 : (x + d - j) % d = (t + d - (j + 1)) % d
<1>1. x = IF 1 <= t THEN t - 1 ELSE t + d - 1
  <2>1. 1 \in 0..d
    OBVIOUS
  <2> QED BY <2>1, AtIs
<1>2. x \in 0..d-1
  BY <1>1
<1>3. ASSUME NEW j \in 1..d-1 PROVE (x + d - j) % d = (t + d - (j + 1)) % d
  <2>1. PICK i \in Int : i = j + 1 /\ i \in 0..d /\ j \in 0..d
    OBVIOUS
  <2>2. (x + d - j) % d = IF j <= x THEN x - j ELSE x + d - j
    BY <1>2, <2>1, AtIs
  <2>3. (t + d - i) % d = IF i <= t THEN t - i ELSE t + d - i
    BY <2>1, AtIs
  <2> QED BY <1>1, <2>1, <2>2, <2>3
<1> QED BY <1>2, <1>3

LEMMA PushedEntries ==
  ASSUME NEW r, RingOK(r), DOMAIN r.s = 0..ras_depth-1, NEW a, NEW pc, NEW q, q = ras_push(r, a, pc)
  PROVE  /\ DOMAIN q.s = 0..ras_depth-1 /\ q.cnt = Least(r.cnt + 1, ras_depth)
         /\ FromTop(q, 1) = [addr |-> a, call_pc |-> pc]
         /\ \A j \in 1..ras_depth-1 : FromTop(q, j + 1) = FromTop(r, j)
<1>0. PICK d \in Nat \ {0} : d = ras_depth
  BY PredictorsAssumption
<1>1. PICK t \in 0..d-1 : d = ras_depth /\ t = r.top
  BY <1>0 DEF RingOK
<1>2. PICK x : x = (t + 1) % d
  OBVIOUS
<1>3. /\ x \in 0..d-1 /\ (x + d - 1) % d = t
      /\ \A j \in 1..d-1 : (x + d - (j + 1)) % d = (t + d - j) % d /\ (t + d - j) % d # t
  <2>1. TurnedOn(d, t, x)
    BY <1>2, TurnOn
  <2> QED BY <2>1 DEF TurnedOn
<1>4. PICK e : e = [addr |-> a, call_pc |-> pc]
  OBVIOUS
<1>5. q.s = [r.s EXCEPT ![t] = e] /\ q.top = x /\ q.cnt = Least(r.cnt + 1, d)
  BY <1>1, <1>2, <1>4 DEF ras_push
<1>6. DOMAIN q.s = 0..d-1 /\ q.s[t] = e /\ \A i \in 0..d-1 : i # t => q.s[i] = r.s[i]
  BY <1>1, <1>5
<1>7. FromTop(q, 1) = e
  BY <1>1, <1>3, <1>5, <1>6 DEF FromTop, At
<1>8. ASSUME NEW j \in 1..d-1 PROVE FromTop(q, j + 1) = FromTop(r, j)
  <2>1. PICK i : i = (t + d - j) % d /\ i # t /\ i = (x + d - (j + 1)) % d
    BY <1>3
  <2>2. i \in 0..d-1
    <3>1. j \in 0..d
      OBVIOUS
    <3>2. (t + d - j) % d = IF j <= t THEN t - j ELSE t + d - j
      BY <3>1, AtIs
    <3> QED BY <2>1, <3>2
  <2>3. q.s[i] = r.s[i]
    BY <1>6, <2>1, <2>2
  <2> QED BY <1>1, <1>5, <2>1, <2>3 DEF FromTop, At
<1> QED BY <1>1, <1>4, <1>5, <1>6, <1>7, <1>8

LEMMA PoppedEntries ==
  ASSUME NEW r, RingOK(r), NEW q, q = ras_pop(r)
  PROVE  /\ q.s = r.s /\ q.cnt = IF r.cnt = 0 THEN 0 ELSE r.cnt - 1
         /\ r.cnt # 0 => \A j \in 1..ras_depth-1 : FromTop(q, j) = FromTop(r, j + 1)
<1>0. PICK d \in Nat \ {0} : d = ras_depth
  BY PredictorsAssumption
<1>1. PICK t \in 0..d-1 : d = ras_depth /\ t = r.top
  BY <1>0 DEF RingOK
<1>2. CASE r.cnt = 0
  BY <1>2 DEF ras_pop
<1>3. CASE r.cnt # 0
  <2>1. PICK x : x = (t + d - 1) % d
    OBVIOUS
  <2>2. q.s = r.s /\ q.top = x /\ q.cnt = r.cnt - 1
    BY <1>1, <1>3, <2>1 DEF ras_pop, Below, RingOK
  <2>3. \A j \in 1..d-1 : (x + d - j) % d = (t + d - (j + 1)) % d
    BY <2>1, TurnBack
  <2>4. \A j \in 1..d-1 : FromTop(q, j) = FromTop(r, j + 1)
    BY <1>1, <2>2, <2>3 DEF FromTop, At
  <2> QED BY <1>1, <1>3, <2>2, <2>4
<1> QED BY <1>2, <1>3

\* What a return shows is the entry at the top.
LEMMA PoppedIs ==
  ASSUME NEW r
  PROVE  Popped(r) = IF r.cnt = 0 THEN {} ELSE {FromTop(r, 1)}
BY DEF Popped, FromTop, At, Below
----------------------------------------------------------------------------
(* The return stack and the calls that are open.                           *)

ProgOK(p) == DOMAIN p \subseteq Nat \ {0} /\ \A pc \in DOMAIN p : p[pc].len \in Nat

\* Entry e of the stack is that of the call at pc.
EntryOf(p, e, pc) == e.call_pc = pc /\ e.addr - e.call_pc \in {p[pc].len, ilen_bytes}

Matches(p, r, open) ==
  /\ DOMAIN r.s = 0..ras_depth-1
  /\ r.cnt <= Len(open)
  /\ \A j \in 1..r.cnt : EntryOf(p, FromTop(r, j), open[Len(open) + 1 - j])

\* a is an address that a call at pc may leave behind.
Near(p, pc, a) == a - pc \in {p[pc].len, ilen_bytes}

\* Nothing is lost but by depth: D holds the times when it was too deep.
Whole(r, open, D) == r.cnt < Len(open) => D # {}
Later(D, E, o)    == D \subseteq E /\ (Len(o) > ras_depth => E # {})

Extended(open, pc, o) == o = Append(open, pc)

LEMMA CallMatches ==
  ASSUME NEW S, NEW p, NEW r, RingOK(r), NEW open \in Seq(S), Matches(p, r, open),
         NEW pc \in S, NEW a, Near(p, pc, a),
         NEW q, q = ras_push(r, a, pc), NEW o, Extended(open, pc, o),
         NEW D, NEW E, Whole(r, open, D), Later(D, E, o)
  PROVE  Matches(p, q, o) /\ Whole(q, o, E)
<1>1. PICK d \in Nat \ {0}, n \in Nat : d = ras_depth /\ n = Len(open)
  BY PredictorsAssumption
<1>2. PICK k \in 0..d : k = r.cnt /\ k <= n
  BY <1>1 DEF RingOK, Matches
<1>3. /\ DOMAIN q.s = 0..d-1 /\ q.cnt = Least(k + 1, d)
      /\ FromTop(q, 1) = [addr |-> a, call_pc |-> pc]
      /\ \A j \in 1..d-1 : FromTop(q, j + 1) = FromTop(r, j)
  <2>1. DOMAIN r.s = 0..ras_depth-1
    BY DEF Matches
  <2> QED BY <1>1, <1>2, <2>1, PushedEntries
<1>4. PICK m \in 1..d : m = q.cnt /\ m <= k + 1 /\ (k < d => m = k + 1) /\ (k = d => m = d)
  <2>1. q.cnt = IF k + 1 < d THEN k + 1 ELSE d
    BY <1>3 DEF Least
  <2>2. CASE k < d
    <3>1. q.cnt = k + 1 /\ k + 1 \in 1..d
      BY <2>1, <2>2
    <3> QED BY <2>2, <3>1
  <2>3. CASE k = d
    <3>1. q.cnt = d /\ d \in 1..d
      BY <2>1, <2>3
    <3> QED BY <2>3, <3>1
  <2> QED BY <2>2, <2>3
<1>5. Len(o) = n + 1 /\ o[n+1] = pc /\ \A i \in 1..n : o[i] = open[i]
  BY <1>1 DEF Extended
<1>6. ASSUME NEW j \in 1..m PROVE EntryOf(p, FromTop(q, j), o[Len(o) + 1 - j])
  <2>1. CASE j = 1
    <3>1. Len(o) + 1 - j = n + 1
      BY <1>5, <2>1
    <3>2. EntryOf(p, [addr |-> a, call_pc |-> pc], pc)
      BY DEF EntryOf, Near
    <3> QED BY <1>3, <1>5, <2>1, <3>1, <3>2
  <2>2. CASE j # 1
    <3>0. j - 1 \in 1..d-1 /\ (j - 1) + 1 = j /\ j - 1 <= k
      <4>1. m \in 1..d /\ m <= k + 1
        BY <1>4
      <4> QED BY <2>2, <4>1
    <3>1. PICK i \in 1..d-1 : i + 1 = j /\ i <= k
      BY <3>0
    <3>2. FromTop(q, j) = FromTop(r, i)
      BY <1>3, <3>1
    <3>3. EntryOf(p, FromTop(r, i), open[n + 1 - i])
      BY <1>1, <1>2, <3>1 DEF Matches
    <3>4. n + 1 - i \in 1..n /\ Len(o) + 1 - j = n + 1 - i
      <4>1. Len(o) = n + 1 /\ k <= n
        BY <1>2, <1>5
      <4> QED BY <3>1, <4>1
    <3> QED BY <1>5, <3>2, <3>3, <3>4
  <2> QED BY <2>1, <2>2
<1>7. Matches(p, q, o)
  <2>1. q.cnt <= Len(o)
    BY <1>2, <1>4, <1>5
  <2> QED BY <1>1, <1>3, <1>4, <1>6, <2>1 DEF Matches
<1>8. Whole(q, o, E)
  BY <1>1, <1>2, <1>4, <1>5 DEF Whole, Later
<1> QED BY <1>7, <1>8

Reduced(open, o) == o = IF open = <<>> THEN open ELSE SubSeq(open, 1, Len(open) - 1)

LEMMA ReturnMatches ==
  ASSUME NEW S, NEW p, NEW r, RingOK(r), NEW open \in Seq(S), Matches(p, r, open),
         NEW q, q = ras_pop(r),
         NEW o, Reduced(open, o), NEW D, NEW E, Whole(r, open, D), Later(D, E, o)
  PROVE  Matches(p, q, o) /\ Whole(q, o, E)
<1>1. PICK d \in Nat \ {0}, n \in Nat : d = ras_depth /\ n = Len(open)
  BY PredictorsAssumption
<1>2. PICK k \in 0..d : k = r.cnt /\ k <= n
  BY <1>1 DEF RingOK, Matches
<1>3. /\ q.s = r.s /\ q.cnt = IF k = 0 THEN 0 ELSE k - 1
      /\ k # 0 => \A j \in 1..d-1 : FromTop(q, j) = FromTop(r, j + 1)
  BY <1>1, <1>2, PoppedEntries
<1>4. PICK m \in 0..n : Len(o) = m /\ (n = 0 => m = 0) /\ (n # 0 => m = n - 1) /\ \A i \in 1..m : o[i] = open[i]
  <2>1. CASE open = <<>>
    BY <1>1, <2>1 DEF Reduced
  <2>2. CASE open # <<>>
    <3>1. n # 0 /\ n - 1 \in 0..n
      BY <1>1, <2>2
    <3>2. o = SubSeq(open, 1, n - 1)
      BY <1>1, <2>2 DEF Reduced
    <3>3. Len(o) = n - 1 /\ \A i \in 1..n-1 : o[i] = open[i]
      BY <1>1, <3>1, <3>2
    <3> QED BY <3>1, <3>3
  <2> QED BY <2>1, <2>2
<1>5. ASSUME NEW j \in 1..q.cnt PROVE EntryOf(p, FromTop(q, j), o[Len(o) + 1 - j])
  <2>1. k # 0 /\ q.cnt = k - 1
    BY <1>3
  <2>2. PICK i \in 1..k : i = j + 1 /\ j \in 1..d-1
    BY <1>2, <2>1
  <2>3. FromTop(q, j) = FromTop(r, i)
    BY <1>3, <2>1, <2>2
  <2>4. EntryOf(p, FromTop(r, i), open[n + 1 - i])
    BY <1>1, <1>2, <2>2 DEF Matches
  <2>5. n + 1 - i \in 1..m /\ Len(o) + 1 - j = n + 1 - i
    BY <1>2, <1>4, <2>1, <2>2
  <2> QED BY <1>4, <2>3, <2>4, <2>5
<1>6. Matches(p, q, o)
  <2>1. q.cnt <= Len(o)
    <3>1. k <= n /\ Len(o) = m /\ (n = 0 => m = 0) /\ (n # 0 => m = n - 1)
      BY <1>2, <1>4
    <3> QED BY <1>3, <3>1
  <2> QED BY <1>3, <1>5, <2>1 DEF Matches
<1>7. Whole(q, o, E)
  BY <1>1, <1>2, <1>3, <1>4 DEF Whole, Later
<1> QED BY <1>6, <1>7

\* What is open after the first n instructions, and when it was more than the
\* stack has room for.
OpenAt(p, pcs, n) == OpenAfter(p, SubSeq(pcs, 1, n))
Deep(p, pcs, n)   == {m \in 1..n : Len(OpenAt(p, pcs, m)) > ras_depth}

\* Stack r after the first n instructions.
Tracks(p, pcs, n, r) ==
  Matches(p, r, OpenAt(p, pcs, n)) /\ Whole(r, OpenAt(p, pcs, n), Deep(p, pcs, n))

\* What the instruction at pc makes of stack r.
Moves(p, r, pc, q) ==
  /\ p[pc].kind = "call" => \E a : Near(p, pc, a) /\ q = ras_push(r, a, pc)
  /\ p[pc].kind = "ret" => q = ras_pop(r)
  /\ p[pc].kind \notin {"call", "ret"} => q = r

LEMMA OpenNext ==
  ASSUME NEW S, NEW p, NEW pcs \in Seq(S), NEW n \in Nat, n + 1 <= Len(pcs)
  PROVE  /\ OpenAt(p, pcs, n) \in Seq(S) /\ OpenAt(p, pcs, n + 1) \in Seq(S)
         /\ OpenAt(p, pcs, n + 1) = Through(p, OpenAt(p, pcs, n), pcs[n+1])
<1>1. PICK a \in Seq(S), b \in Seq(S) : a = SubSeq(pcs, 1, n) /\ b = SubSeq(pcs, 1, n + 1)
  <2>1. SubSeq(pcs, 1, n) \in Seq(S) /\ SubSeq(pcs, 1, n + 1) \in Seq(S)
    <3>1. \A i \in 1..n+1 : i \in 1..Len(pcs)
      OBVIOUS
    <3> QED BY <3>1, SubSeqProperties
  <2> QED BY <2>1
<1>2. /\ Len(a) = n /\ Len(b) = n + 1
      /\ \A i \in 1..n : a[i] = pcs[i]
      /\ \A i \in 1..n+1 : b[i] = pcs[i]
  BY <1>1
<1>3. Begins(a, b)
  BY <1>2 DEF Begins
<1>4. OpenAfter(p, b) = Through(p, OpenAfter(p, a), b[Len(b)])
  BY <1>2, <1>3, OpenOne
<1>5. b[Len(b)] = pcs[n+1]
  BY <1>2
<1> QED BY <1>1, <1>4, <1>5, OpenType DEF OpenAt

LEMMA DeepGrows ==
  ASSUME NEW p, NEW pcs, NEW n \in Nat
  PROVE  Later(Deep(p, pcs, n), Deep(p, pcs, n + 1), OpenAt(p, pcs, n + 1))
<1>1. \A m \in 1..n : m \in 1..n+1
  OBVIOUS
<1>2. n + 1 \in 1..n+1
  OBVIOUS
<1> QED BY <1>1, <1>2 DEF Deep, Later

LEMMA MoveTracks ==
  ASSUME NEW S, NEW p, NEW pcs \in Seq(S), NEW n \in Nat, n + 1 <= Len(pcs),
         NEW r, RingOK(r), Tracks(p, pcs, n, r), NEW q, Moves(p, r, pcs[n+1], q)
  PROVE  Tracks(p, pcs, n + 1, q)
<1>1. PICK pc \in S : pc = pcs[n+1]
  <2>1. n + 1 \in 1..Len(pcs)
    OBVIOUS
  <2> QED BY <2>1
<1>2. PICK open \in Seq(S), o \in Seq(S) :
        open = OpenAt(p, pcs, n) /\ o = OpenAt(p, pcs, n + 1) /\ o = Through(p, open, pc)
  BY <1>1, OpenNext
<1>3. PICK D, E : D = Deep(p, pcs, n) /\ E = Deep(p, pcs, n + 1) /\ Later(D, E, o)
  BY <1>2, DeepGrows
<1>4. Matches(p, r, open) /\ Whole(r, open, D)
  BY <1>2, <1>3 DEF Tracks
<1>5. ASSUME Matches(p, q, o), Whole(q, o, E) PROVE Tracks(p, pcs, n + 1, q)
  BY <1>2, <1>3, <1>5 DEF Tracks
<1>6. CASE p[pc].kind = "call"
  <2>1. PICK a : Near(p, pc, a) /\ q = ras_push(r, a, pc)
    BY <1>1, <1>6 DEF Moves
  <2>2. Extended(open, pc, o)
    BY <1>2, <1>6 DEF Through, Extended
  <2>3. Matches(p, q, o) /\ Whole(q, o, E)
    <3>1. Near(p, pc, a)
      BY <2>1
    <3>2. q = ras_push(r, a, pc)
      BY <2>1
    <3>3. Later(D, E, o)
      BY <1>3
    <3> QED BY <1>4, <2>2, <3>1, <3>2, <3>3, CallMatches
  <2> QED BY <1>5, <2>3
<1>7. CASE p[pc].kind = "ret"
  <2>1. q = ras_pop(r)
    BY <1>1, <1>7 DEF Moves
  <2>2. Reduced(open, o)
    BY <1>2, <1>7 DEF Reduced, Through, Front
  <2>3. Matches(p, q, o) /\ Whole(q, o, E)
    BY <1>3, <1>4, <2>1, <2>2, ReturnMatches
  <2> QED BY <1>5, <2>3
<1>8. CASE p[pc].kind \notin {"call", "ret"}
  <2>1. q = r /\ o = open
    BY <1>1, <1>2, <1>8 DEF Moves, Through
  <2>2. Whole(q, o, E)
    BY <1>3, <1>4, <2>1 DEF Whole, Later
  <2> QED BY <1>4, <1>5, <2>1, <2>2
<1> QED BY <1>6, <1>7, <1>8

\* Instructions that are no calls and no returns.
LEMMA PlainTracks ==
  ASSUME NEW S, NEW p, NEW pcs \in Seq(S), NEW n \in Nat, NEW m \in Nat, n + m <= Len(pcs),
         \A i \in n+1..n+m : p[pcs[i]].kind \notin {"call", "ret"},
         NEW r, RingOK(r), Tracks(p, pcs, n, r)
  PROVE  Tracks(p, pcs, n + m, r)
<1> DEFINE G == [j \in 0..m |-> Tracks(p, pcs, n + j, r)]
<1>1. G \in [0..m -> BOOLEAN]
  BY DEF Tracks, Matches, Whole
<1>2. G[0]
  <2>1. n + 0 = n /\ 0 \in 0..m
    OBVIOUS
  <2>2. Tracks(p, pcs, n + 0, r)
    BY <2>1
  <2> QED BY <2>1, <2>2
<1>3. ASSUME NEW j \in 1..m, G[j-1] PROVE G[j]
  <2>1. j - 1 \in 0..m /\ j \in 0..m
    OBVIOUS
  <2>2. PICK k \in Nat : k = n + (j - 1) /\ k + 1 = n + j /\ k + 1 <= Len(pcs) /\ k + 1 \in n+1..n+m
    OBVIOUS
  <2>3. Tracks(p, pcs, k, r)
    BY <1>3, <2>1, <2>2
  <2>4. Moves(p, r, pcs[k+1], r)
    BY <2>2 DEF Moves
  <2>5. Tracks(p, pcs, k + 1, r)
    BY <2>2, <2>3, <2>4, MoveTracks
  <2> QED BY <2>1, <2>2, <2>5
<1> HIDE DEF G
<1>4. \A j \in 0..m : G[j]
  BY <1>1, <1>2, <1>3, RoundByRound
<1>5. m \in 0..m
  OBVIOUS
<1> QED BY <1>4, <1>5 DEF G
----------------------------------------------------------------------------
(* What the rows say of the instructions that were retired.                *)

\* v is what can be learned of the length of the instruction at pc, and all
\* that has been learned is so.
LenOf(p, pc, v) == v = p[pc].len \/ (p[pc].kind = "sys" /\ pc + v \in p[pc].to)
LensOK(p, l)    == \A pc \in DOMAIN l : LenOf(p, pc, l[pc])

LEMMA PutOK ==
  ASSUME NEW p, NEW l, LensOK(p, l), NEW pc, NEW v, LenOf(p, pc, v), NEW m, m = Put(l, pc, v)
  PROVE  LensOK(p, m)
<1>1. DOMAIN m = DOMAIN l \cup {pc} /\ \A x \in DOMAIN m : m[x] = IF x = pc THEN v ELSE l[x]
  BY DEF Put
<1>2. ASSUME NEW x \in DOMAIN m PROVE LenOf(p, x, m[x])
  <2>1. CASE x = pc
    BY <1>1, <2>1
  <2>2. CASE x # pc
    <3>1. x \in DOMAIN l /\ m[x] = l[x]
      BY <1>1, <2>2
    <3> QED BY <3>1 DEF LensOK
  <2> QED BY <2>1, <2>2
<1> QED BY <1>2 DEF LensOK

\* r is a row of the instruction at pc, and shows where it went on.
RowOf(p, r, pc) ==
  /\ r.pc = pc /\ r.type = IF Ctrl(p[pc]) THEN p[pc].kind ELSE "none"
  /\ Ctrl(p[pc]) /\ ~r.taken => p[pc].kind = "cond"
GoesOn(p, r, pc, next) == r.next_pc = next /\ (Ctrl(p[pc]) /\ ~r.taken => next = pc + p[pc].len)

\* The rows rs are of the first instructions of a log; the first n rows show
\* where the program went on.
Drafts(p, pcs, rs, n) ==
  /\ Len(rs) <= Len(pcs)
  /\ \A i \in 1..Len(rs) : RowOf(p, rs[i], pcs[i])
  /\ \A i \in 1..n : GoesOn(p, rs[i], pcs[i], pcs[i+1])

\* How the program goes on behind its i-th instruction.
ReturnsTo(p, open, next) == open # <<>> /\ next = open[Len(open)] + p[open[Len(open)]].len
StepOf(p, pcs, i) ==
  /\ ~Ctrl(p[pcs[i]]) => \/ pcs[i+1] = pcs[i] + p[pcs[i]].len
                         \/ p[pcs[i]].kind = "sys" /\ pcs[i+1] \in p[pcs[i]].to
  /\ p[pcs[i]].kind = "ret" => ReturnsTo(p, OpenAt(p, pcs, i - 1), pcs[i+1])
LogOf(p, pcs) == pcs \in Seq(DOMAIN p) /\ \A i \in 1..Len(pcs)-1 : StepOf(p, pcs, i)

\* Block b is the rows from a to z.
Covers(b, rs, a, z) ==
  /\ b.taken = rs[z].taken /\ b.last_pc = rs[z].pc
  /\ b.next_pc = rs[z].next_pc /\ b.has_next = (rs[z].next_pc # 0)
  /\ \A i \in a..z-1 : ~rs[i].taken

LEMMA BlockCovers ==
  ASSUME NEW rs, RowsOK(rs), NEW a \in 1..Len(rs), NEW raw, raw = read_raw(rs, a),
         NEW b, b = fix_fallthru(raw)
  PROVE  \E z \in a..Len(rs) : raw.n_instr = z - a + 1 /\ Covers(b, rs, a, z)
<1>1. PICK z : z = BlockLast(rs, a)
  OBVIOUS
<1>2. /\ Len(rs) \in Nat /\ z \in a..Len(rs)
      /\ \A i \in a..z-1 : ~rs[i].taken
  BY <1>1, BlockLastIs
<1>3. PICK S : rs \in Seq(S)
  BY DEF RowsOK, AnySeq
<1>4. PICK mine : mine = SubSeq(rs, a, z)
  OBVIOUS
<1>5. Len(mine) = z - a + 1 /\ mine[Len(mine)] = rs[z]
  BY <1>2, <1>3, <1>4
<1>6. PICK brs : raw = Observed(mine, brs)
  BY <1>1, <1>4 DEF read_raw
<1>7. /\ raw.n_instr = z - a + 1 /\ raw.taken = rs[z].taken /\ raw.last_pc = rs[z].pc
      /\ raw.next_pc = rs[z].next_pc /\ raw.has_next = (rs[z].next_pc # 0)
  <2>1. PICK c, m, y : c = mine[1].pc /\ m = Len(mine) /\ y = mine[m]
    OBVIOUS
  <2>2. PICK s : s = IF m > 1 THEN y.pc - mine[m - 1].pc ELSE 0
    OBVIOUS
  <2>4. PICK l, o : /\ l = (IF s \in 1..8 THEN s ELSE ilen_bytes)
                    /\ o = [n_br |-> Len(brs), br |-> Slots(brs), taken_idx |-> TakenSlot(brs),
                            complete |-> ~y.taken, fallthru |-> {}]
    OBVIOUS
  <2>5. raw = [pc |-> c, last_pc |-> y.pc, n_instr |-> m, taken |-> y.taken,
               next_pc |-> y.next_pc, has_next |-> y.next_pc # 0, ilen_guess |-> l, obs |-> o]
    BY <1>6, <2>1, <2>2, <2>4, Zenon DEF Observed
  <2>3. /\ raw.n_instr = m /\ raw.taken = y.taken /\ raw.last_pc = y.pc
        /\ raw.next_pc = y.next_pc /\ raw.has_next = (y.next_pc # 0)
    BY <2>5
  <2> QED BY <1>5, <2>1, <2>3
<1>8. /\ b.taken = raw.taken /\ b.last_pc = raw.last_pc
      /\ b.next_pc = raw.next_pc /\ b.has_next = raw.has_next
  <2>1. PICK e : b = [raw EXCEPT !.obs.fallthru = e]
    BY DEF fix_fallthru
  <2>2. "taken" \in DOMAIN raw /\ "last_pc" \in DOMAIN raw /\ "next_pc" \in DOMAIN raw /\ "has_next" \in DOMAIN raw
    BY <1>6 DEF Observed
  <2> QED BY <2>1, <2>2
<1>9. Covers(b, rs, a, z)
  BY <1>2, <1>7, <1>8 DEF Covers
<1> QED BY <1>2, <1>7, <1>9

\* The stack and the lengths: what the update makes of them before the first
\* branch, and with a branch.
LEMMA BeforeParts ==
  ASSUME NEW s, SimOK(s), NEW b, NEW x, x = Before(s, b)
  PROVE  /\ x.ras = s.ras
         /\ \/ x.ilen = s.ilen
            \/ ~b.taken /\ b.has_next /\ x.ilen = Put(s.ilen, b.last_pc, b.next_pc - b.last_pc)
<1>1. PICK y : y = Learned(s, b) /\ x = Allocating(y, b.pc, b.obs)
  BY DEF Before
<1>2. CASE b.obs.n_br > 0 /\ ~b.taken /\ b.has_next /\ b.next_pc - b.last_pc \in 1..8
  <2>1. PICK l : l = Put(s.ilen, b.last_pc, b.next_pc - b.last_pc)
    OBVIOUS
  <2>2. y = [s EXCEPT !.ilen = l]
    BY <1>1, <1>2, <2>1 DEF Learned
  <2>3. SimOK(y) /\ y.ras = s.ras /\ y.ilen = l
    BY <2>2 DEF SimOK, SimFields
  <2>4. x.ras = y.ras /\ x.ilen = y.ilen
    BY <1>1, <2>3, AllocatingTouches
  <2> QED BY <1>2, <2>1, <2>3, <2>4
<1>3. CASE ~(b.obs.n_br > 0 /\ ~b.taken /\ b.has_next /\ b.next_pc - b.last_pc \in 1..8)
  <2>1. y = s
    BY <1>1, <1>3 DEF Learned
  <2> QED BY <1>1, <2>1, AllocatingTouches
<1> QED BY <1>2, <1>3

\* Where a call is expected to come back.
ComesBack(l, pc) == pc + IF pc \in DOMAIN l THEN l[pc] ELSE ilen_bytes

LEMMA ResolvedParts ==
  ASSUME NEW s, SimOK(s), NEW br, NEW taken, NEW act, NEW lucky, NEW x, x = Resolved(s, br, taken, act, lucky)
  PROVE  /\ br.type = "call" => x.ras = ras_push(s.ras, ComesBack(s.ilen, br.pc), br.pc)
         /\ br.type = "ret" => x.ras = ras_pop(s.ras) /\ x.ilen = AfterReturn(s.ilen, s.ras, act)
         /\ br.type \notin {"call", "ret"} => x.ras = s.ras
         /\ br.type # "ret" => x.ilen = s.ilen
<1>1. CASE br.type = "cond"
  <2>1. PICK t : x = [s EXCEPT !.tage = t]
    BY <1>1 DEF Resolved
  <2>2. x.ras = s.ras /\ x.ilen = s.ilen
    BY <2>1 DEF SimOK, SimFields
  <2> QED BY <1>1, <2>2
<1>2. CASE br.type = "call"
  <2>1. PICK r : r = ras_push(s.ras, ComesBack(s.ilen, br.pc), br.pc)
    OBVIOUS
  <2>2. x = [s EXCEPT !.ras = r]
    BY <1>2, <2>1 DEF Resolved, Called, ComesBack
  <2>3. x.ras = r /\ x.ilen = s.ilen
    BY <2>2 DEF SimOK, SimFields
  <2> QED BY <1>2, <2>1, <2>3
<1>3. CASE br.type = "ret"
  <2>1. PICK r, l : r = ras_pop(s.ras) /\ l = AfterReturn(s.ilen, s.ras, act)
    OBVIOUS
  <2>2. x = Given(s, s.tage, r, l)
    BY <1>3, <2>1, ReturnedIs DEF Resolved
  <2>3. x.ras = r /\ x.ilen = l
    BY <2>2 DEF Given, SimOK, SimFields
  <2> QED BY <1>3, <2>1, <2>3
<1>4. CASE br.type \notin {"cond", "call", "ret"}
  <2>1. x = s
    BY <1>4 DEF Resolved
  <2> QED BY <1>4, <2>1
<1> QED BY <1>1, <1>2, <1>3, <1>4

LEMMA RowKind ==
  ASSUME NEW p, NEW r, NEW pc, RowOf(p, r, pc)
  PROVE  /\ r.type = "call" <=> p[pc].kind = "call"
         /\ r.type = "ret" <=> p[pc].kind = "ret"
         /\ p[pc].kind \in {"call", "ret"} => r.type # "none"
BY DEF RowOf, Ctrl

\* A length that has been learned, or the default, is good for the stack.
LEMMA BehindIsNear ==
  ASSUME NEW p, NEW pc, pc \in Nat, p[pc].len \in Nat, p[pc].kind = "call", NEW l, LensOK(p, l)
  PROVE  Near(p, pc, ComesBack(l, pc))
<1>1. ilen_bytes \in Nat
  BY FrontEndAssumption
<1>2. CASE pc \in DOMAIN l
  <2>1. LenOf(p, pc, l[pc])
    BY <1>2 DEF LensOK
  <2>2. l[pc] = p[pc].len
    BY <2>1 DEF LenOf
  <2>3. ComesBack(l, pc) = pc + p[pc].len
    BY <1>2, <2>2 DEF ComesBack
  <2> QED BY <2>3 DEF Near
<1>3. CASE pc \notin DOMAIN l
  <2>1. ComesBack(l, pc) = pc + ilen_bytes
    BY <1>3 DEF ComesBack
  <2> QED BY <1>1, <2>1 DEF Near
<1> QED BY <1>2, <1>3

\* The row of the instruction at pc moves the stack as it should.
LEMMA RowMoves ==
  ASSUME NEW p, ProgOK(p), NEW pc \in DOMAIN p, NEW r, RowOf(p, r, pc), NEW x, SimOK(x), NEW z, NEW act, NEW lucky,
         ByRow(r, x, z, act, lucky), p[pc].kind = "call" => LensOK(p, x.ilen)
  PROVE  /\ Moves(p, x.ras, pc, z.ras)
         /\ p[pc].kind = "ret" => z.ilen = AfterReturn(x.ilen, x.ras, act)
         /\ p[pc].kind # "ret" => z.ilen = x.ilen
<1>1. CASE r.type = "none"
  <2>1. z = x /\ p[pc].kind \notin {"call", "ret"}
    BY <1>1, RowKind DEF ByRow
  <2> QED BY <2>1 DEF Moves
<1>2. CASE r.type # "none"
  <2>1. PICK br : \E taken \in BOOLEAN :
                    /\ br.pc = r.pc /\ br.type = r.type /\ (taken <=> r.taken)
                    /\ z = Resolved(x, br, taken, act, lucky)
    BY <1>2 DEF ByRow
  <2>2. PICK taken \in BOOLEAN : br.pc = r.pc /\ br.type = r.type /\ z = Resolved(x, br, taken, act, lucky)
    BY <2>1
  <2>3. /\ br.type = "call" => z.ras = ras_push(x.ras, ComesBack(x.ilen, br.pc), br.pc)
        /\ br.type = "ret" => z.ras = ras_pop(x.ras) /\ z.ilen = AfterReturn(x.ilen, x.ras, act)
        /\ br.type \notin {"call", "ret"} => z.ras = x.ras
        /\ br.type # "ret" => z.ilen = x.ilen
    BY <2>2, ResolvedParts
  <2>4. /\ br.pc = pc
        /\ br.type = "call" <=> p[pc].kind = "call"
        /\ br.type = "ret" <=> p[pc].kind = "ret"
    BY <2>2, RowKind DEF RowOf
  <2>5. p[pc].kind = "call" => \E a : Near(p, pc, a) /\ z.ras = ras_push(x.ras, a, pc)
    <3>1. ASSUME p[pc].kind = "call" PROVE Near(p, pc, ComesBack(x.ilen, pc)) /\ z.ras = ras_push(x.ras, ComesBack(x.ilen, pc), pc)
      <4>1. pc \in Nat /\ p[pc].len \in Nat
        BY DEF ProgOK
      <4>2. Near(p, pc, ComesBack(x.ilen, pc))
        BY <3>1, <4>1, BehindIsNear
      <4> QED BY <2>3, <2>4, <3>1, <4>2
    <3> QED BY <3>1
  <2> QED BY <2>3, <2>4, <2>5 DEF Moves
<1> QED BY <1>1, <1>2

\* A return that went where it should shows the length of its call.
LEMMA ReturnLens ==
  ASSUME NEW p, ProgOK(p), NEW l, LensOK(p, l), NEW r, RingOK(r), NEW open \in Seq(DOMAIN p), Matches(p, r, open),
         NEW act, ReturnsTo(p, open, act)
  PROVE  LensOK(p, AfterReturn(l, r, act))
<1>1. CASE ~(learn_call_len /\ Shown(r, act) # {})
  BY <1>1 DEF AfterReturn
<1>2. CASE learn_call_len /\ Shown(r, act) # {}
  <2>1. PICK x : x \in Shown(r, act) /\ x = CHOOSE y \in Shown(r, act) : TRUE
    BY <1>2
  <2>2. AfterReturn(l, r, act) = Put(l, x.call_pc, act - x.call_pc)
    BY <1>2, <2>1 DEF AfterReturn
  <2>3. x \in Popped(r)
    BY <2>1 DEF Shown
  <2>4. r.cnt # 0 /\ x = FromTop(r, 1)
    BY <2>3, PoppedIs
  <2>5. PICK n \in Nat : n = Len(open) /\ n >= 1
    BY DEF ReturnsTo
  <2>6. 1 \in 1..r.cnt
    BY <2>4 DEF RingOK
  <2>7. EntryOf(p, x, open[n + 1 - 1])
    BY <2>4, <2>5, <2>6 DEF Matches
  <2>8. n + 1 - 1 = n /\ n \in 1..n
    BY <2>5
  <2>9. PICK c \in DOMAIN p : c = open[n] /\ x.call_pc = c
    BY <2>5, <2>7, <2>8 DEF EntryOf
  <2>10. act = c + p[c].len /\ c \in Nat /\ p[c].len \in Nat
    BY <2>5, <2>9 DEF ReturnsTo, ProgOK
  <2>11. LenOf(p, x.call_pc, act - x.call_pc)
    BY <2>9, <2>10 DEF LenOf
  <2> QED BY <2>2, <2>11, PutOK
<1> QED BY <1>1, <1>2

SameStack(x, y) == x.ras = y.ras /\ x.ilen = y.ilen

\* Rows that are no taken branches leave the stack and the lengths alone.
LEMMA RowsKeepStack ==
  ASSUME NEW p, ProgOK(p), NEW m \in Nat, NEW pcs, NEW rs, NEW a \in Nat, NEW h, NEW act, NEW lucky,
         \A j \in 1..m : /\ pcs[a-1+j] \in DOMAIN p /\ p[pcs[a-1+j]].kind \notin {"call", "ret"}
                         /\ RowOf(p, rs[a-1+j], pcs[a-1+j]),
         \A j \in 0..m : SimOK(h[j]),
         \A j \in 1..m : ByRow(rs[a-1+j], h[j-1], h[j], act, lucky)
  PROVE  SameStack(h[m], h[0])
<1> DEFINE G == [j \in 0..m |-> SameStack(h[j], h[0])]
<1>1. G \in [0..m -> BOOLEAN]
  BY DEF SameStack
<1>2. G[0]
  <2>1. SameStack(h[0], h[0])
    BY DEF SameStack
  <2> QED BY <2>1
<1>3. ASSUME NEW j \in 1..m, G[j-1] PROVE G[j]
  <2>1. j - 1 \in 0..m /\ j \in 0..m
    OBVIOUS
  <2>2. PICK x, z, r, pc : x = h[j-1] /\ z = h[j] /\ r = rs[a-1+j] /\ pc = pcs[a-1+j]
    OBVIOUS
  <2>3. SameStack(x, h[0])
    BY <1>3, <2>1, <2>2
  <2>4. /\ pc \in DOMAIN p /\ p[pc].kind \notin {"call", "ret"} /\ RowOf(p, r, pc)
        /\ SimOK(x) /\ ByRow(r, x, z, act, lucky)
    BY <2>1, <2>2
  <2>5. pc \in DOMAIN p /\ (p[pc].kind = "call" => LensOK(p, x.ilen))
    BY <2>4
  <2>6. Moves(p, x.ras, pc, z.ras) /\ (p[pc].kind # "ret" => z.ilen = x.ilen)
    BY <2>4, <2>5, RowMoves
  <2>7. SameStack(z, x)
    BY <2>4, <2>6 DEF Moves, SameStack
  <2>8. SameStack(h[j], h[0])
    BY <2>2, <2>3, <2>7 DEF SameStack
  <2> QED BY <2>1, <2>8
<1> HIDE DEF G
<1>4. \A j \in 0..m : G[j]
  BY <1>1, <1>2, <1>3, RoundByRound
<1>5. m \in 0..m
  OBVIOUS
<1> QED BY <1>4, <1>5 DEF G

\* A block that goes on shows the length of its last instruction.
LEMMA EndTeaches ==
  ASSUME NEW p, ProgOK(p), NEW pc \in DOMAIN p, NEW next \in DOMAIN p, NEW r, RowOf(p, r, pc), GoesOn(p, r, pc, next),
         ~r.taken, ~Ctrl(p[pc]) => next = pc + p[pc].len \/ (p[pc].kind = "sys" /\ next \in p[pc].to)
  PROVE  LenOf(p, r.pc, r.next_pc - r.pc)
<1>1. r.pc = pc /\ r.next_pc = next /\ pc \in Nat /\ next \in Nat /\ p[pc].len \in Nat
  BY DEF RowOf, GoesOn, ProgOK
<1>2. pc + (next - pc) = next
  BY <1>1
<1>3. CASE next = pc + p[pc].len
  BY <1>1, <1>3 DEF LenOf
<1>4. CASE p[pc].kind = "sys" /\ next \in p[pc].to
  BY <1>1, <1>2, <1>4 DEF LenOf
<1>5. next = pc + p[pc].len \/ (p[pc].kind = "sys" /\ next \in p[pc].to)
  BY DEF GoesOn
<1> QED BY <1>3, <1>4, <1>5

LEMMA ResolveTracks ==
  ASSUME NEW p, ProgOK(p), NEW pcs, LogOf(p, pcs), NEW rs, RowsOK(rs), Drafts(p, pcs, rs, Len(rs) - 1),
         NEW a \in 1..Len(rs), NEW raw, raw = read_raw(rs, a), NEW b, b = fix_fallthru(raw),
         NEW s, Sound(s), Tracks(p, pcs, a - 1, s.ras), LensOK(p, s.ilen),
         NEW lucky, NEW y, y = resolve(s, b, lucky)
  PROVE  /\ Tracks(p, pcs, a - 1 + raw.n_instr, y.ras)
         /\ a - 1 + raw.n_instr < Len(rs) => LensOK(p, y.ilen)
<1>1. PICK n, act : n = raw.n_instr /\ act = actual_next(s, b)
  OBVIOUS
<1>2. PICK z \in a..Len(rs) : n = z - a + 1 /\ Covers(b, rs, a, z)
  BY <1>1, BlockCovers
<1>3. /\ Len(rs) \in Nat /\ a \in Nat /\ n \in Nat \ {0} /\ a - 1 + n = z /\ z \in 1..Len(rs)
      /\ n - 1 \in Nat /\ a - 1 \in Nat
  <2>1. Len(rs) \in Nat
    BY DEF RowsOK, AnySeq
  <2> QED BY <1>2, <2>1
<1>4. pcs \in Seq(DOMAIN p) /\ Len(rs) <= Len(pcs) /\ Len(pcs) \in Nat
  BY DEF LogOf, Drafts
<1>5. ASSUME NEW i \in 1..Len(rs) PROVE pcs[i] \in DOMAIN p /\ RowOf(p, rs[i], pcs[i])
  <2>1. i \in 1..Len(pcs)
    BY <1>3, <1>4
  <2> QED BY <1>4, <2>1 DEF Drafts
<1>6. PICK h : /\ h[0] = Before(s, b) /\ y = h[n]
               /\ \A j \in 0..n : Sound(h[j])
               /\ \A j \in 1..n : ByRow(rs[a-1+j], h[j-1], h[j], act, lucky)
  <2>1. PICK h : RowByRow(rs, a, n, s, b, lucky, h, y)
    BY <1>1, ResolveByRows
  <2> QED BY <1>1, <2>1 DEF RowByRow
<1>7. /\ h[0].ras = s.ras
      /\ \/ h[0].ilen = s.ilen
         \/ ~b.taken /\ b.has_next /\ h[0].ilen = Put(s.ilen, b.last_pc, b.next_pc - b.last_pc)
  BY <1>6, SoundParts, BeforeParts
<1>8. ASSUME NEW i \in a..z-1 PROVE i \in 1..Len(rs) /\ p[pcs[i]].kind \notin {"call", "ret"}
  <2>1. i \in 1..Len(rs)
    BY <1>3
  <2>2. ~rs[i].taken
    BY <1>2 DEF Covers
  <2> QED BY <1>5, <2>1, <2>2 DEF RowOf, Ctrl
<1>9. PICK m \in Nat : m = n - 1 /\ m \in 0..n /\ n \in 1..n /\ a - 1 + m = z - 1 /\ a - 1 + m + 1 = z
  BY <1>3
<1>10. SameStack(h[m], h[0])
  <2>1. ASSUME NEW j \in 1..m
        PROVE  /\ pcs[a-1+j] \in DOMAIN p /\ p[pcs[a-1+j]].kind \notin {"call", "ret"}
               /\ RowOf(p, rs[a-1+j], pcs[a-1+j])
    <3>1. a - 1 + j \in a..z-1
      BY <1>3, <1>9
    <3> QED BY <1>5, <1>8, <3>1
  <2>2. \A j \in 0..m : SimOK(h[j])
    <3>1. \A j \in 0..m : j \in 0..n
      BY <1>3, <1>9
    <3> QED BY <1>6, <3>1, SoundParts
  <2>3. \A j \in 1..m : ByRow(rs[a-1+j], h[j-1], h[j], act, lucky)
    <3>1. \A j \in 1..m : j \in 1..n
      BY <1>3, <1>9
    <3> QED BY <1>6, <3>1
  <2> QED BY <1>3, <2>1, <2>2, <2>3, RowsKeepStack
<1>11. PICK x, r, pc : x = h[m] /\ r = rs[z] /\ pc = pcs[z] /\ pc \in DOMAIN p /\ RowOf(p, r, pc)
  BY <1>3, <1>5
<1>12. x.ras = s.ras /\ x.ilen = h[0].ilen /\ SimOK(x)
  BY <1>6, <1>7, <1>9, <1>10, <1>11, SoundParts DEF SameStack
<1>13. ByRow(r, x, y, act, lucky)
  BY <1>3, <1>6, <1>9, <1>11
<1>14. b.taken = r.taken /\ b.last_pc = r.pc /\ b.next_pc = r.next_pc /\ b.has_next = (r.next_pc # 0)
  BY <1>2, <1>11 DEF Covers
<1>15. p[pc].kind = "call" => LensOK(p, x.ilen)
  <2>1. p[pc].kind = "call" => r.taken
    BY <1>11 DEF RowOf, Ctrl
  <2> QED BY <1>7, <1>12, <1>14, <2>1
<1>16. /\ Moves(p, x.ras, pc, y.ras)
       /\ p[pc].kind = "ret" => y.ilen = AfterReturn(x.ilen, x.ras, act)
       /\ p[pc].kind # "ret" => y.ilen = x.ilen
  BY <1>11, <1>12, <1>13, <1>15, RowMoves
<1>17. RingOK(s.ras)
  BY DEF Sound
<1>18. Tracks(p, pcs, a - 1 + m, s.ras)
  <2>1. \A i \in a-1+1..a-1+m : p[pcs[i]].kind \notin {"call", "ret"}
    <3>1. \A i \in a-1+1..a-1+m : i \in a..z-1
      BY <1>3, <1>9
    <3> QED BY <1>8, <3>1
  <2>2. a - 1 + m <= Len(pcs)
    BY <1>3, <1>4, <1>9
  <2> QED BY <1>3, <1>4, <1>17, <2>1, <2>2, PlainTracks
<1>19. Tracks(p, pcs, z, y.ras)
  <2>1. PICK w \in Nat : w = a - 1 + m /\ w + 1 = z /\ w + 1 <= Len(pcs)
    BY <1>3, <1>4, <1>9
  <2>2. Tracks(p, pcs, w, s.ras) /\ Moves(p, s.ras, pcs[w+1], y.ras)
    BY <1>11, <1>12, <1>16, <1>18, <2>1
  <2> QED BY <1>4, <1>17, <2>1, <2>2, MoveTracks
<1>20. ASSUME z < Len(rs) PROVE LensOK(p, y.ilen)
  <2>1. z \in 1..Len(rs)-1 /\ z + 1 \in 1..Len(rs) /\ z \in 1..Len(pcs)-1
    BY <1>3, <1>4, <1>20
  <2>2. PICK next : next = pcs[z+1] /\ next \in DOMAIN p /\ GoesOn(p, r, pc, next) /\ StepOf(p, pcs, z)
    BY <1>5, <1>11, <2>1 DEF Drafts, LogOf
  <2>3. LensOK(p, x.ilen)
    <3>1. CASE h[0].ilen = s.ilen
      BY <1>12, <3>1
    <3>2. CASE ~b.taken /\ b.has_next /\ h[0].ilen = Put(s.ilen, b.last_pc, b.next_pc - b.last_pc)
      <4>1. ~Ctrl(p[pc]) => next = pc + p[pc].len \/ (p[pc].kind = "sys" /\ next \in p[pc].to)
        BY <1>11, <2>2 DEF StepOf
      <4>2. LenOf(p, r.pc, r.next_pc - r.pc)
        BY <1>11, <1>14, <2>2, <3>2, <4>1, EndTeaches
      <4>3. x.ilen = Put(s.ilen, r.pc, r.next_pc - r.pc)
        BY <1>12, <1>14, <3>2
      <4> QED BY <4>2, <4>3, PutOK
    <3> QED BY <1>7, <3>1, <3>2
  <2>4. CASE p[pc].kind # "ret"
    BY <1>16, <2>3, <2>4
  <2>5. CASE p[pc].kind = "ret"
    <3>1. act = next
      <4>1. r.next_pc = next /\ next # 0
        BY <2>2 DEF GoesOn, ProgOK
      <4> QED BY <1>1, <1>14, <4>1 DEF actual_next
    <3>2. PICK open \in Seq(DOMAIN p) : open = OpenAt(p, pcs, a - 1 + m)
      <4>1. PICK w \in Nat : w = a - 1 + m /\ w + 1 <= Len(pcs)
        BY <1>3, <1>4, <1>9
      <4> QED BY <1>4, <4>1, OpenNext
    <3>3. ReturnsTo(p, open, act)
      BY <1>9, <1>11, <2>2, <2>5, <3>1, <3>2 DEF StepOf
    <3>4. Matches(p, s.ras, open)
      BY <1>18, <3>2 DEF Tracks
    <3>5. LensOK(p, AfterReturn(x.ilen, s.ras, act))
      BY <1>17, <2>3, <3>3, <3>4, ReturnLens
    <3> QED BY <1>12, <1>16, <2>5, <3>5
  <2> QED BY <2>4, <2>5
<1> QED BY <1>1, <1>3, <1>19, <1>20

LEMMA NotedKeepsStack ==
  ASSUME NEW s, SimOK(s), NEW b, NEW x, x = Noted(s, b)
  PROVE  x.ras = s.ras /\ x.ilen = s.ilen
<1>1. PICK u : x = [s EXCEPT !.smap = u]
  BY DEF Noted
<1> QED BY <1>1 DEF SimOK, SimFields

LEMMA RunTracks ==
  ASSUME NEW c \in FrontEndOptions,
         NEW p, ProgOK(p), NEW pcs, LogOf(p, pcs), NEW rs, RowsOK(rs), Drafts(p, pcs, rs, Len(rs) - 1),
         NEW a \in 1..Len(rs), NEW raw, raw = read_raw(rs, a),
         NEW s, Sound(s), Tracks(p, pcs, a - 1, s.ras), LensOK(p, s.ilen),
         NEW lucky, NEW n, n = RunBlock(c, s, raw, lucky).s
  PROVE  /\ Tracks(p, pcs, a - 1 + raw.n_instr, n.ras)
         /\ a - 1 + raw.n_instr < Len(rs) => LensOK(p, n.ilen)
<1>1. PICK b : b = fix_fallthru(raw)
  OBVIOUS
<1>2. PICK x, y : Sound(x) /\ x.ras = s.ras /\ x.ilen = s.ilen /\ y = resolve(x, b, lucky) /\ n = Noted(y, b)
  BY <1>1, RunSteps
<1>3. Tracks(p, pcs, a - 1, x.ras) /\ LensOK(p, x.ilen)
  BY <1>2
<1>4. /\ Tracks(p, pcs, a - 1 + raw.n_instr, y.ras)
      /\ a - 1 + raw.n_instr < Len(rs) => LensOK(p, y.ilen)
  BY <1>1, <1>2, <1>3, ResolveTracks
<1>5. SimOK(y)
  <2>1. FE_MAX_SLOTS \in 0..FE_MAX_SLOTS
    BY PredictorsAssumption
  <2>2. PICK f, act : SoundSteps(x, b, lucky, f, act)
    BY <1>2, ResolveSteps
  <2>3. Sound(y)
    BY <1>2, <2>1, <2>2 DEF SoundSteps
  <2> QED BY <2>3, SoundParts
<1>6. n.ras = y.ras /\ n.ilen = y.ilen
  BY <1>2, <1>5, NotedKeepsStack
<1> QED BY <1>4, <1>6
----------------------------------------------------------------------------
(* The rows that the generator has made of a log.                          *)

Made(g) == g.rows \o g.pend

\* q is m and one row more, of the instruction at pc, which went on at next.
Longer(m, q)  == Len(m) \in Nat /\ Len(q) = Len(m) + 1 /\ \A i \in 1..Len(m) : q[i] = m[i]
OneRow(p, m, q, pc)        == Longer(m, q) /\ RowOf(p, q[Len(q)], pc)
OneStep(p, m, q, pc, next) == OneRow(p, m, q, pc) /\ GoesOn(p, q[Len(q)], pc, next)
Emits(p, m, q, pc, next, last) == OneRow(p, m, q, pc) /\ (last \/ OneStep(p, m, q, pc, next))

\* The row r joins the rows b behind those of a.
Joins(a, b, r, m, q) == m = a \o b /\ q = a \o Append(b, r)

LEMMA JoinOne ==
  ASSUME NEW a, AnySeq(a), NEW b, AnySeq(b), NEW r, NEW m, NEW q, Joins(a, b, r, m, q)
  PROVE  Longer(m, q) /\ q[Len(q)] = r
<1>0. PICK c : c = Append(b, r) /\ m = a \o b /\ q = a \o c
  BY DEF Joins
<1>1. PICK S, T : a \in Seq(S) /\ b \in Seq(T)
  BY DEF AnySeq
<1>2. PICK U : U = S \cup T \cup {r}
  OBVIOUS
<1>3. a \in Seq(U) /\ b \in Seq(U) /\ r \in U
  BY <1>1, <1>2
<1>4. PICK n \in Nat, k \in Nat : n = Len(a) /\ k = Len(b)
  BY <1>3
<1>5. c \in Seq(U) /\ Len(c) = k + 1 /\ c[k+1] = r /\ \A i \in 1..k : c[i] = b[i]
  BY <1>0, <1>3, <1>4
<1>6. /\ Len(m) = n + k /\ (\A i \in 1..n : m[i] = a[i]) /\ \A i \in n+1..n+k : m[i] = b[i-n]
  BY <1>0, <1>3, <1>4
<1>7. /\ Len(q) = n + (k + 1) /\ (\A i \in 1..n : q[i] = a[i]) /\ \A i \in n+1..n+(k+1) : q[i] = c[i-n]
  <2>1. PICK j \in Nat : j = k + 1 /\ j = Len(c)
    BY <1>5
  <2>2. /\ Len(q) = n + j /\ (\A i \in 1..n : q[i] = a[i]) /\ \A i \in n+1..n+j : q[i] = c[i-n]
    BY <1>0, <1>3, <1>4, <1>5, <2>1
  <2> QED BY <2>1, <2>2
<1>8. ASSUME NEW i \in 1..Len(m) PROVE q[i] = m[i]
  <2>1. CASE i <= n
    BY <1>6, <1>7, <2>1
  <2>2. CASE ~(i <= n)
    <3>1. i \in n+1..n+k /\ i \in n+1..n+(k+1) /\ i - n \in 1..k
      BY <1>6, <2>2
    <3> QED BY <1>5, <1>6, <1>7, <3>1
  <2> QED BY <2>1, <2>2
<1>9. q[Len(q)] = r
  <2>1. n + (k + 1) \in n+1..n+(k+1) /\ n + (k + 1) - n = k + 1
    OBVIOUS
  <2> QED BY <1>5, <1>7, <2>1
<1> QED BY <1>6, <1>7, <1>8, <1>9 DEF Longer

LEMMA FlushWrites ==
  ASSUME NEW g, g = [f \in GenFields |-> g[f]], NEW end, NEW h, h = flush_block(g, end)
  PROVE  h.rows = g.rows \o g.pend /\ h.pend = <<>>
<1>1. PICK a, b, c : h = [g EXCEPT !.rows = g.rows \o g.pend, !.pend = <<>>, !.blk = <<>>, !.n_fe = a,
                                   !.mem_rows = b, !.blk_mem = 0, !.n_ifetch = c]
  BY DEF flush_block
<1>2. PICK q : q = g.rows \o g.pend
  OBVIOUS
<1>3. h.rows = q /\ h.pend = <<>>
  BY <1>1, <1>2 DEF GenFields
<1> QED BY <1>2, <1>3

LEMMA EmitAdds ==
  ASSUME NEW g, GenOK(g), NEW p, NEW pc, NEW next, NEW last, NEW fe_bytes, NEW w,
         NEW e, e = emit(g, p, pc, next, last, fe_bytes, w), NEW m, m = Made(g), NEW q, q = Made(e)
  PROVE  Emits(p, m, q, pc, next, last)
<1> DEFINE d     == p[pc]
           taken == Ctrl(d) /\ (next # pc + d.len \/ d.kind # "cond")
           blk   == Append(g.blk, pc)
           be    == BlockEnds(d, pc, blk[1], Len(blk), next, taken) \/ last
           row   == [pc |-> pc, type |-> IF Ctrl(d) THEN d.kind ELSE "none", taken |-> taken,
                     target |-> IF Direct(d) THEN target(d) ELSE IF Ctrl(d) THEN next ELSE 0,
                     is_block_end |-> be, next_pc |-> IF last THEN 0 ELSE next]
           g1 == [g EXCEPT !.blk = blk, !.pend = Append(@, row),
                      !.rec = Append(@, Record(d.kind, be, IF g.blk = <<>> THEN 1 ELSE 0, MemDelta(g, d))),
                      !.n_mem = @ + IF Mem(d) THEN 1 ELSE 0, !.blk_mem = @ + IF Mem(d) THEN 1 ELSE 0]
           marked == g.n_fe < Len(fe_bytes) /\ fe_bytes[g.n_fe + 1].redirect
<1>1. e = IF ~be THEN g1
          ELSE flush_block(IF marked THEN gen_shadow(g1, p, d, pc, taken, w) ELSE g1, pc + d.len)
  BY DEF emit
<1>0. /\ row.pc = pc /\ row.type = (IF Ctrl(p[pc]) THEN p[pc].kind ELSE "none")
      /\ row.taken = taken /\ row.next_pc = (IF last THEN 0 ELSE next)
  OBVIOUS
<1> HIDE DEF row
<1>2. PICK r : /\ r = row /\ r.pc = pc /\ r.type = (IF Ctrl(p[pc]) THEN p[pc].kind ELSE "none")
               /\ r.taken = taken /\ r.next_pc = (IF last THEN 0 ELSE next)
  BY <1>0
<1>3. Ctrl(p[pc]) /\ ~r.taken => p[pc].kind = "cond" /\ next = pc + p[pc].len
  BY <1>2
<1>4. RowOf(p, r, pc) /\ (~last => GoesOn(p, r, pc, next))
  BY <1>2, <1>3 DEF RowOf, GoesOn
<1> HIDE DEF taken, be
<1>5. g = [f \in GenFields |-> g[f]] /\ AnySeq(g.rows) /\ AnySeq(g.pend)
  BY DEF GenOK, Writing, RowsOK, AllRowsOK
<1>6. PICK a, b, c : a = g.rows /\ b = g.pend /\ c = Append(b, r)
  OBVIOUS
<1>7. g1 = [f \in GenFields |-> g1[f]] /\ g1.rows = a /\ g1.pend = c
  BY <1>2, <1>5, <1>6 DEF GenFields
<1>8. PICK h : h = g1
  OBVIOUS
<1> HIDE DEF g1
<1>9. \/ e.rows = a /\ e.pend = c
      \/ e.rows = a \o c /\ e.pend = <<>>
  <2>1. CASE ~be
    BY <1>1, <1>7, <2>1
  <2>2. CASE be
    <3>1. PICK x : x = IF marked THEN gen_shadow(g1, p, d, pc, taken, w) ELSE g1
      OBVIOUS
    <3>2. SameBlock(h, x)
      <4>1. CASE marked
        <5>1. PICK from, recs, mem : x = Shadowed(h, from, recs, mem)
          BY <1>8, <3>1, <4>1 DEF gen_shadow
        <5>2. h = [f \in GenFields |-> h[f]]
          BY <1>7, <1>8
        <5> QED BY <5>1, <5>2, ShadowKeeps
      <4>2. CASE ~marked
        <5>1. x = h
          BY <1>8, <3>1, <4>2
        <5> QED BY <1>7, <1>8, <5>1 DEF SameBlock
      <4> QED BY <4>1, <4>2
    <3>3. x = [f \in GenFields |-> x[f]] /\ x.rows = a /\ x.pend = c
      BY <1>7, <1>8, <3>2 DEF SameBlock
    <3>4. PICK end : e = flush_block(x, end)
      BY <1>1, <2>2, <3>1
    <3>5. e.rows = x.rows \o x.pend /\ e.pend = <<>>
      BY <3>3, <3>4, FlushWrites
    <3> QED BY <3>3, <3>5
  <2> QED BY <2>1, <2>2
<1>10. PICK ab, ac : ab = a \o b /\ ac = a \o c
  OBVIOUS
<1>11. m = ab /\ q = ac
  <2>1. CASE e.rows = a /\ e.pend = c
    BY <1>6, <1>10, <2>1 DEF Made
  <2>2. CASE e.rows = ac /\ e.pend = <<>>
    <3>1. PICK S, T : a \in Seq(S) /\ b \in Seq(T)
      BY <1>5, <1>6 DEF AnySeq
    <3>2. a \in Seq(S \cup T \cup {r}) /\ c \in Seq(S \cup T \cup {r})
      BY <1>6, <3>1
    <3>3. ac \in Seq(S \cup T \cup {r})
      BY <1>10, <3>2
    <3>4. ac \o <<>> = ac
      BY <3>3
    <3> QED BY <1>6, <1>10, <2>2, <3>4 DEF Made
  <2> QED BY <1>9, <1>10, <2>1, <2>2
<1>12. Longer(m, q) /\ q[Len(q)] = r
  <2>1. AnySeq(a) /\ AnySeq(b)
    BY <1>5, <1>6
  <2>2. Joins(a, b, r, m, q)
    BY <1>6, <1>10, <1>11 DEF Joins
  <2> QED BY <2>1, <2>2, JoinOne
<1> QED BY <1>4, <1>12 DEF OneRow, OneStep, Emits

\* The i-th row is the next one to come.
NextRow(m, pcs, i) == Len(m) \in Nat /\ Len(pcs) \in Nat /\ i = Len(m) + 1 /\ i <= Len(pcs)

LEMMA DraftsRow ==
  ASSUME NEW p, NEW pcs, NEW m, NEW n, n = Len(m), Drafts(p, pcs, m, n), NEW i, NextRow(m, pcs, i),
         NEW pc, pc = pcs[i], NEW q, OneRow(p, m, q, pc)
  PROVE  Drafts(p, pcs, q, n)
<1>1. n \in Nat /\ i = n + 1 /\ n + 1 <= Len(pcs)
  BY DEF NextRow
<1>2. Len(q) = n + 1 /\ (\A j \in 1..n : q[j] = m[j]) /\ RowOf(p, q[n+1], pcs[n+1])
  BY <1>1 DEF OneRow, Longer
<1>3. \A j \in 1..n : RowOf(p, q[j], pcs[j]) /\ GoesOn(p, q[j], pcs[j], pcs[j+1])
  BY <1>2 DEF Drafts
<1>4. Len(q) <= Len(pcs) /\ \A j \in 1..n+1 : j \in 1..n \/ j = n + 1
  BY <1>1, <1>2
<1>5. \A j \in 1..Len(q) : RowOf(p, q[j], pcs[j])
  BY <1>2, <1>3, <1>4
<1> QED BY <1>3, <1>4, <1>5 DEF Drafts

LEMMA DraftsStep ==
  ASSUME NEW p, NEW pcs, NEW m, NEW n, n = Len(m), Drafts(p, pcs, m, n), NEW i, NextRow(m, pcs, i),
         NEW pc, pc = pcs[i], NEW next, next = pcs[i+1], NEW q, OneStep(p, m, q, pc, next), NEW k, k = Len(q)
  PROVE  Drafts(p, pcs, q, k)
<1>1. Drafts(p, pcs, q, n)
  <2>1. OneRow(p, m, q, pc)
    BY DEF OneStep
  <2> QED BY <2>1, DraftsRow
<1>2. n \in Nat /\ i = n + 1 /\ k = n + 1
  BY DEF NextRow, OneStep, OneRow, Longer
<1>3. GoesOn(p, q[n+1], pcs[n+1], pcs[n+1+1])
  BY <1>2 DEF OneStep
<1>4. \A j \in 1..k : j \in 1..n \/ j = n + 1
  BY <1>2
<1>5. \A j \in 1..k : GoesOn(p, q[j], pcs[j], pcs[j+1])
  BY <1>1, <1>3, <1>4 DEF Drafts
<1> QED BY <1>1, <1>5 DEF Drafts

LEMMA DraftsLonger ==
  ASSUME NEW S, NEW pcs \in Seq(S), NEW pc \in S, NEW l, l = Append(pcs, pc), NEW p, NEW m, NEW n \in Int, n < Len(pcs),
         Drafts(p, pcs, m, n), Len(m) \in Nat
  PROVE  Drafts(p, l, m, n)
<1>1. PICK k \in Nat : k = Len(pcs) /\ Len(l) = k + 1 /\ \A i \in 1..k : l[i] = pcs[i]
  OBVIOUS
<1>2. Len(m) <= k
  BY <1>1 DEF Drafts
<1>3. \A i \in 1..Len(m) : RowOf(p, m[i], l[i])
  <2>1. \A i \in 1..Len(m) : i \in 1..k
    BY <1>2
  <2> QED BY <1>1, <2>1 DEF Drafts
<1>4. \A i \in 1..n : GoesOn(p, m[i], l[i], l[i+1])
  <2>1. \A i \in 1..n : i \in 1..k /\ i + 1 \in 1..k
    BY <1>1
  <2> QED BY <1>1, <2>1 DEF Drafts
<1> QED BY <1>1, <1>2, <1>3, <1>4 DEF Drafts

LEMMA JoinPart ==
  ASSUME NEW a, AnySeq(a), NEW b, AnySeq(b), NEW m, m = a \o b
  PROVE  Len(a) \in Nat /\ Len(m) \in Nat /\ Len(a) <= Len(m) /\ \A i \in 1..Len(a) : m[i] = a[i]
<1>1. PICK S, T : a \in Seq(S) /\ b \in Seq(T)
  BY DEF AnySeq
<1>2. a \in Seq(S \cup T) /\ b \in Seq(S \cup T)
  BY <1>1
<1> QED BY <1>2

LEMMA DraftsPart ==
  ASSUME NEW p, NEW pcs, Len(pcs) \in Nat, NEW rs, AnySeq(rs), NEW b, AnySeq(b), NEW m, m = rs \o b,
         NEW n \in Int, n >= Len(m) - 1, Drafts(p, pcs, m, n)
  PROVE  Drafts(p, pcs, rs, Len(rs) - 1)
<1>1. Len(rs) \in Nat /\ Len(m) \in Nat /\ Len(rs) <= Len(m) /\ \A i \in 1..Len(rs) : m[i] = rs[i]
  BY JoinPart
<1>2. PICK k \in Nat : k = Len(rs)
  BY <1>1
<1>3. /\ \A i \in 1..k : i \in 1..Len(m)
      /\ \A i \in 1..k-1 : i \in 1..n /\ i \in 1..k
  BY <1>1, <1>2
<1>4. /\ Len(rs) <= Len(pcs)
      /\ \A i \in 1..k : RowOf(p, rs[i], pcs[i])
      /\ \A i \in 1..k-1 : GoesOn(p, rs[i], pcs[i], pcs[i+1])
  BY <1>1, <1>2, <1>3 DEF Drafts
<1> QED BY <1>2, <1>4 DEF Drafts

\* The generator is two instructions behind its log.
Wrote(p, pcs, g) ==
  /\ Len(Made(g)) = IF Len(pcs) < 2 THEN 0 ELSE Len(pcs) - 2
  /\ Drafts(p, pcs, Made(g), IF g.finished THEN Len(Made(g)) - 1 ELSE Len(Made(g)))

LEMMA HeaderWrites ==
  ASSUME NEW p, NEW pcs \in Seq(DOMAIN p), NEW pc \in DOMAIN p, NEW l, Extended(pcs, pc, l), NEW k, k = Len(l),
         NEW g, GenOK(g), Wrote(p, pcs, g), ~g.finished, NEW o, NEW w,
         NEW h, h = header(g, p, l, k, o, <<>>, w)
  PROVE  Wrote(p, l, h)
<1>1. PICK n \in Nat : n = Len(pcs) /\ k = n + 1 /\ l \in Seq(DOMAIN p) /\ k \in Nat
  BY DEF Extended
<1>2. PICK m : m = Made(g) /\ Len(m) = (IF n < 2 THEN 0 ELSE n - 2) /\ Drafts(p, pcs, m, Len(m))
  BY <1>1 DEF Wrote
<1>3. n # 0 => Drafts(p, l, m, Len(m))
  <2>1. n # 0 => Len(m) \in Int /\ Len(m) \in Nat /\ Len(m) < Len(pcs)
    BY <1>1, <1>2
  <2>2. l = Append(pcs, pc)
    BY DEF Extended
  <2> QED BY <1>2, <2>1, <2>2, DraftsLonger
<1>4. CASE k < 3
  <2>1. h = [g EXCEPT !.cpu = k - 1]
    BY <1>4 DEF header
  <2>2. h.rows = g.rows /\ h.pend = g.pend /\ h.finished = g.finished
    BY <2>1 DEF GenOK, GenFields
  <2>3. Made(h) = Made(g)
    BY <2>2 DEF Made
  <2>4. Made(h) = m /\ ~h.finished /\ Len(m) = 0
    BY <1>1, <1>2, <1>4, <2>2, <2>3
  <2>5. Drafts(p, l, m, 0)
    BY <1>1, <2>4 DEF Drafts
  <2> QED BY <1>1, <1>4, <2>4, <2>5 DEF Wrote
<1>5. CASE ~(k < 3)
  <2>1. PICK pc1, pc2, last, e :
          /\ pc1 = l[k-2] /\ pc2 = l[k-1] /\ last = Stops(o, Len(g.rec) + 1, l[k-2])
          /\ e = emit(g, p, pc1, pc2, last, <<>>, w)
    OBVIOUS
  <2>2. PICK x : x = [e EXCEPT !.finished = last] /\ h = [x EXCEPT !.cpu = k - 1]
    BY <1>5, <2>1 DEF header
  <2>3. GenOK(e)
    BY <2>1, EmitOK
  <2>4. h.rows = e.rows /\ h.pend = e.pend /\ h.finished = last
    BY <2>2, <2>3 DEF GenOK, GenFields
  <2>5. PICK q : q = Made(e) /\ q = Made(h)
    BY <2>4 DEF Made
  <2>6. OneRow(p, m, q, pc1) /\ (last \/ OneStep(p, m, q, pc1, pc2))
    <3>1. e = emit(g, p, pc1, pc2, last, <<>>, w) /\ m = Made(g) /\ q = Made(e)
      BY <1>2, <2>1, <2>5
    <3>2. Emits(p, m, q, pc1, pc2, last)
      BY <3>1, EmitAdds
    <3> QED BY <3>2 DEF Emits
  <2>7. Len(q) = Len(m) + 1 /\ Len(q) = k - 2 /\ Len(q) - 1 = Len(m)
    BY <1>1, <1>2, <1>5, <2>6 DEF OneRow, Longer
  <2>8. PICK i, j : /\ NextRow(m, l, i) /\ pc1 = l[i] /\ pc2 = l[i+1]
                    /\ j = Len(m) /\ Drafts(p, l, m, j)
    <3>1. PICK i : i = k - 2 /\ i + 1 = k - 1
      BY <1>1
    <3>2. NextRow(m, l, i)
      BY <1>1, <1>2, <1>5, <3>1 DEF NextRow
    <3>3. Drafts(p, l, m, Len(m))
      BY <1>1, <1>3, <1>5
    <3> QED BY <2>1, <3>1, <3>2, <3>3
  <2>9. Drafts(p, l, q, Len(m))
    BY <2>6, <2>8, DraftsRow
  <2>10. last \/ Drafts(p, l, q, Len(q))
    BY <2>6, <2>8, DraftsStep
  <2> QED BY <1>1, <1>5, <2>4, <2>5, <2>7, <2>9, <2>10 DEF Wrote
<1> QED BY <1>4, <1>5

\* The rows rs are those of g that are complete.
LEMMA GenPart ==
  ASSUME NEW p, NEW pcs, Len(pcs) \in Nat, NEW g, GenOK(g), NEW m, m = Made(g), NEW n \in Int, n >= Len(m) - 1,
         Drafts(p, pcs, m, n), NEW rs, rs = g.rows
  PROVE  Drafts(p, pcs, rs, Len(rs) - 1)
<1>1. PICK b : b = g.pend
  OBVIOUS
<1>2. AnySeq(rs) /\ AnySeq(b)
  BY <1>1 DEF GenOK, Writing, RowsOK, AllRowsOK
<1>3. m = rs \o b
  BY <1>1 DEF Made
<1> QED BY <1>2, <1>3, DraftsPart

LEMMA DrainWrites ==
  ASSUME NEW p, NEW pcs \in Seq(DOMAIN p), NEW g, GenOK(g), Wrote(p, pcs, g), NEW w,
         NEW h, h = drain(g, p, pcs, <<>>, w), NEW rs, rs = h.rows
  PROVE  Drafts(p, pcs, rs, Len(rs) - 1)
<1>1. PICK n, m : n \in Nat /\ n = Len(pcs) /\ m = Made(g) /\ Len(m) = (IF n < 2 THEN 0 ELSE n - 2)
  BY DEF Wrote
<1>2. Len(m) \in Nat /\ Len(pcs) \in Nat
  BY <1>1
<1>3. CASE g.finished \/ n = 0
  <2>1. h = g
    BY <1>1, <1>3 DEF drain
  <2>2. PICK k : k = IF g.finished THEN Len(m) - 1 ELSE Len(m)
    OBVIOUS
  <2>3. k \in Int /\ k >= Len(m) - 1 /\ Drafts(p, pcs, m, k)
    BY <1>1, <1>2, <2>2 DEF Wrote
  <2>4. rs = g.rows
    BY <2>1
  <2> QED BY <1>1, <1>2, <2>3, <2>4, GenPart
<1>4. CASE ~g.finished /\ n # 0
  <2>1. PICK j : j = Len(m) /\ Drafts(p, pcs, m, j)
    BY <1>1, <1>4 DEF Wrote
  <2>2. PICK g1 : /\ g1 = IF n >= 2 THEN emit(g, p, pcs[n-1], pcs[n], FALSE, <<>>, w) ELSE g
                  /\ h = emit(g1, p, pcs[n], pcs[n] + p[pcs[n]].len, TRUE, <<>>, w)
    BY <1>1, <1>4 DEF drain
  <2>3. PICK m1, k : m1 = Made(g1) /\ GenOK(g1) /\ k = Len(m1) /\ k = n - 1 /\ Drafts(p, pcs, m1, k)
    <3>1. CASE n >= 2
      <4>1. PICK i, pc, next, last : /\ i = n - 1 /\ i + 1 = n /\ pc = pcs[i] /\ next = pcs[i+1] /\ last = FALSE
                                     /\ g1 = emit(g, p, pc, next, last, <<>>, w)
        <5>1. PICK i : i = n - 1 /\ i + 1 = n
          BY <1>1
        <5>2. g1 = emit(g, p, pcs[i], pcs[n], FALSE, <<>>, w)
          BY <2>2, <3>1, <5>1
        <5> QED BY <5>1, <5>2
      <4>2. PICK m1 : m1 = Made(g1)
        OBVIOUS
      <4>3. Emits(p, m, m1, pc, next, last)
        BY <1>1, <4>1, <4>2, EmitAdds
      <4>4. OneStep(p, m, m1, pc, next)
        BY <4>1, <4>3 DEF Emits
      <4>5. Len(m1) = n - 1
        BY <1>1, <3>1, <4>4 DEF OneStep, OneRow, Longer
      <4>6. NextRow(m, pcs, i)
        BY <1>1, <1>2, <3>1, <4>1 DEF NextRow
      <4>7. Drafts(p, pcs, m1, Len(m1))
        BY <2>1, <4>1, <4>4, <4>6, DraftsStep
      <4>8. GenOK(g1)
        BY <4>1, EmitOK
      <4> QED BY <4>2, <4>5, <4>7, <4>8
    <3>2. CASE ~(n >= 2)
      <4>1. g1 = g /\ n = 1 /\ Len(m) = 0
        BY <1>1, <1>4, <2>2, <3>2
      <4> QED BY <1>1, <2>1, <4>1
    <3> QED BY <3>1, <3>2
  <2>4. PICK q, pc, next, last : /\ q = Made(h) /\ pc = pcs[n] /\ next = pcs[n] + p[pcs[n]].len /\ last = TRUE
                                 /\ h = emit(g1, p, pc, next, last, <<>>, w)
    BY <2>2
  <2>5. Emits(p, m1, q, pc, next, last)
    BY <2>3, <2>4, EmitAdds
  <2>6. OneRow(p, m1, q, pc)
    BY <2>5 DEF Emits
  <2>7. NextRow(m1, pcs, n)
    BY <1>1, <1>4, <2>3 DEF NextRow
  <2>8. Drafts(p, pcs, q, k)
    BY <2>3, <2>4, <2>6, <2>7, DraftsRow
  <2>9. k \in Int /\ k >= Len(q) - 1
    <3>1. Len(m1) \in Nat /\ Len(q) = Len(m1) + 1
      BY <2>6 DEF OneRow, Longer
    <3>2. k = Len(m1)
      BY <2>3
    <3> QED BY <3>1, <3>2
  <2>10. GenOK(h)
    BY DrainOK
  <2> QED BY <1>2, <2>4, <2>8, <2>9, <2>10, GenPart
<1> QED BY <1>3, <1>4
----------------------------------------------------------------------------
(* The log.                                                                *)

\* What comes later does not matter.
LEMMA OpenStays ==
  ASSUME NEW S, NEW pcs \in Seq(S), NEW pc \in S, NEW l, Extended(pcs, pc, l), NEW n \in Nat, n <= Len(pcs), NEW p
  PROVE  OpenAt(p, l, n) = OpenAt(p, pcs, n)
<1>1. SubSeq(l, 1, n) = SubSeq(pcs, 1, n)
  BY DEF Extended
<1> QED BY <1>1 DEF OpenAt

LEMMA StepStays ==
  ASSUME NEW p, NEW pcs \in Seq(DOMAIN p), NEW pc \in DOMAIN p, NEW l, l = Append(pcs, pc),
         NEW i \in 1..Len(pcs)-1, StepOf(p, pcs, i)
  PROVE  StepOf(p, l, i)
<1>1. l[i] = pcs[i] /\ l[i+1] = pcs[i+1]
  OBVIOUS
<1>2. PICK n \in Nat : n = i - 1 /\ n <= Len(pcs)
  OBVIOUS
<1>3. OpenAt(p, l, n) = OpenAt(p, pcs, n)
  <2>1. Extended(pcs, pc, l)
    BY DEF Extended
  <2> QED BY <1>2, <2>1, OpenStays
<1> QED BY <1>1, <1>2, <1>3 DEF StepOf

LEMMA SuccessorSteps ==
  ASSUME NEW pcs \in Seq(DOMAIN prog), pcs # <<>>, NEW pc \in Successors(pcs), NEW l, l = Append(pcs, pc)
  PROVE  pc \in DOMAIN prog /\ StepOf(prog, l, Len(pcs))
<1>1. PICK n \in Nat \ {0}, c \in DOMAIN prog : n = Len(pcs) /\ c = pcs[n]
  OBVIOUS
<1>2. l[n] = c /\ l[n+1] = pc
  BY <1>1
<1>3. PICK d, open : d = prog[c] /\ open = OpenAt(prog, pcs, n - 1)
  OBVIOUS
<1>4. Last(pcs) = c /\ Open(Front(pcs)) = open
  BY <1>1, <1>3 DEF Last, Front, Open, OpenAt
<1>5. OpenAt(prog, l, n - 1) = open
  <2>1. PICK m \in Nat : m = n - 1 /\ m <= Len(pcs)
    BY <1>1
  <2>2. pc \in DOMAIN prog
    BY DEF Successors
  <2>3. Extended(pcs, pc, l)
    BY DEF Extended
  <2>4. OpenAt(prog, l, m) = OpenAt(prog, pcs, m)
    BY <2>1, <2>2, <2>3, OpenStays
  <2> QED BY <1>3, <2>1, <2>4
<1>6. pc \in DOMAIN prog
  BY DEF Successors
<1>7. ~Ctrl(d) => pc = c + d.len \/ (d.kind = "sys" /\ pc \in d.to)
  BY <1>3, <1>4 DEF Successors, Ctrl
<1>8. ASSUME d.kind = "ret" PROVE ReturnsTo(prog, open, pc)
  <2>1. pc \in IF open = <<>> THEN {} ELSE {Last(open) + prog[Last(open)].len}
    BY <1>3, <1>4, <1>8 DEF Successors
  <2> QED BY <2>1 DEF ReturnsTo, Last
<1> QED BY <1>1, <1>2, <1>3, <1>5, <1>6, <1>7, <1>8 DEF StepOf

LEMMA LogGrows ==
  ASSUME NEW pcs, LogOf(prog, pcs), NEW pc \in DOMAIN prog, pcs = <<>> \/ pc \in Successors(pcs),
         NEW l, l = Append(pcs, pc)
  PROVE  LogOf(prog, l)
<1>1. pcs \in Seq(DOMAIN prog)
  BY DEF LogOf
<1>2. PICK n \in Nat : n = Len(pcs) /\ Len(l) = n + 1 /\ l \in Seq(DOMAIN prog)
  BY <1>1
<1>3. ASSUME NEW i \in 1..n PROVE StepOf(prog, l, i)
  <2>1. CASE i = n
    <3>1. pcs # <<>>
      BY <1>2, <2>1
    <3> QED BY <1>1, <1>2, <2>1, <3>1, SuccessorSteps
  <2>2. CASE i # n
    <3>1. i \in 1..Len(pcs)-1
      BY <1>2, <2>2
    <3>2. StepOf(prog, pcs, i)
      BY <3>1 DEF LogOf
    <3> QED BY <1>1, <3>1, <3>2, StepStays
  <2> QED BY <2>1, <2>2
<1> QED BY <1>2, <1>3 DEF LogOf
----------------------------------------------------------------------------
(* The calls that are open in a run.                                       *)

\* Rows are left for the front end.
Coming == phase = "log" \/ (phase = "front" /\ at <= Len(rows))

\* The rows are those of the log, and the stack holds the calls of those read.
CInv ==
  /\ HInv /\ LogOf(prog, log) /\ Drafts(prog, log, rows, Len(rows) - 1)
  /\ phase = "log" => Wrote(prog, log, gen) /\ sim = Start
  /\ Tracks(prog, log, PastLen, sim.ras)
  /\ Coming => LensOK(prog, sim.ilen)

LEMMA TracksNothing ==
  ASSUME NEW p, NEW S, NEW pcs \in Seq(S), NEW r, r = RasInit
  PROVE  Tracks(p, pcs, 0, r)
<1>1. SubSeq(pcs, 1, 0) = <<>>
  OBVIOUS
<1>2. OpenAt(p, pcs, 0) = <<>>
  BY <1>1, NothingOpen DEF OpenAt
<1>3. Len(<<>>) = 0 /\ 1..0 = {}
  OBVIOUS
<1>4. DOMAIN r.s = 0..ras_depth-1 /\ r.cnt = 0
  BY DEF RasInit
<1> QED BY <1>2, <1>3, <1>4 DEF Tracks, Matches, Whole

LEMMA StartKnows ==
  ASSUME NEW s, s = Start
  PROVE  s.ras = RasInit /\ DOMAIN s.ilen = {}
BY DEF Start

LEMMA CaseIsOK ==
  ASSUME case \in Cases
  PROVE  ProgOK(prog)
BY PreprocessAssumption DEF ProgOK, prog

LEMMA CInvInit == Init => CInv
<1> SUFFICES ASSUME Init PROVE CInv
  OBVIOUS
<1>1. HInv
  BY HInvInit
<1>2. rows = <<>> /\ phase = "log" /\ log = <<>> /\ gen = GenInit /\ sim = Start
  BY DEF Init
<1>3. PICK p, l, s, g : p = prog /\ l = log /\ s = sim /\ g = gen
  OBVIOUS
<1>4. l = <<>> /\ l \in Seq(DOMAIN p) /\ Len(l) = 0 /\ Len(rows) = 0
  BY <1>2, <1>3
<1>5. LogOf(p, l)
  BY <1>4 DEF LogOf
<1>6. \A m, k : Len(m) = 0 /\ k \in {0, -1} => Drafts(p, l, m, k)
  BY <1>4 DEF Drafts
<1>7. Wrote(p, l, g)
  <2>1. g.rows = <<>> /\ g.pend = <<>> /\ ~g.finished
    BY <1>2, <1>3 DEF GenInit
  <2>2. Len(Made(g)) = 0
    BY <2>1 DEF Made
  <2> QED BY <1>4, <1>6, <2>1, <2>2 DEF Wrote
<1>8. s.ras = RasInit /\ DOMAIN s.ilen = {}
  BY <1>2, <1>3, StartKnows
<1>9. Tracks(p, l, 0, s.ras)
  BY <1>4, <1>8, TracksNothing
<1>10. LensOK(p, s.ilen)
  BY <1>8 DEF LensOK
<1>11. PastLen = 0 /\ Drafts(p, l, rows, Len(rows) - 1)
  BY <1>2, <1>4, <1>6 DEF PastLen
<1> QED BY <1>1, <1>2, <1>3, <1>5, <1>7, <1>9, <1>10, <1>11 DEF CInv

LEMMA CInvRetire ==
  ASSUME CInv, HInv', NEW pc \in DOMAIN prog, Retire(pc)
  PROVE  CInv'
<1>1. /\ phase = "log" /\ ~gen.finished /\ UNCHANGED <<case, phase, rows, at, sim>>
      /\ (log = <<>> \/ pc \in Successors(log)) /\ log' = Append(log, pc)
      /\ gen' = header(gen, prog, log', Len(log'), case.o, <<>>, case.w)
  BY DEF Retire
<1>2. PICK p, a, l, g, h : p = prog /\ a = log /\ l = log' /\ g = gen /\ h = gen'
  OBVIOUS
<1>3. rows = <<>> /\ GenOK(g) /\ Wrote(p, a, g) /\ ~g.finished /\ LogOf(p, a)
  BY <1>1, <1>2 DEF CInv, HInv, Reader
<1>4. a \in Seq(DOMAIN p) /\ pc \in DOMAIN p
  BY <1>2, <1>3 DEF LogOf
<1>5. LogOf(p, l)
  <2>1. LogOf(prog, a) /\ (a = <<>> \/ pc \in Successors(a)) /\ l = Append(a, pc)
    BY <1>1, <1>2, <1>3
  <2>2. LogOf(prog, l)
    BY <2>1, LogGrows
  <2> QED BY <1>2, <2>2
<1>6. Wrote(p, l, h)
  <2>1. PICK k, o, w : k = Len(l) /\ h = header(g, p, l, k, o, <<>>, w) /\ Extended(a, pc, l)
    BY <1>1, <1>2 DEF Extended
  <2> QED BY <1>3, <1>4, <2>1, HeaderWrites
<1>7. sim = Start /\ PastLen = 0 /\ PastLen' = 0 /\ Len(rows) = 0 /\ rows' = <<>>
  BY <1>1, <1>3 DEF CInv, PastLen
<1>8. PICK r : r = sim.ras /\ r = RasInit
  BY <1>7, StartKnows
<1>9. l \in Seq(DOMAIN p)
  BY <1>5 DEF LogOf
<1>10. Tracks(p, l, 0, r)
  BY <1>8, <1>9, TracksNothing
<1>11. LensOK(p, sim.ilen)
  BY <1>1, <1>2 DEF CInv, Coming
<1>12. Drafts(p, l, rows, -1)
  BY <1>7, <1>9 DEF Drafts
<1>13. prog' = p /\ phase' = "log" /\ sim' = sim /\ rows' = rows /\ Len(rows) - 1 = -1
  BY <1>1, <1>2, <1>7 DEF prog
<1> QED BY <1>2, <1>5, <1>6, <1>7, <1>8, <1>10, <1>11, <1>12, <1>13 DEF CInv

LEMMA CInvLogEnds ==
  ASSUME CInv, HInv', LogEnds
  PROVE  CInv'
<1>1. /\ phase = "log" /\ phase' = "front" /\ UNCHANGED <<case, log, at, sim>>
      /\ gen' = drain(gen, prog, log, <<>>, case.w) /\ rows' = gen'.rows
  BY DEF LogEnds
<1>2. PICK p, l, g, h, rs : p = prog /\ l = log /\ g = gen /\ h = gen' /\ rs = rows'
  OBVIOUS
<1>3. GenOK(g) /\ Wrote(p, l, g) /\ LogOf(p, l) /\ rows = <<>> /\ at = 1
  BY <1>1, <1>2 DEF CInv, HInv, Reader
<1>4. l \in Seq(DOMAIN p)
  BY <1>3 DEF LogOf
<1>5. Drafts(p, l, rs, Len(rs) - 1)
  <2>1. PICK w : h = drain(g, p, l, <<>>, w) /\ rs = h.rows
    BY <1>1, <1>2
  <2> QED BY <1>3, <1>4, <2>1, DrainWrites
<1>6. PastLen = 0 /\ PastLen' = 0
  BY <1>1, <1>3 DEF PastLen
<1>7. prog' = p /\ log' = l /\ sim' = sim
  BY <1>1, <1>2 DEF prog
<1>8. Tracks(p, l, 0, sim.ras) /\ LensOK(p, sim.ilen)
  BY <1>1, <1>2, <1>6 DEF CInv, Coming
<1> QED BY <1>1, <1>2, <1>3, <1>5, <1>6, <1>7, <1>8 DEF CInv

LEMMA CInvBlock ==
  ASSUME CInv, HInv', Block
  PROVE  CInv'
<1>1. phase = "front" /\ at <= Len(rows)
  BY DEF Block
<1>2. PICK raw, r, t : RanBlock(raw, r, t) /\ raw = read_raw(rows, at) /\ r = RunBlock(case.fe, sim, raw, case.lucky)
  BY DEF Block
<1>3. PICK c \in FrontEndOptions : c = case.fe
  BY PreprocessAssumption DEF CInv, HInv, SInv
<1>4. PICK s, n, lucky, rs, a, i, p, l :
        /\ s = sim /\ n = r.s /\ lucky = case.lucky /\ rs = rows /\ a = at /\ i = raw.n_instr
        /\ p = prog /\ l = log
  OBVIOUS
<1>5. Len(rs) \in Nat /\ RowsOK(rs) /\ a \in 1..Len(rs)
  BY <1>1, <1>4 DEF CInv, HInv, Reader, RowsOK, AnySeq
<1>6. /\ Sound(s) /\ Tracks(p, l, a - 1, s.ras) /\ LensOK(p, s.ilen)
      /\ LogOf(p, l) /\ Drafts(p, l, rs, Len(rs) - 1)
  BY <1>1, <1>4 DEF CInv, HInv, SInv, PastLen, Coming
<1>7. ProgOK(p)
  BY <1>4, CaseIsOK DEF CInv, HInv, SInv
<1>8. raw = read_raw(rs, a) /\ n = RunBlock(c, s, raw, lucky).s
  BY <1>2, <1>3, <1>4
<1>9. /\ Tracks(p, l, a - 1 + raw.n_instr, n.ras)
      /\ a - 1 + raw.n_instr < Len(rs) => LensOK(p, n.ilen)
  BY <1>3, <1>5, <1>6, <1>7, <1>8, RunTracks
<1>10. at' = a + i /\ sim' = n /\ UNCHANGED <<case, phase, log, rows>>
  BY <1>2, <1>4 DEF RanBlock
<1>11. at' \in 1..Len(rows)+1
  BY <1>1, <1>10 DEF HInv, Reader
<1>12. PICK b \in Nat : b = at' /\ b - 1 = a - 1 + i /\ PastLen' = b - 1
  <2>1. PICK b \in Nat : b = at'
    BY <1>4, <1>5, <1>11
  <2>2. i \in Int
    <3>1. PICK e : e = fix_fallthru(raw)
      OBVIOUS
    <3>2. i \in 1..Len(rs) - a + 1
      BY <1>4, <1>5, <1>8, <3>1, BlockRead
    <3> QED BY <3>2
  <2>3. PastLen' = b - 1
    BY <1>1, <1>10, <2>1 DEF PastLen
  <2> QED BY <1>5, <1>10, <2>1, <2>2, <2>3
<1>13. Tracks(p, l, b - 1, n.ras) /\ (b <= Len(rs) => LensOK(p, n.ilen))
  <2>1. b <= Len(rs) => b - 1 < Len(rs)
    BY <1>5
  <2> QED BY <1>4, <1>9, <1>12, <2>1
<1>14. prog' = p /\ log' = l /\ rows' = rs /\ phase' = "front"
  BY <1>1, <1>4, <1>10 DEF prog
<1> QED BY <1>6, <1>10, <1>12, <1>13, <1>14 DEF CInv, Coming

LEMMA CInvNext == CInv /\ [Next]_vars => CInv'
<1> SUFFICES ASSUME CInv, [Next]_vars PROVE CInv'
  OBVIOUS
<1>1. HInv'
  BY HInvNext DEF CInv
<1>2. ASSUME NEW pc \in DOMAIN prog, Retire(pc) PROVE CInv'
  BY <1>1, <1>2, CInvRetire
<1>3. CASE LogEnds
  BY <1>1, <1>3, CInvLogEnds
<1>4. CASE Block
  BY <1>1, <1>4, CInvBlock
<1>5. ASSUME UNCHANGED <<case, log, rows, sim>>, phase' \in {"again", "done"}, PastLen' = PastLen PROVE CInv'
  <2>1. prog' = prog /\ ~Coming'
    BY <1>5 DEF prog, Coming
  <2> QED BY <1>1, <1>5, <2>1 DEF CInv
<1>6. CASE FrontEnds
  <2>1. phase = "front" /\ phase' = "again" /\ at > Len(rows) /\ UNCHANGED <<case, log, rows, sim>>
    BY <1>6 DEF FrontEnds
  <2>2. at \in 1..Len(rows)+1 /\ Len(rows) \in Nat
    BY <2>1 DEF CInv, HInv, Reader, RowsOK, AnySeq
  <2>3. PastLen' = PastLen
    BY <2>1, <2>2 DEF PastLen
  <2> QED BY <1>5, <2>1, <2>3
<1>7. CASE Again \/ AgainEnds
  <2>1. phase = "again" /\ phase' \in {"again", "done"} /\ UNCHANGED <<case, log, rows, sim>>
    BY <1>7 DEF Again, AgainEnds
  <2>2. PastLen' = PastLen
    BY <2>1 DEF PastLen
  <2> QED BY <1>5, <2>1, <2>2
<1>8. CASE UNCHANGED vars
  <2>1. UNCHANGED <<case, phase, log, rows, at, gen, sim>>
    BY <1>8 DEF vars
  <2>2. PastLen' = PastLen /\ Coming' = Coming /\ prog' = prog
    BY <2>1 DEF PastLen, Coming, prog
  <2> QED BY <1>1, <2>1, <2>2 DEF CInv
<1> QED BY <1>2, <1>3, <1>4, <1>6, <1>7, <1>8 DEF Next

\* Only the first n instructions matter, and their addresses.
LEMMA OpenOfFirst ==
  ASSUME NEW p, NEW S, NEW l \in Seq(S), NEW n \in 0..Len(l), NEW pcs \in Seq(S), Len(pcs) = n,
         \A i \in 1..n : pcs[i] = l[i], NEW m \in 0..n
  PROVE  OpenAt(p, pcs, m) = OpenAt(p, l, m)
<1>1. PICK a, b : a = SubSeq(l, 1, m) /\ b = SubSeq(pcs, 1, m)
  OBVIOUS
<1>2. m \in Nat /\ Len(a) = m /\ \A i \in 1..m : a[i] = l[i]
  BY <1>1
<1>3. Len(b) = m /\ \A i \in 1..m : b[i] = pcs[i]
  BY <1>1
<1>4. Begins(a, b)
  BY <1>2, <1>3 DEF Begins
<1>5. OpenAfter(p, b) = OpenAfter(p, a)
  BY <1>2, <1>3, <1>4, OpenSame
<1> QED BY <1>1, <1>5 DEF OpenAt

LEMMA EntriesAre ==
  ASSUME NEW r, RingOK(r), NEW e, e = RasEntries(r)
  PROVE  Len(e) = r.cnt /\ DOMAIN e = 1..r.cnt /\ \A i \in 1..r.cnt : e[i] = FromTop(r, r.cnt + 1 - i)
<1>1. PICK n \in Nat, t \in Nat : n = r.cnt /\ t = r.top
  BY DEF RingOK
<1>2. ras_depth \in Nat
  BY PredictorsAssumption
<1>3. e = [i \in 1..n |-> r.s[(t + ras_depth - n + i - 1) % ras_depth]]
  BY <1>1 DEF RasEntries
<1>4. DOMAIN e = 1..n /\ Len(e) = n
  BY <1>1, <1>3
<1>5. ASSUME NEW i \in 1..n PROVE e[i] = FromTop(r, n + 1 - i)
  <2>1. PICK x : x = t + ras_depth - n + i - 1 /\ x = t + ras_depth - (n + 1 - i)
    BY <1>1, <1>2
  <2>2. e[i] = r.s[x % ras_depth]
    BY <1>3, <2>1
  <2>3. FromTop(r, n + 1 - i) = r.s[x % ras_depth]
    BY <1>1, <2>1 DEF FromTop, At
  <2> QED BY <2>2, <2>3
<1> QED BY <1>1, <1>4, <1>5

\* A stack that tracks a log shows what is open.
LEMMA StackShows ==
  ASSUME NEW p, NEW l, NEW n, NEW r, RingOK(r), Tracks(p, l, n, r), NEW S, OpenAt(p, l, n) \in Seq(S),
         NEW open, open = OpenAt(p, l, n), NEW e, e = RasEntries(r), NEW k, k = Len(open) - Len(e)
  PROVE  /\ k >= 0
         /\ k > 0 => Deep(p, l, n) # {}
         /\ \A i \in DOMAIN e : EntryOf(p, e[i], open[k + i])
<1>1. PICK c \in Nat, d \in Nat : c = r.cnt /\ d = Len(open)
  BY DEF RingOK
<1>2. Len(e) = c /\ DOMAIN e = 1..c /\ \A i \in 1..c : e[i] = FromTop(r, c + 1 - i)
  BY <1>1, EntriesAre
<1>3. c <= d /\ \A j \in 1..c : EntryOf(p, FromTop(r, j), open[d + 1 - j])
  BY <1>1 DEF Tracks, Matches
<1>4. k = d - c
  BY <1>1, <1>2
<1>5. k > 0 => Deep(p, l, n) # {}
  BY <1>1, <1>4 DEF Tracks, Whole
<1>6. ASSUME NEW i \in 1..c PROVE EntryOf(p, e[i], open[k + i])
  <2>1. PICK j \in 1..c : j = c + 1 - i /\ d + 1 - j = k + i
    BY <1>4
  <2> QED BY <1>2, <1>3, <2>1
<1> QED BY <1>2, <1>3, <1>4, <1>5, <1>6

LEMMA CInvIsRight == CInv => CallsAndLengths
<1> SUFFICES ASSUME CInv PROVE CallsAndLengths
  OBVIOUS
<1>1. PICK p, l, rs, r, n : p = prog /\ l = log /\ rs = rows /\ r = sim.ras /\ n = PastLen
  OBVIOUS
<1>2. PICK S : rs \in Seq(S)
  BY <1>1 DEF CInv, HInv, RowsOK, AnySeq
<1>3. n \in 0..Len(rs)
  BY <1>1, <1>2 DEF CInv, HInv, Reader, PastLen
<1>4. l \in Seq(DOMAIN p) /\ Drafts(p, l, rs, Len(rs) - 1) /\ Tracks(p, l, n, r) /\ RingOK(r)
  BY <1>1 DEF CInv, HInv, SInv, Sound, LogOf
<1>5. n \in 0..Len(l) /\ \A i \in 1..n : i \in 1..Len(rs) /\ i \in 1..Len(l)
  BY <1>2, <1>3, <1>4 DEF Drafts
<1>6. PICK past : past = Past /\ past = SubSeq(rs, 1, n)
  BY <1>1 DEF Past, PastLen
<1>7. DOMAIN past = 1..n /\ \A i \in 1..n : past[i] = rs[i]
  BY <1>2, <1>3, <1>6
<1>8. PICK pcs : pcs = [i \in DOMAIN past |-> past[i].pc]
  OBVIOUS
<1>9. \A i \in 1..n : pcs[i] = l[i]
  BY <1>4, <1>5, <1>7, <1>8 DEF Drafts, RowOf
<1>10. DOMAIN pcs = 1..n /\ pcs \in Seq(DOMAIN p) /\ Len(pcs) = n
  <2>1. \A i \in 1..n : l[i] \in DOMAIN p
    BY <1>4, <1>5
  <2>2. pcs = [i \in 1..n |-> l[i]]
    BY <1>7, <1>8, <1>9
  <2>3. n \in Nat
    BY <1>5
  <2> QED BY <2>1, <2>2, <2>3
<1>11. \A m \in 0..n : OpenAt(p, pcs, m) = OpenAt(p, l, m)
  BY <1>4, <1>5, <1>9, <1>10, OpenOfFirst
<1>12. PICK open : open = Open(pcs) /\ open = OpenAt(p, l, n) /\ open \in Seq(DOMAIN p)
  <2>1. SubSeq(pcs, 1, n) = pcs
    BY <1>10
  <2>2. OpenAt(p, pcs, n) = OpenAfter(p, pcs)
    BY <2>1 DEF OpenAt
  <2>3. n \in 0..n
    BY <1>5
  <2>4. OpenAfter(p, pcs) \in Seq(DOMAIN p)
    BY <1>10, OpenType
  <2> QED BY <1>1, <1>11, <2>2, <2>3, <2>4 DEF Open
<1>13. PICK e, k : e = RasEntries(r) /\ k = Len(open) - Len(e)
  OBVIOUS
<1>14. /\ k >= 0
       /\ k > 0 => Deep(p, l, n) # {}
       /\ \A i \in DOMAIN e : EntryOf(p, e[i], open[k + i])
  BY <1>4, <1>12, <1>13, StackShows
<1>15. k > 0 => \E m \in DOMAIN pcs : Len(Open(SubSeq(pcs, 1, m))) > ras_depth
  <2>1. ASSUME NEW m \in Deep(p, l, n) PROVE m \in DOMAIN pcs /\ Len(Open(SubSeq(pcs, 1, m))) > ras_depth
    <3>1. m \in 1..n /\ m \in 0..n /\ Len(OpenAt(p, l, m)) > ras_depth
      BY <1>5, <2>1 DEF Deep
    <3>2. OpenAt(p, l, m) = Open(SubSeq(pcs, 1, m))
      BY <1>1, <1>11, <3>1 DEF Open, OpenAt
    <3> QED BY <1>10, <3>1, <3>2
  <2> QED BY <1>14, <2>1
<1>16. \A i \in DOMAIN e : /\ e[i].call_pc = open[k + i]
                           /\ e[i].addr - e[i].call_pc \in {p[e[i].call_pc].len, ilen_bytes}
  BY <1>14 DEF EntryOf
<1>17. LengthsRight
  BY DEF LengthsRight, CInv, Coming, LensOK, LenOf
<1>18. /\ pcs = [i \in DOMAIN Past |-> Past[i].pc] /\ e = RasEntries(sim.ras)
       /\ open = Open(pcs) /\ k = Len(open) - Len(e)
  BY <1>1, <1>6, <1>8, <1>12, <1>13
<1>19. \A i \in DOMAIN e : /\ e[i].call_pc = open[k + i]
                           /\ e[i].addr - e[i].call_pc \in {prog[e[i].call_pc].len, ilen_bytes}
  BY <1>1, <1>16
<1>20. k >= 0
  BY <1>14
<1> QED BY <1>15, <1>17, <1>18, <1>19, <1>20 DEF CallsAndLengths

\* What the return stack knows: at every block its entries are the calls that
\* are open after the rows read so far, the innermost last, each with the
\* address behind it or the fixed length of a call that was not known yet; an
\* open call is missing only if more were open at some time than the ring has
\* room for; and every length learned from where a block went on is the length
\* of its last instruction, or how far the handler of its trap is, as long as
\* rows are left.  Wrong paths, mispredictions and blocks left early change
\* nothing in that (predictors.hpp:504-537, frontend_sim.cpp:652-690).
THEOREM CallsStayOpen == Spec => []CallsAndLengths
BY CInvInit, CInvNext, CInvIsRight, PTL DEF Spec
============================================================================
