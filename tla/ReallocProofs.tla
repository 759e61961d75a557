----------------------------- MODULE ReallocProofs -----------------------------
(***************************************************************************)
(* Theorems of Realloc, for any sizes and alignments and any heap.         *)
(***************************************************************************)
EXTENDS Realloc, FiniteSetTheorems, WellFoundedInduction, TLAPS

-----------------------------------------------------------------------------
(* The free-list allocator.  Its state is described by what a heap is made  *)
(* of: the blocks S that tile it, their sizes sz, those L that are in the   *)
(* lists, ranks rk below m that descend along a list, what of was handed    *)
(* out.  A call opens the heap, and these stand for any that may be open.   *)

(* A free block needs the cell of its tag, and the next for its links.      *)
Linkable == {c \in Cells : c + 8 \in Cells}

HeapOK(h) ==
    h \in [mem : [Cells -> [lo : Nat, hi : Nat]], bin : [Bins -> Nat], frontier : Nat]

(* Blocks tile the heap up to its end: they lie apart, and each begins      *)
(* where one ends.                                                          *)
Layout(S, sz, end) ==
    /\ S \subseteq Cells /\ sz \in [Cells -> Nat]
    /\ end \in Nat /\ end <= Top /\ end % 16 = 8
    /\ \A b \in S : /\ b % 16 = 8 /\ sz[b] % 16 = 0 /\ sz[b] >= 32
                    /\ b + sz[b] \in S \cup {end} /\ b + sz[b] <= end
    /\ \A b, c \in S : b < c => b + sz[b] <= c
    /\ First \in S \cup {end}
    /\ \A e \in S \cup {end} : e # First => \E p \in S : p + sz[p] = e

Flag(b, F) == IF b \in F THEN 0 ELSE 1

(* The blocks of T have their tags: their size, and whether they are in F.  *)
Tagged(h, T, sz, F) ==
    \A b \in T : /\ Tag(h, b) = sz[b] + Flag(b, F)
                 /\ Tag(h, b + sz[b] - 8) = sz[b] + Flag(b, F)

(* L is what the bins hold: next and prev agree, a block without a prev     *)
(* heads its bin, and ranks, below m, descend along a list.                 *)
Linked(h, L, sz, rk, b) ==
    LET n == NextOf(h, b)
        p == PrevOf(h, b)
    IN  /\ n # 0 => /\ n \in L /\ Bin(sz[n]) = Bin(sz[b])
                    /\ PrevOf(h, n) = b /\ rk[n] < rk[b]
        /\ p # 0 => p \in L /\ NextOf(h, p) = b
        /\ p = 0 => h.bin[Bin(sz[b])] = b

Lists(h, L, sz, rk, m) ==
    /\ L \subseteq Linkable /\ sz \in [Cells -> Nat] /\ rk \in [Cells -> Nat] /\ m \in Nat
    /\ \A b \in L : sz[b] >= 32 /\ rk[b] < m /\ Linked(h, L, sz, rk, b)
    /\ \A k \in Bins : h.bin[k] # 0 =>
         h.bin[k] \in L /\ Bin(sz[h.bin[k]]) = k /\ PrevOf(h, h.bin[k]) = 0

(* The payloads of the blocks in U are in use, and hold their owner's word. *)
Grants == [size : NewSizes, data : Data]

Payload(b, n) == b + 8..b + 8 + n - 1

Holds(h, U, sz, of) ==
    \A b \in U :
        /\ b + 8 \in DOMAIN of /\ of[b + 8] \in Grants /\ of[b + 8].size + 16 <= sz[b]
        /\ \A c \in Cells : c \in Payload(b, of[b + 8].size) =>
             h.mem[c] = [lo |-> of[b + 8].data, hi |-> of[b + 8].data]

(* What a call writes, it writes within W.                                  *)
SameBut(h, g, W) ==
    HeapOK(g) /\ g.frontier = h.frontier /\ \A c \in Cells \ W : g.mem[c] = h.mem[c]

Links(L) == {b + 8 : b \in L}

-----------------------------------------------------------------------------
LEMMA Numbers ==
    /\ First = 152 /\ Top \in Nat /\ Top >= First /\ Top % 16 = 8
    /\ SmallBins \in Nat \ {0} /\ Data \subseteq Nat /\ NewSizes \subseteq Nat \ {0}
BY FreeListAssumption DEF FreeListAssumption, First

LEMMA CellsAre == \A c \in Int : c \in Cells <=> First <= c /\ c < Top /\ c % 8 = 0
<1> USE Numbers
<1> SUFFICES ASSUME NEW c \in Int PROVE c \in Cells <=> First <= c /\ c < Top /\ c % 8 = 0
  OBVIOUS
<1>1. ASSUME c \in Cells PROVE First <= c /\ c < Top /\ c % 8 = 0
  <2>1. PICK i \in 0..(Top - First) \div 8 - 1 : c = First + 8 * i
    BY <1>1 DEF Cells
  <2>2. (Top - First) \div 8 \in Nat /\ 8 * ((Top - First) \div 8) <= Top - First
    OBVIOUS
  <2>3. i \in Nat /\ 8 * i + 8 <= Top - First
    BY <2>1, <2>2
  <2> QED BY <2>1, <2>3
<1>2. ASSUME First <= c, c < Top, c % 8 = 0 PROVE c \in Cells
  <2> DEFINE i == (c - First) \div 8
  <2>1. i \in Nat /\ c = First + 8 * i
    BY <1>2
  <2>2. i <= (Top - First) \div 8 - 1
    BY <1>2, <2>1
  <2>3. i \in 0..(Top - First) \div 8 - 1
    BY <2>1, <2>2
  <2> QED BY <2>1, <2>3 DEF Cells
<1> QED BY <1>1, <1>2

LEMMA CellsNat == Cells \subseteq Nat \ {0}
<1> SUFFICES ASSUME NEW c \in Cells PROVE c \in Nat \ {0}
  OBVIOUS
<1>1. c \in Int
  BY Numbers DEF Cells
<1> QED BY <1>1, CellsAre, Numbers

LEMMA BinType == \A n \in Nat : n >= 32 => Bin(n) \in Bins
BY Numbers DEF Bin, Bins

(* What the operations on memory do, cell by cell.                          *)
LEMMA StoreDoes ==
    ASSUME NEW h, HeapOK(h), NEW a \in Cells, NEW v \in Nat
    PROVE  /\ HeapOK(Store(h, a, v))
           /\ Store(h, a, v).frontier = h.frontier /\ Store(h, a, v).bin = h.bin
           /\ Store(h, a, v).mem[a] = [lo |-> v, hi |-> h.mem[a].hi]
           /\ \A c \in Cells \ {a} : Store(h, a, v).mem[c] = h.mem[c]
BY DEF HeapOK, Store

StoreHigh(h, a, v) == [h EXCEPT !.mem[a].hi = v]

LEMMA StoreHighDoes ==
    ASSUME NEW h, HeapOK(h), NEW a \in Cells, NEW v \in Nat
    PROVE  /\ HeapOK(StoreHigh(h, a, v))
           /\ StoreHigh(h, a, v).frontier = h.frontier /\ StoreHigh(h, a, v).bin = h.bin
           /\ StoreHigh(h, a, v).mem[a] = [lo |-> h.mem[a].lo, hi |-> v]
           /\ \A c \in Cells \ {a} : StoreHigh(h, a, v).mem[c] = h.mem[c]
BY DEF HeapOK, StoreHigh

LEMMA WordsNat ==
    ASSUME NEW h, HeapOK(h), NEW a \in Cells
    PROVE  h.mem[a].lo \in Nat /\ h.mem[a].hi \in Nat
BY DEF HeapOK

(* Around a listed block: its neighbours in the list, all three distinct.   *)
LEMMA Neighbours ==
    ASSUME NEW h, HeapOK(h), NEW L, NEW sz, NEW rk, NEW m, Lists(h, L, sz, rk, m), NEW b \in L
    PROVE  /\ b \in Nat \ {0} /\ b \in Cells /\ b + 8 \in Cells
           /\ NextOf(h, b) \in Nat /\ PrevOf(h, b) \in Nat
           /\ NextOf(h, b) # 0 =>
                NextOf(h, b) \in L \ {b} /\ PrevOf(h, NextOf(h, b)) = b
           /\ PrevOf(h, b) # 0 =>
                PrevOf(h, b) \in L \ {b} /\ NextOf(h, PrevOf(h, b)) = b
           /\ NextOf(h, b) # 0 => NextOf(h, b) # PrevOf(h, b)
<1>1. b \in Linkable /\ b \in Cells /\ b + 8 \in Cells /\ b \in Nat \ {0}
  BY CellsNat DEF Lists, Linkable
<1>2. NextOf(h, b) \in Nat /\ PrevOf(h, b) \in Nat
  BY <1>1, WordsNat DEF NextOf, PrevOf
<1>3. \A x \in L : x \in Cells /\ rk[x] \in Nat
  BY DEF Lists, Linkable
<1>4. \A x \in L : Linked(h, L, sz, rk, x)
  BY DEF Lists
<1>5. NextOf(h, b) # 0 =>
        NextOf(h, b) \in L /\ PrevOf(h, NextOf(h, b)) = b /\ rk[NextOf(h, b)] < rk[b]
  BY <1>4 DEF Linked
<1>6. PrevOf(h, b) # 0 =>
        /\ PrevOf(h, b) \in L /\ NextOf(h, PrevOf(h, b)) = b
        /\ rk[b] < rk[PrevOf(h, b)]
  BY <1>1, <1>4 DEF Linked
<1> QED BY <1>1, <1>2, <1>3, <1>5, <1>6

LEMMA UnlinkDoes ==
    ASSUME NEW h, HeapOK(h), NEW L, NEW sz, NEW rk, NEW m, Lists(h, L, sz, rk, m),
           NEW b \in L, Size(h, b) = sz[b], NEW g, g = Unlink(h, b),
           NEW n, n = NextOf(h, b), NEW p, p = PrevOf(h, b)
    PROVE  /\ HeapOK(g) /\ g.frontier = h.frontier
           /\ \A c \in Cells :
                (p = 0 \/ c # p + 8) /\ (n = 0 \/ c # n + 8) => g.mem[c] = h.mem[c]
           /\ p # 0 => NextOf(g, p) = n /\ PrevOf(g, p) = PrevOf(h, p)
           /\ n # 0 => NextOf(g, n) = NextOf(h, n) /\ PrevOf(g, n) = p
           /\ g.bin = IF p = 0 THEN [h.bin EXCEPT ![Bin(sz[b])] = n] ELSE h.bin
<1> DEFINE f == IF p = 0 THEN [h EXCEPT !.bin[Bin(sz[b])] = n] ELSE Store(h, p + 8, n)
<1>1. /\ n \in Nat /\ p \in Nat
      /\ n # 0 => n \in L /\ n + 8 \in Cells
      /\ p # 0 => p \in L /\ p + 8 \in Cells
      /\ n # 0 /\ p # 0 => n + 8 # p + 8
  BY Neighbours
<1>2. Bin(sz[b]) \in Bins
  BY BinType DEF Lists, Linkable
<1>3. /\ HeapOK(f) /\ f.frontier = h.frontier
      /\ \A c \in Cells : (p = 0 \/ c # p + 8) => f.mem[c] = h.mem[c]
      /\ p # 0 => NextOf(f, p) = n /\ PrevOf(f, p) = PrevOf(h, p)
      /\ f.bin = IF p = 0 THEN [h.bin EXCEPT ![Bin(sz[b])] = n] ELSE h.bin
  <2>1. CASE p = 0
    BY <1>1, <1>2, <2>1 DEF HeapOK
  <2>2. CASE p # 0
    <3>1. f = Store(h, p + 8, n)
      BY <2>2
    <3>2. /\ HeapOK(f) /\ f.frontier = h.frontier /\ f.bin = h.bin
          /\ f.mem[p + 8] = [lo |-> n, hi |-> h.mem[p + 8].hi]
          /\ \A c \in Cells \ {p + 8} : f.mem[c] = h.mem[c]
      BY <1>1, <2>2, <3>1, StoreDoes
    <3> HIDE DEF f
    <3> QED BY <2>2, <3>2 DEF NextOf, PrevOf
  <2> QED BY <2>1, <2>2
<1>4. g = IF n = 0 THEN f ELSE StoreHigh(f, n + 8, p)
  BY DEF Unlink, StoreHigh
<1> HIDE DEF f
<1>5. CASE n = 0
  BY <1>3, <1>4, <1>5
<1>6. CASE n # 0
  <2>1. /\ HeapOK(g) /\ g.frontier = f.frontier /\ g.bin = f.bin
        /\ g.mem[n + 8] = [lo |-> f.mem[n + 8].lo, hi |-> p]
        /\ \A c \in Cells \ {n + 8} : g.mem[c] = f.mem[c]
    BY <1>1, <1>3, <1>4, <1>6, StoreHighDoes
  <2>2. f.mem[n + 8] = h.mem[n + 8]
    BY <1>1, <1>3, <1>6
  <2>3. p # 0 => g.mem[p + 8] = f.mem[p + 8]
    BY <1>1, <1>6, <2>1
  <2> QED BY <1>1, <1>3, <1>6, <2>1, <2>2, <2>3 DEF NextOf, PrevOf
<1> QED BY <1>5, <1>6

LEMMA UnlinkKeeps ==
    ASSUME NEW h, HeapOK(h), NEW L, NEW sz, NEW rk, NEW m, Lists(h, L, sz, rk, m),
           NEW b \in L, Size(h, b) = sz[b]
    PROVE  /\ SameBut(h, Unlink(h, b), Links(L \ {b}))
           /\ Lists(Unlink(h, b), L \ {b}, sz, rk, m)
<1> DEFINE g == Unlink(h, b)
           n == NextOf(h, b)
           p == PrevOf(h, b)
           K == L \ {b}
<1>1. /\ HeapOK(g) /\ g.frontier = h.frontier
      /\ \A c \in Cells :
           (p = 0 \/ c # p + 8) /\ (n = 0 \/ c # n + 8) => g.mem[c] = h.mem[c]
      /\ p # 0 => NextOf(g, p) = n /\ PrevOf(g, p) = PrevOf(h, p)
      /\ n # 0 => NextOf(g, n) = NextOf(h, n) /\ PrevOf(g, n) = p
      /\ g.bin = IF p = 0 THEN [h.bin EXCEPT ![Bin(sz[b])] = n] ELSE h.bin
  BY UnlinkDoes
<1>2. /\ n \in Nat /\ p \in Nat /\ b \in Nat \ {0}
      /\ n # 0 => n \in K /\ PrevOf(h, n) = b
      /\ p # 0 => p \in K /\ NextOf(h, p) = b
      /\ n # 0 => n # p
  BY Neighbours
<1>3. \A x \in L : Linked(h, L, sz, rk, x)
  BY DEF Lists
<1>4. \A x \in L : x \in Cells /\ x \in Nat \ {0} /\ x + 8 \in Cells /\ sz[x] >= 32
  <2>1. \A x \in L : x \in Cells /\ x \in Nat \ {0} /\ x + 8 \in Cells
    BY Neighbours
  <2> QED BY <2>1 DEF Lists
<1>5. \A x \in K : x # p /\ x # n => NextOf(g, x) = NextOf(h, x) /\ PrevOf(g, x) = PrevOf(h, x)
  BY <1>1, <1>2, <1>4 DEF NextOf, PrevOf
<1>6. SameBut(h, g, Links(K))
  BY <1>1, <1>2 DEF SameBut, Links
<1>7. /\ sz \in [Cells -> Nat] /\ rk \in [Cells -> Nat] /\ h.bin \in [Bins -> Nat]
      /\ Bin(sz[b]) \in Bins
  BY BinType, <1>4 DEF Lists, HeapOK
<1>8. \A x \in L : /\ NextOf(h, x) # 0 => NextOf(h, x) \in L \ {x}
                   /\ PrevOf(h, x) # 0 => PrevOf(h, x) \in L \ {x}
  BY Neighbours
<1> HIDE DEF g, n, p
<1>9. ASSUME NEW x \in K PROVE Linked(g, K, sz, rk, x)
  <2>1. Linked(h, L, sz, rk, x) /\ Linked(h, L, sz, rk, b)
    BY <1>3
  <2>2. NextOf(h, x) = b => x = p
    BY <1>2, <2>1 DEF Linked, p
  <2>3. PrevOf(h, x) = b => x = n
    BY <1>2, <2>1 DEF Linked, n
  <2>4. NextOf(g, x) # 0 =>
          /\ NextOf(g, x) \in K /\ Bin(sz[NextOf(g, x)]) = Bin(sz[x])
          /\ PrevOf(g, NextOf(g, x)) = x /\ rk[NextOf(g, x)] < rk[x]
    <3>1. CASE x = p
      BY <1>1, <1>2, <1>4, <1>7, <2>1, <3>1 DEF Linked, n
    <3>2. CASE x # p
      <4>1. NextOf(g, x) = NextOf(h, x) /\ NextOf(h, x) # b
        BY <1>1, <1>2, <1>4, <1>5, <2>2, <3>2
      <4>2. SUFFICES ASSUME NextOf(h, x) # 0
                     PROVE  PrevOf(g, NextOf(h, x)) = x
        BY <2>1, <4>1 DEF Linked
      <4>3. NextOf(h, x) \in K /\ PrevOf(h, NextOf(h, x)) = x /\ NextOf(h, x) # n
        BY <1>2, <2>1, <4>1, <4>2 DEF Linked
      <4> QED BY <1>1, <1>2, <1>4, <1>5, <4>3
    <3> QED BY <3>1, <3>2
  <2>5. PrevOf(g, x) # 0 => PrevOf(g, x) \in K /\ NextOf(g, PrevOf(g, x)) = x
    <3>1. CASE x = n
      BY <1>1, <1>2, <1>4, <3>1
    <3>2. CASE x # n
      <4>1. PrevOf(g, x) = PrevOf(h, x) /\ PrevOf(h, x) # b
        BY <1>1, <1>2, <1>4, <1>5, <2>3, <3>2
      <4>2. SUFFICES ASSUME PrevOf(h, x) # 0 PROVE NextOf(g, PrevOf(h, x)) = x
        BY <2>1, <4>1 DEF Linked
      <4>3. PrevOf(h, x) \in K /\ NextOf(h, PrevOf(h, x)) = x /\ PrevOf(h, x) # p
        BY <1>2, <2>1, <4>1, <4>2 DEF Linked
      <4> QED BY <1>1, <1>2, <1>4, <1>5, <4>3
    <3> QED BY <3>1, <3>2
  <2>6. PrevOf(g, x) = 0 => g.bin[Bin(sz[x])] = x
    <3>1. CASE x = n
      BY <1>1, <1>2, <1>4, <1>7, <2>1, <3>1 DEF Linked, n
    <3>2. CASE x # n
      <4>1. PrevOf(g, x) = PrevOf(h, x)
        BY <1>1, <1>2, <1>4, <1>5, <3>2
      <4> QED BY <1>1, <1>7, <2>1, <4>1 DEF Linked, p
    <3> QED BY <3>1, <3>2
  <2> QED BY <2>4, <2>5, <2>6 DEF Linked
<1>10. ASSUME NEW k \in Bins, g.bin[k] # 0
       PROVE  g.bin[k] \in K /\ Bin(sz[g.bin[k]]) = k /\ PrevOf(g, g.bin[k]) = 0
  <2>1. h.bin[k] # 0 => h.bin[k] \in L /\ Bin(sz[h.bin[k]]) = k /\ PrevOf(h, h.bin[k]) = 0
    BY DEF Lists
  <2>2. CASE p = 0 /\ k = Bin(sz[b])
    <3>1. g.bin[k] = n
      BY <1>1, <1>7, <2>2
    <3> QED BY <1>1, <1>2, <1>3, <1>10, <2>2, <3>1 DEF Linked, n
  <2>3. CASE ~(p = 0 /\ k = Bin(sz[b]))
    <3>1. g.bin[k] = h.bin[k]
      BY <1>1, <1>7, <2>3
    <3>2. h.bin[k] # b
      BY <1>10, <2>1, <2>3, <3>1 DEF p
    <3>3. h.bin[k] # n
      BY <1>2, <1>10, <2>1, <3>1
    <3> QED BY <1>1, <1>5, <1>10, <2>1, <3>1, <3>2, <3>3
  <2> QED BY <2>2, <2>3
<1>11. Lists(g, K, sz, rk, m)
  BY <1>9, <1>10 DEF Lists
<1> QED BY <1>6, <1>11 DEF g, K

(* The front half of a push: the block's links, and the head of its bin.    *)
PutHead(h, b, k) ==
    [h EXCEPT !.mem[b + 8] = [lo |-> h.bin[k], hi |-> 0], !.bin[k] = b]

LEMMA PutHeadDoes ==
    ASSUME NEW h, HeapOK(h), NEW b \in Linkable, NEW k \in Bins
    PROVE  /\ HeapOK(PutHead(h, b, k))
           /\ PutHead(h, b, k).frontier = h.frontier
           /\ PutHead(h, b, k).bin = [h.bin EXCEPT ![k] = b]
           /\ PutHead(h, b, k).mem[b + 8] = [lo |-> h.bin[k], hi |-> 0]
           /\ \A c \in Cells \ {b + 8} : PutHead(h, b, k).mem[c] = h.mem[c]
<1>1. b \in Nat /\ b + 8 \in Cells
  BY CellsNat DEF Linkable
<1> QED BY <1>1 DEF HeapOK, PutHead

LEMMA PushDoes ==
    ASSUME NEW h, HeapOK(h), NEW L, NEW sz, NEW rk, NEW m, Lists(h, L, sz, rk, m),
           NEW b \in Linkable \ L, sz[b] >= 32, NEW g, g = Push(h, b, sz[b]),
           NEW k, k = Bin(sz[b]), NEW n, n = h.bin[k]
    PROVE  /\ k \in Bins /\ n \in Nat /\ n # b
           /\ n # 0 => n \in L /\ Bin(sz[n]) = k /\ PrevOf(h, n) = 0
           /\ HeapOK(g) /\ g.frontier = h.frontier /\ g.bin = [h.bin EXCEPT ![k] = b]
           /\ \A c \in Cells : c # b + 8 /\ (n = 0 \/ c # n + 8) => g.mem[c] = h.mem[c]
           /\ NextOf(g, b) = n /\ PrevOf(g, b) = 0
           /\ n # 0 => NextOf(g, n) = NextOf(h, n) /\ PrevOf(g, n) = b
<1> DEFINE f == PutHead(h, b, k)
<1>1. b \in Cells /\ b \in Nat \ {0} /\ b + 8 \in Cells
  BY CellsNat DEF Linkable
<1>2. k \in Bins
  BY <1>1, BinType DEF Lists
<1>3. n \in Nat
  BY <1>2 DEF HeapOK
<1>4. n # 0 => n \in L /\ Bin(sz[n]) = k /\ PrevOf(h, n) = 0
  BY <1>2 DEF Lists
<1>5. n # b
  BY <1>1, <1>4
<1>6. n # 0 => n \in Cells /\ n + 8 \in Cells /\ n + 8 # b + 8
  BY <1>1, <1>3, <1>4, <1>5 DEF Lists, Linkable
<1>7. /\ HeapOK(f) /\ f.frontier = h.frontier /\ f.bin = [h.bin EXCEPT ![k] = b]
      /\ f.mem[b + 8] = [lo |-> n, hi |-> 0]
      /\ \A c \in Cells \ {b + 8} : f.mem[c] = h.mem[c]
  BY <1>2, PutHeadDoes
<1>8. g = IF n = 0 THEN f ELSE StoreHigh(f, n + 8, b)
  BY DEF Push, StoreHigh, PutHead
<1> HIDE DEF f
<1>9. CASE n = 0
  BY <1>2, <1>3, <1>5, <1>7, <1>8, <1>9 DEF NextOf, PrevOf
<1>10. CASE n # 0
  <2>1. /\ HeapOK(g) /\ g.frontier = f.frontier /\ g.bin = f.bin
        /\ g.mem[n + 8] = [lo |-> f.mem[n + 8].lo, hi |-> b]
        /\ \A c \in Cells \ {n + 8} : g.mem[c] = f.mem[c]
    <3>1. g = StoreHigh(f, n + 8, b) /\ HeapOK(f) /\ n + 8 \in Cells /\ b \in Nat
      BY <1>1, <1>6, <1>7, <1>8, <1>10
    <3> QED BY <3>1, StoreHighDoes
  <2>2. f.mem[n + 8] = h.mem[n + 8] /\ g.mem[b + 8] = f.mem[b + 8]
    BY <1>1, <1>6, <1>7, <1>10, <2>1
  <2> QED BY <1>2, <1>3, <1>4, <1>5, <1>7, <1>10, <2>1, <2>2 DEF NextOf, PrevOf
<1> QED BY <1>9, <1>10

LEMMA PushKeeps ==
    ASSUME NEW h, HeapOK(h), NEW L, NEW sz, NEW rk, NEW m, Lists(h, L, sz, rk, m),
           NEW b \in Linkable \ L, sz[b] >= 32
    PROVE  /\ SameBut(h, Push(h, b, sz[b]), Links(L \cup {b}))
           /\ Lists(Push(h, b, sz[b]), L \cup {b}, sz, [rk EXCEPT ![b] = m], m + 1)
<1> DEFINE g == Push(h, b, sz[b])
           k == Bin(sz[b])
           n == h.bin[k]
           K == L \cup {b}
           rn == [rk EXCEPT ![b] = m]
<1>1. /\ k \in Bins /\ n \in Nat /\ n # b
      /\ n # 0 => n \in L /\ Bin(sz[n]) = k /\ PrevOf(h, n) = 0
      /\ HeapOK(g) /\ g.frontier = h.frontier /\ g.bin = [h.bin EXCEPT ![k] = b]
      /\ \A c \in Cells : c # b + 8 /\ (n = 0 \/ c # n + 8) => g.mem[c] = h.mem[c]
      /\ NextOf(g, b) = n /\ PrevOf(g, b) = 0
      /\ n # 0 => NextOf(g, n) = NextOf(h, n) /\ PrevOf(g, n) = b
  BY PushDoes
<1>2. b \in Cells /\ b \in Nat \ {0} /\ b \notin L
  BY CellsNat DEF Linkable
<1>3. /\ \A x \in L : Linked(h, L, sz, rk, x) /\ rk[x] < m /\ sz[x] >= 32
      /\ sz \in [Cells -> Nat] /\ rk \in [Cells -> Nat] /\ m \in Nat
      /\ h.bin \in [Bins -> Nat] /\ K \subseteq Linkable
  BY DEF Lists, HeapOK
<1>4. \A x \in L : x \in Cells /\ x \in Nat \ {0} /\ x + 8 \in Cells
  BY Neighbours
<1>5. \A x \in L : x # n => NextOf(g, x) = NextOf(h, x) /\ PrevOf(g, x) = PrevOf(h, x)
  BY <1>1, <1>2, <1>4 DEF NextOf, PrevOf
<1>6. SameBut(h, g, Links(K))
  BY <1>1 DEF SameBut, Links
<1>7. /\ rn \in [Cells -> Nat] /\ rn[b] = m /\ \A x \in L : rn[x] = rk[x]
  BY <1>2, <1>3, <1>4
<1>8. \A x \in L : /\ NextOf(h, x) # 0 => NextOf(h, x) \in L \ {x}
                   /\ PrevOf(h, x) # 0 => PrevOf(h, x) \in L \ {x}
  BY Neighbours
<1>9. \A x \in L : NextOf(g, x) = NextOf(h, x)
  BY <1>1, <1>4, <1>5
<1> HIDE DEF g, n, k, rn
<1>10. ASSUME NEW x \in L PROVE Linked(g, K, sz, rn, x)
  <2>1. Linked(h, L, sz, rk, x)
    BY <1>3
  <2>2. NextOf(g, x) # 0 =>
          /\ NextOf(g, x) \in K /\ Bin(sz[NextOf(g, x)]) = Bin(sz[x])
          /\ PrevOf(g, NextOf(g, x)) = x /\ rn[NextOf(g, x)] < rn[x]
    <3> SUFFICES ASSUME NextOf(h, x) # 0
                 PROVE  PrevOf(g, NextOf(h, x)) = x
      BY <1>7, <1>9, <2>1 DEF Linked
    <3>1. NextOf(h, x) \in L /\ PrevOf(h, NextOf(h, x)) = x
      BY <2>1 DEF Linked
    <3>2. NextOf(h, x) # n
      BY <1>1, <1>4, <3>1
    <3> QED BY <1>5, <3>1, <3>2
  <2>3. PrevOf(g, x) # 0 => PrevOf(g, x) \in K /\ NextOf(g, PrevOf(g, x)) = x
    <3>1. CASE x = n
      BY <1>1, <1>4, <3>1
    <3>2. CASE x # n
      BY <1>5, <1>9, <2>1, <3>2 DEF Linked
    <3> QED BY <3>1, <3>2
  <2>4. PrevOf(g, x) = 0 => g.bin[Bin(sz[x])] = x
    <3>1. CASE x = n
      BY <1>1, <1>2, <1>4, <3>1
    <3>2. CASE x # n
      BY <1>1, <1>3, <1>5, <2>1, <3>2 DEF Linked, n
    <3> QED BY <3>1, <3>2
  <2> QED BY <2>2, <2>3, <2>4 DEF Linked
<1>11. Linked(g, K, sz, rn, b)
  BY <1>1, <1>3, <1>7 DEF Linked, k
<1>12. ASSUME NEW j \in Bins, g.bin[j] # 0
       PROVE  g.bin[j] \in K /\ Bin(sz[g.bin[j]]) = j /\ PrevOf(g, g.bin[j]) = 0
  <2>1. CASE j = k
    BY <1>1, <1>3, <2>1 DEF k
  <2>2. CASE j # k
    <3>1. g.bin[j] = h.bin[j]
      BY <1>1, <1>3, <2>2
    <3>2. h.bin[j] \in L /\ Bin(sz[h.bin[j]]) = j /\ PrevOf(h, h.bin[j]) = 0
      BY <1>12, <3>1 DEF Lists
    <3>3. h.bin[j] # n
      BY <1>1, <1>4, <2>2, <3>2
    <3> QED BY <1>5, <3>1, <3>2, <3>3
  <2> QED BY <2>1, <2>2
<1>13. \A x \in K : sz[x] >= 32 /\ rn[x] < m + 1 /\ Linked(g, K, sz, rn, x)
  <2>1. \A x \in L : rk[x] \in Nat
    BY <1>3, <1>4
  <2>2. m \in Nat /\ \A x \in L : rn[x] < m + 1 /\ sz[x] >= 32
    BY <1>3, <1>7, <2>1
  <2>3. \A x \in L : Linked(g, K, sz, rn, x)
    BY <1>10
  <2>4. rn[b] < m + 1
    BY <1>7, <2>2
  <2> HIDE DEF K
  <2>5. \A x \in K : x \in L \/ x = b
    BY DEF K
  <2> QED BY <1>11, <2>2, <2>3, <2>4, <2>5
<1>14. Lists(g, K, sz, rn, m + 1)
  <2>1. \A j \in Bins : g.bin[j] # 0 =>
          g.bin[j] \in K /\ Bin(sz[g.bin[j]]) = j /\ PrevOf(g, g.bin[j]) = 0
    BY <1>12
  <2>2. m + 1 \in Nat /\ K \subseteq Linkable
    BY <1>3
  <2> HIDE DEF K
  <2> QED BY <1>3, <1>7, <1>13, <2>1, <2>2 DEF Lists
<1> QED BY <1>6, <1>14 DEF g, K, rn

(* Lists stay as they are when nothing writes to their heads or links.      *)
LEMMA ListsKept ==
    ASSUME NEW h, NEW L, NEW sz, NEW rk, NEW m, Lists(h, L, sz, rk, m),
           NEW g, HeapOK(g), g.bin = h.bin, \A x \in L : g.mem[x + 8] = h.mem[x + 8],
           NEW sy \in [Cells -> Nat], \A x \in L : sy[x] = sz[x]
    PROVE  Lists(g, L, sy, rk, m)
<1>1. \A x \in L : NextOf(g, x) = NextOf(h, x) /\ PrevOf(g, x) = PrevOf(h, x)
  BY DEF NextOf, PrevOf
<1>2. \A x \in L : Linked(g, L, sy, rk, x)
  <2> SUFFICES ASSUME NEW x \in L PROVE Linked(g, L, sy, rk, x)
    OBVIOUS
  <2>1. Linked(h, L, sz, rk, x)
    BY DEF Lists
  <2> QED BY <1>1, <2>1 DEF Linked
<1> QED BY <1>1, <1>2 DEF Lists

TagsSet(h, s, b, n, u) ==
    /\ SameBut(h, s, {b, b + n - 8}) /\ s.bin = h.bin
    /\ Tag(s, b) = n + u /\ Tag(s, b + n - 8) = n + u

LEMMA SetTagsDoes ==
    ASSUME NEW h, HeapOK(h), NEW b \in Cells, NEW n \in Nat, b + n - 8 \in Cells, n > 8,
           NEW u \in {0, 1}
    PROVE  TagsSet(h, SetTags(h, b, n, u), b, n, u)
<1> DEFINE f == Store(h, b, n + u)
           g == Store(f, b + n - 8, n + u)
<1>1. n + u \in Nat /\ b \in Nat /\ b + n - 8 # b
  BY CellsNat
<1>2. /\ HeapOK(f) /\ f.frontier = h.frontier /\ f.bin = h.bin
      /\ f.mem[b] = [lo |-> n + u, hi |-> h.mem[b].hi]
      /\ \A c \in Cells \ {b} : f.mem[c] = h.mem[c]
  BY <1>1, StoreDoes
<1> HIDE DEF f
<1>3. /\ HeapOK(g) /\ g.frontier = f.frontier /\ g.bin = f.bin
      /\ g.mem[b + n - 8] = [lo |-> n + u, hi |-> f.mem[b + n - 8].hi]
      /\ \A c \in Cells \ {b + n - 8} : g.mem[c] = f.mem[c]
  BY <1>1, <1>2, StoreDoes
<1>4. g = SetTags(h, b, n, u)
  BY DEF SetTags, f
<1> HIDE DEF g
<1> QED BY <1>1, <1>2, <1>3, <1>4 DEF TagsSet, SameBut, Tag

-----------------------------------------------------------------------------
(* The layout of the heap.                                                  *)

LEMMA BlockCells ==
    ASSUME NEW S, NEW sz, NEW end, Layout(S, sz, end), NEW b \in S
    PROVE  /\ b \in Nat /\ First <= b /\ b % 16 = 8 /\ b \in Linkable
           /\ b \in Cells /\ b + 8 \in Cells /\ b + sz[b] - 8 \in Cells
           /\ sz[b] \in Nat /\ sz[b] >= 32 /\ sz[b] % 16 = 0
           /\ b + sz[b] \in S \cup {end} /\ b + sz[b] <= end
           /\ end \in Nat /\ end <= Top /\ end % 16 = 8 /\ Top \in Nat
<1>1. /\ b \in Cells /\ b \in Nat /\ sz[b] \in Nat /\ sz[b] >= 32 /\ sz[b] % 16 = 0
      /\ b + sz[b] <= end /\ end <= Top /\ end \in Nat /\ b % 16 = 8 /\ end % 16 = 8
      /\ b + sz[b] \in S \cup {end}
  BY CellsNat DEF Layout
<1>2. First <= b /\ b < Top /\ b % 8 = 0 /\ Top \in Nat
  BY <1>1, CellsAre, Numbers
<1>3. b + 8 \in Int /\ First <= b + 8 /\ b + 8 < Top /\ (b + 8) % 8 = 0
  BY <1>1, <1>2, Numbers
<1>4. /\ b + sz[b] - 8 \in Int /\ First <= b + sz[b] - 8 /\ b + sz[b] - 8 < Top
      /\ (b + sz[b] - 8) % 8 = 0
  BY <1>1, <1>2, Numbers
<1> QED BY <1>1, <1>2, <1>3, <1>4, CellsAre DEF Linkable

LEMMA Apart ==
    ASSUME NEW S, NEW sz, NEW end, Layout(S, sz, end), NEW a \in S, NEW b \in S, a # b
    PROVE  a + sz[a] <= b \/ b + sz[b] <= a
<1>1. a \in Nat /\ b \in Nat
  BY BlockCells
<1> QED BY <1>1 DEF Layout

(* A block that ends where another begins can take it in.                   *)
LEMMA LayoutJoin ==
    ASSUME NEW S, NEW sz, NEW end, Layout(S, sz, end),
           NEW a \in S, NEW b \in S, a + sz[a] = b
    PROVE  Layout(S \ {b}, [sz EXCEPT ![a] = sz[a] + sz[b]], end)
<1> DEFINE sy == [sz EXCEPT ![a] = sz[a] + sz[b]]
           R == S \ {b}
<1>1. \A x \in S : /\ x \in Nat /\ First <= x /\ x % 16 = 8 /\ x \in Cells
                   /\ sz[x] \in Nat /\ sz[x] >= 32 /\ sz[x] % 16 = 0
                   /\ x + sz[x] \in S \cup {end} /\ x + sz[x] <= end
  BY BlockCells
<1>2. /\ end \in Nat /\ end <= Top /\ end % 16 = 8 /\ sz \in [Cells -> Nat]
      /\ First \in S \cup {end} /\ First = 152
      /\ \A x, y \in S : x < y => x + sz[x] <= y
      /\ \A e \in S \cup {end} : e # First => \E p \in S : p + sz[p] = e
  BY Numbers DEF Layout
<1>3. sy \in [Cells -> Nat] /\ sy[a] = sz[a] + sz[b] /\ \A x \in Cells : x # a => sy[x] = sz[x]
  BY <1>1, <1>2
<1>4. a \in R /\ a < b /\ b # First /\ b < end
  <2>1. /\ a \in Nat /\ First <= a /\ sz[a] \in Nat /\ sz[a] >= 32
        /\ b \in Nat /\ sz[b] \in Nat /\ sz[b] >= 32 /\ b + sz[b] <= end
    BY <1>1
  <2> QED BY <1>2, <2>1
<1> HIDE DEF sy
<1>5. ASSUME NEW x \in R
      PROVE  /\ sy[x] % 16 = 0 /\ sy[x] >= 32 /\ x + sy[x] <= end
             /\ x + sy[x] \in R \cup {end}
  <2>1. CASE x = a
    BY <1>1, <1>3, <1>4, <2>1
  <2>2. CASE x # a
    <3>1. x + sz[x] # b
      BY <1>1, <1>2, <1>4, <2>2
    <3> QED BY <1>1, <1>3, <2>2, <3>1
  <2> QED BY <2>1, <2>2
<1>6. ASSUME NEW x \in R, NEW y \in R, x < y PROVE x + sy[x] <= y
  <2>1. CASE x = a
    <3>1. b < y
      BY <1>1, <1>2, <1>4, <1>6, <2>1
    <3> QED BY <1>1, <1>2, <1>3, <2>1, <3>1
  <2>2. CASE x # a
    BY <1>1, <1>2, <1>3, <1>6, <2>2
  <2> QED BY <2>1, <2>2
<1>7. ASSUME NEW e \in R \cup {end}, e # First PROVE \E p \in R : p + sy[p] = e
  <2>1. PICK p \in S : p + sz[p] = e
    BY <1>2, <1>7
  <2>2. CASE p = b
    <3>1. a + sy[a] = e
      BY <1>1, <1>3, <2>1, <2>2
    <3> QED BY <1>4, <3>1
  <2>3. CASE p # b
    <3>1. p # a
      BY <1>1, <1>4, <1>7, <2>1
    <3> QED BY <1>1, <1>3, <2>1, <2>3, <3>1
  <2> QED BY <2>2, <2>3
<1>8. \A x \in R : x \in Cells /\ x % 16 = 8
  BY <1>1
<1> HIDE DEF R
<1>9. R \subseteq Cells /\ First \in R \cup {end}
  BY <1>1, <1>2, <1>4 DEF R
<1> QED BY <1>2, <1>3, <1>5, <1>6, <1>7, <1>8, <1>9 DEF Layout, R, sy

(* and one that is large enough be cut in two.                              *)
LEMMA LayoutSplit ==
    ASSUME NEW S, NEW sz, NEW end, Layout(S, sz, end),
           NEW a \in S, NEW n \in Nat, n >= 32, n % 16 = 0, sz[a] - n >= 32
    PROVE  /\ a + n \in Cells \ S
           /\ Layout(S \cup {a + n}, [sz EXCEPT ![a] = n, ![a + n] = sz[a] - n], end)
<1> DEFINE b == a + n
           sy == [sz EXCEPT ![a] = n, ![b] = sz[a] - n]
           R == S \cup {b}
<1>1. \A x \in S : /\ x \in Nat /\ First <= x /\ x % 16 = 8 /\ x \in Cells
                   /\ sz[x] \in Nat /\ sz[x] >= 32 /\ sz[x] % 16 = 0
                   /\ x + sz[x] \in S \cup {end} /\ x + sz[x] <= end
  BY BlockCells
<1>2. /\ end \in Nat /\ end <= Top /\ end % 16 = 8 /\ sz \in [Cells -> Nat]
      /\ First \in S \cup {end} /\ First = 152 /\ Top \in Nat
      /\ \A x, y \in S : x < y => x + sz[x] <= y
      /\ \A e \in S \cup {end} : e # First => \E p \in S : p + sz[p] = e
  BY Numbers DEF Layout
<1>3. /\ b \in Nat /\ a < b /\ b < a + sz[a] /\ b % 16 = 8 /\ b % 8 = 0 /\ First < b
      /\ b < Top /\ sz[a] - n \in Nat /\ (sz[a] - n) % 16 = 0
      /\ b <= end
  <2>1. /\ a \in Nat /\ First <= a /\ a % 16 = 8 /\ sz[a] \in Nat /\ sz[a] % 16 = 0
        /\ a + sz[a] <= end /\ end \in Nat /\ end <= Top /\ First = 152 /\ Top \in Nat
    BY <1>1, <1>2
  <2>2. b % 16 = 8
    BY <2>1
  <2>3. (sz[a] - n) % 16 = 0
    BY <2>1
  <2>4. b % 8 = 0
    BY <2>1, <2>2
  <2> QED BY <2>1, <2>2, <2>3, <2>4
<1>4. b \in Cells
  BY <1>2, <1>3, CellsAre
<1>5. b \notin S
  <2> HIDE DEF b
  <2>1. a \in Nat /\ sz[a] \in Nat /\ \A y \in S : a < y => a + sz[a] <= y
    BY <1>1, <1>2
  <2> QED BY <1>3, <2>1
<1>6. /\ sy \in [Cells -> Nat] /\ sy[a] = n /\ sy[b] = sz[a] - n
      /\ \A x \in Cells : x # a /\ x # b => sy[x] = sz[x]
  BY <1>1, <1>2, <1>3, <1>4
<1>7. b + sy[b] = a + sz[a] /\ a + sy[a] = b /\ sy[b] \in Nat
  BY <1>1, <1>3, <1>6
<1>15. a + sy[a] <= end /\ a + sy[a] \in R
  BY <1>3, <1>7
<1> HIDE DEF sy, b
<1>8. ASSUME NEW x \in R
      PROVE  /\ sy[x] % 16 = 0 /\ sy[x] >= 32 /\ x + sy[x] <= end
             /\ x + sy[x] \in R \cup {end}
  <2>1. CASE x = a
    <3>1. sy[x] = n /\ x + sy[x] <= end /\ x + sy[x] \in R
      BY <1>6, <1>15, <2>1
    <3> QED BY <3>1
  <2>2. CASE x = b
    BY <1>1, <1>3, <1>6, <1>7, <2>2
  <2>3. CASE x # a /\ x # b
    BY <1>1, <1>6, <2>3
  <2> QED BY <2>1, <2>2, <2>3
<1>9. ASSUME NEW x \in R, NEW y \in R, x < y PROVE x + sy[x] <= y
  <2>0. x \in Nat /\ y \in Nat
    BY <1>1, <1>3
  <2>1. CASE x = a
    <3>1. CASE y = b
      BY <1>3, <1>7, <2>1, <3>1
    <3>2. CASE y \in S
      <4>1. a + sz[a] <= y
        BY <1>2, <1>9, <2>1, <3>2
      <4> QED BY <1>1, <1>3, <1>7, <2>0, <2>1, <4>1
    <3> QED BY <3>1, <3>2
  <2>2. CASE x = b
    <3>1. y \in S /\ a < y
      BY <1>1, <1>3, <1>9, <2>0, <2>2
    <3> QED BY <1>2, <1>7, <2>2, <3>1
  <2>3. CASE x # a /\ x # b
    <3>1. x \in S /\ sy[x] = sz[x]
      BY <1>1, <1>6, <2>3
    <3>2. CASE y = b
      <4>1. /\ a \in Nat /\ sz[a] \in Nat /\ sz[x] \in Nat /\ b \in Nat /\ a < b
            /\ b < a + sz[a] /\ x < b
        BY <1>1, <1>3, <1>9, <3>1, <3>2
      <4>2. a < x => a + sz[a] <= x
        BY <1>2, <3>1
      <4>3. x < a
        BY <2>0, <2>3, <4>1, <4>2
      <4>4. x + sz[x] <= a
        BY <1>2, <3>1, <4>3
      <4> QED BY <2>0, <3>1, <3>2, <4>1, <4>4
    <3>3. CASE y \in S
      BY <1>2, <1>9, <3>1, <3>3
    <3> QED BY <3>2, <3>3
  <2> QED BY <2>1, <2>2, <2>3
<1>10. ASSUME NEW e \in R \cup {end}, e # First PROVE \E p \in R : p + sy[p] = e
  <2>1. CASE e = b
    BY <1>7, <2>1
  <2>2. CASE e # b
    <3>1. PICK p \in S : p + sz[p] = e
      BY <1>2, <1>10, <2>2
    <3>2. CASE p = a
      <4>1. b \in R /\ b + sy[b] = e
        BY <1>7, <3>1, <3>2
      <4> QED BY <4>1
    <3>3. CASE p # a
      BY <1>1, <1>5, <1>6, <3>1, <3>3
    <3> QED BY <3>2, <3>3
  <2> QED BY <2>1, <2>2
<1>11. \A x \in R : x \in Cells /\ x % 16 = 8
  BY <1>1, <1>3, <1>4
<1> HIDE DEF R
<1>12. R \subseteq Cells /\ First \in R \cup {end}
  BY <1>2, <1>11 DEF R
<1>13. Layout(R, sy, end)
  BY <1>2, <1>6, <1>8, <1>9, <1>10, <1>11, <1>12 DEF Layout
<1> QED BY <1>4, <1>5, <1>13 DEF R, sy, b

(* A block taken at the frontier comes after the others.                    *)
LEMMA LayoutGrow ==
    ASSUME NEW S, NEW sz, NEW end, Layout(S, sz, end),
           NEW n \in Nat, n >= 32, n % 16 = 0, end + n <= Top
    PROVE  /\ end \in Cells \ S
           /\ Layout(S \cup {end}, [sz EXCEPT ![end] = n], end + n)
<1> DEFINE sy == [sz EXCEPT ![end] = n]
           R == S \cup {end}
           top == end + n
<1>1. \A x \in S : /\ x \in Nat /\ First <= x /\ x % 16 = 8 /\ x \in Cells
                   /\ sz[x] \in Nat /\ sz[x] >= 32 /\ sz[x] % 16 = 0
                   /\ x + sz[x] \in S \cup {end} /\ x + sz[x] <= end
  BY BlockCells
<1>2. /\ end \in Nat /\ end <= Top /\ end % 16 = 8 /\ sz \in [Cells -> Nat]
      /\ First \in S \cup {end} /\ First = 152 /\ Top \in Nat
      /\ \A x, y \in S : x < y => x + sz[x] <= y
      /\ \A e \in S \cup {end} : e # First => \E p \in S : p + sz[p] = e
  BY Numbers DEF Layout
<1>3. end \notin S /\ First <= end /\ end < Top /\ end % 8 = 0
  BY <1>1, <1>2
<1>4. end \in Cells
  BY <1>2, <1>3, CellsAre
<1>5. top \in Nat /\ top <= Top /\ top % 16 = 8 /\ end < top
  BY <1>2
<1>6. sy \in [Cells -> Nat] /\ sy[end] = n /\ \A x \in Cells : x # end => sy[x] = sz[x]
  BY <1>2, <1>4
<1>7. \A x \in S : sy[x] = sz[x] /\ x < end
  BY <1>1, <1>2, <1>3, <1>6
<1>8. end + sy[end] = top
  BY <1>6
<1> HIDE DEF sy, top
<1>9. ASSUME NEW x \in R
      PROVE  /\ sy[x] % 16 = 0 /\ sy[x] >= 32 /\ x + sy[x] <= top
             /\ x + sy[x] \in R \cup {top}
  <2>1. CASE x = end
    BY <1>2, <1>5, <1>6, <1>8, <2>1
  <2>2. CASE x \in S
    <3>1. /\ sy[x] = sz[x] /\ sz[x] \in Nat /\ x \in Nat /\ sz[x] % 16 = 0 /\ sz[x] >= 32
          /\ x + sz[x] \in S \cup {end} /\ x + sz[x] <= end
      BY <1>1, <1>7, <2>2
    <3> QED BY <1>2, <1>5, <3>1
  <2> QED BY <2>1, <2>2
<1>10. ASSUME NEW x \in R, NEW y \in R, x < y PROVE x + sy[x] <= y
  BY <1>1, <1>2, <1>7, <1>10
<1>11. ASSUME NEW e \in R \cup {top}, e # First PROVE \E p \in R : p + sy[p] = e
  <2>1. CASE e = top
    BY <1>8, <2>1
  <2>2. CASE e # top
    BY <1>2, <1>7, <1>11, <2>2
  <2> QED BY <2>1, <2>2
<1>12. \A x \in R : x \in Cells /\ x % 16 = 8
  BY <1>1, <1>2, <1>4
<1> HIDE DEF R
<1>13. R \subseteq Cells /\ First \in R \cup {top}
  BY <1>2, <1>12 DEF R
<1>14. Layout(R, sy, top)
  BY <1>5, <1>6, <1>9, <1>10, <1>11, <1>12, <1>13 DEF Layout
<1> QED BY <1>3, <1>4, <1>14 DEF R, sy, top

(* What no write touches stays as it was.                                   *)
Same(V, sz, sy) == \A b \in V : sy[b] = sz[b]
Marked(V, F, G) == \A b \in V : b \in F <=> b \in G
TagsClear(V, sz, W) == \A b \in V : b \in Cells \ W /\ b + sz[b] - 8 \in Cells \ W
BodiesClear(V, sz, W) == \A b \in V : \A c \in W : ~(b + 8 <= c /\ c < b + sz[b] - 8)
Owned(V, of, no) == \A b \in V : b + 8 \in DOMAIN no /\ no[b + 8] = of[b + 8]

LEMMA TaggedKept ==
    ASSUME NEW h, NEW T, NEW sz, NEW F, Tagged(h, T, sz, F), NEW W, NEW g, SameBut(h, g, W),
           NEW V, V \subseteq T, NEW sy, Same(V, sz, sy), NEW G, Marked(V, F, G),
           TagsClear(V, sz, W)
    PROVE  Tagged(g, V, sy, G)
<1> SUFFICES ASSUME NEW b \in V
             PROVE  /\ Tag(g, b) = sy[b] + Flag(b, G)
                    /\ Tag(g, b + sy[b] - 8) = sy[b] + Flag(b, G)
  BY DEF Tagged
<1>1. Tag(h, b) = sz[b] + Flag(b, F) /\ Tag(h, b + sz[b] - 8) = sz[b] + Flag(b, F)
  BY DEF Tagged
<1>2. sy[b] = sz[b] /\ Flag(b, G) = Flag(b, F)
  BY DEF Flag, Same, Marked
<1>3. Tag(g, b) = Tag(h, b) /\ Tag(g, b + sz[b] - 8) = Tag(h, b + sz[b] - 8)
  BY DEF SameBut, Tag, TagsClear
<1> QED BY <1>1, <1>2, <1>3

LEMMA HoldsKept ==
    ASSUME NEW h, NEW U, NEW sz, NEW of, Holds(h, U, sz, of), NEW W, NEW g, SameBut(h, g, W),
           NEW V, V \subseteq U, V \subseteq Cells, sz \in [Cells -> Nat],
           NEW sy, Same(V, sz, sy), NEW no, Owned(V, of, no), BodiesClear(V, sz, W)
    PROVE  Holds(g, V, sy, no)
<1> SUFFICES ASSUME NEW b \in V
             PROVE  /\ of[b + 8] \in Grants /\ of[b + 8].size + 16 <= sy[b]
                    /\ \A c \in Cells : c \in Payload(b, of[b + 8].size) =>
                         g.mem[c] = [lo |-> of[b + 8].data, hi |-> of[b + 8].data]
  BY DEF Holds, Owned
<1>1. /\ sy[b] = sz[b] /\ sz[b] \in Nat /\ b \in Nat
      /\ of[b + 8] \in Grants /\ of[b + 8].size + 16 <= sz[b] /\ of[b + 8].size \in Nat
  BY Numbers, CellsNat DEF Holds, Same, Grants
<1>2. ASSUME NEW c \in Cells, c \in Payload(b, of[b + 8].size)
      PROVE  g.mem[c] = [lo |-> of[b + 8].data, hi |-> of[b + 8].data]
  <2>1. b + 8 <= c /\ c < b + sz[b] - 8
    BY <1>1, <1>2 DEF Payload
  <2>2. c \notin W
    BY <2>1 DEF BodiesClear
  <2>3. g.mem[c] = h.mem[c]
    BY <2>2 DEF SameBut
  <2> QED BY <1>2, <2>3 DEF Holds
<1> QED BY <1>1, <1>2

(* A tag tells the size of its block, and whether it is in use.             *)
LEMMA TagsTell ==
    ASSUME NEW n \in Nat, n % 16 = 0, NEW u \in {0, 1}
    PROVE  SizeIn(n + u) = n /\ UsedIn(n + u) = u
BY DEF SizeIn, UsedIn

-----------------------------------------------------------------------------
(* A heap in the middle of a call: the blocks of S tile it; those of T have *)
(* their tags, those of L are linked, those of U hold what owners wrote.    *)
Open(h, S, sz, T, L, U, rk, m, of) ==
    /\ HeapOK(h) /\ Layout(S, sz, h.frontier)
    /\ T \subseteq S /\ L \subseteq T /\ U \subseteq T /\ L \cap U = {}
    /\ Lists(h, L, sz, rk, m) /\ Tagged(h, T, sz, L) /\ Holds(h, U, sz, of)

LEMMA OpenReads ==
    ASSUME NEW h, NEW S, NEW sz, NEW T, NEW L, NEW U, NEW rk, NEW m, NEW of,
           Open(h, S, sz, T, L, U, rk, m, of), NEW b \in T
    PROVE  /\ Size(h, b) = sz[b] /\ (UsedIn(Tag(h, b)) = 0 <=> b \in L)
           /\ SizeIn(Tag(h, b + sz[b] - 8)) = sz[b]
           /\ (UsedIn(Tag(h, b + sz[b] - 8)) = 0 <=> b \in L)
<1>1. sz[b] \in Nat /\ sz[b] % 16 = 0
  BY BlockCells DEF Open
<1>2. /\ Tag(h, b) = sz[b] + Flag(b, L) /\ Tag(h, b + sz[b] - 8) = sz[b] + Flag(b, L)
      /\ Flag(b, L) \in {0, 1} /\ (Flag(b, L) = 0 <=> b \in L)
  BY DEF Open, Tagged, Flag
<1>3. SizeIn(sz[b] + Flag(b, L)) = sz[b] /\ UsedIn(sz[b] + Flag(b, L)) = Flag(b, L)
  BY <1>1, <1>2, TagsTell
<1> QED BY <1>2, <1>3 DEF Size

(* The links of free blocks are no one's tags, and in no one's payload.     *)
LEMMA LinksApart ==
    ASSUME NEW S, NEW sz, NEW end, Layout(S, sz, end), NEW L, L \subseteq S, NEW b \in S
    PROVE  /\ b \in Cells \ Links(L) /\ b + sz[b] - 8 \in Cells \ Links(L)
           /\ b \notin L => \A c \in Links(L) : ~(b + 8 <= c /\ c < b + sz[b] - 8)
<1>1. /\ b \in Nat /\ sz[b] \in Nat /\ sz[b] >= 32
      /\ b \in Cells /\ b + sz[b] - 8 \in Cells
  BY BlockCells
<1>2. ASSUME NEW x \in L
      PROVE  /\ b # x + 8 /\ b + sz[b] - 8 # x + 8
             /\ b \notin L => ~(b + 8 <= x + 8 /\ x + 8 < b + sz[b] - 8)
  <2>1. x \in S /\ x \in Nat /\ sz[x] \in Nat /\ sz[x] >= 32
    BY BlockCells
  <2>2. CASE x = b
    BY <1>1, <1>2, <2>2
  <2>3. CASE x # b
    <3>1. x + sz[x] <= b \/ b + sz[b] <= x
      BY <2>1, <2>3, Apart
    <3> QED BY <1>1, <2>1, <3>1
  <2> QED BY <2>2, <2>3
<1> QED BY <1>1, <1>2 DEF Links

LEMMA LinksClear ==
    ASSUME NEW S, NEW sz, NEW end, Layout(S, sz, end), NEW L, L \subseteq S
    PROVE  /\ \A T \in SUBSET S : TagsClear(T, sz, Links(L))
           /\ \A U \in SUBSET S : U \cap L = {} => BodiesClear(U, sz, Links(L))
<1>1. ASSUME NEW b \in S
      PROVE  /\ b \in Cells \ Links(L) /\ b + sz[b] - 8 \in Cells \ Links(L)
             /\ b \notin L => \A c \in Links(L) : ~(b + 8 <= c /\ c < b + sz[b] - 8)
  BY LinksApart
<1> QED BY <1>1 DEF TagsClear, BodiesClear

LEMMA OpenUnlink ==
    ASSUME NEW h, NEW S, NEW sz, NEW T, NEW L, NEW U, NEW rk, NEW m, NEW of,
           Open(h, S, sz, T, L, U, rk, m, of), NEW b \in L
    PROVE  /\ Open(Unlink(h, b), S, sz, T \ {b}, L \ {b}, U, rk, m, of)
           /\ Unlink(h, b).frontier = h.frontier
<1> DEFINE g == Unlink(h, b)
           K == L \ {b}
<1>1. /\ HeapOK(h) /\ Layout(S, sz, h.frontier) /\ Lists(h, L, sz, rk, m)
      /\ T \subseteq S /\ L \subseteq T /\ U \subseteq T /\ L \cap U = {}
      /\ Tagged(h, T, sz, L) /\ Holds(h, U, sz, of)
  BY DEF Open
<1>2. Size(h, b) = sz[b]
  BY <1>1, OpenReads
<1>3. SameBut(h, g, Links(K)) /\ Lists(g, K, sz, rk, m)
  BY <1>1, <1>2, UnlinkKeeps
<1> HIDE DEF g
<1>4. TagsClear(T \ {b}, sz, Links(K)) /\ BodiesClear(U, sz, Links(K))
  BY <1>1, LinksClear
<1>5. Tagged(g, T \ {b}, sz, K)
  <2>1. T \ {b} \subseteq T /\ Same(T \ {b}, sz, sz) /\ Marked(T \ {b}, L, K)
    BY DEF Same, Marked
  <2> HIDE DEF K
  <2> QED BY <1>1, <1>3, <1>4, <2>1, TaggedKept
<1>6. Holds(g, U, sz, of)
  <2>1. U \subseteq U /\ U \subseteq Cells /\ sz \in [Cells -> Nat] /\ Same(U, sz, sz)
    BY <1>1 DEF Layout, Same
  <2>2. Owned(U, of, of)
    BY <1>1 DEF Holds, Owned
  <2> QED BY <1>1, <1>3, <1>4, <2>1, <2>2, HoldsKept
<1>7. HeapOK(g) /\ g.frontier = h.frontier
  BY <1>3 DEF SameBut
<1> QED BY <1>1, <1>3, <1>5, <1>6, <1>7 DEF Open, g

(* What is there when a heap is open, in one place.                         *)
LEMMA OpenHas ==
    ASSUME NEW h, NEW S, NEW sz, NEW T, NEW L, NEW U, NEW rk, NEW m, NEW of,
           Open(h, S, sz, T, L, U, rk, m, of)
    PROVE  /\ HeapOK(h) /\ Layout(S, sz, h.frontier) /\ Lists(h, L, sz, rk, m)
           /\ T \subseteq S /\ L \subseteq T /\ U \subseteq T /\ L \cap U = {}
           /\ Tagged(h, T, sz, L) /\ Holds(h, U, sz, of)
           /\ S \subseteq Cells /\ sz \in [Cells -> Nat] /\ Owned(U, of, of)
           /\ SameBut(h, h, {})
BY DEF Open, Layout, Holds, Owned, SameBut

(* A block is let go of: its tags and its payload are no one's.             *)
LEMMA OpenDrop ==
    ASSUME NEW h, NEW S, NEW sz, NEW T, NEW L, NEW U, NEW rk, NEW m, NEW of,
           Open(h, S, sz, T, L, U, rk, m, of), NEW b \in T \ L
    PROVE  Open(h, S, sz, T \ {b}, L, U \ {b}, rk, m, of)
BY DEF Open, Tagged, Holds

(* The sizes of blocks without tags can change, and blocks without tags     *)
(* come and go, as long as the heap is tiled.                               *)
LEMMA OpenRecut ==
    ASSUME NEW h, NEW S, NEW sz, NEW T, NEW L, NEW U, NEW rk, NEW m, NEW of,
           Open(h, S, sz, T, L, U, rk, m, of),
           NEW R, NEW sy, NEW g, Layout(R, sy, g.frontier), T \subseteq R, Same(T, sz, sy),
           HeapOK(g), g.mem = h.mem, g.bin = h.bin
    PROVE  Open(g, R, sy, T, L, U, rk, m, of)
<1>1. /\ HeapOK(h) /\ Layout(S, sz, h.frontier) /\ Lists(h, L, sz, rk, m)
      /\ T \subseteq S /\ L \subseteq T /\ U \subseteq T /\ L \cap U = {}
      /\ Tagged(h, T, sz, L) /\ Holds(h, U, sz, of)
  BY OpenHas
<1>2. Tagged(g, T, sy, L)
  BY <1>1 DEF Tagged, Tag, Same
<1>3. Holds(g, U, sy, of)
  BY <1>1 DEF Holds, Same
<1>4. Lists(g, L, sy, rk, m)
  <2>1. /\ \A x \in L : g.mem[x + 8] = h.mem[x + 8]
        /\ sy \in [Cells -> Nat] /\ \A x \in L : sy[x] = sz[x]
    BY <1>1 DEF Layout, Same
  <2> QED BY <1>1, <2>1, ListsKept
<1> QED BY <1>1, <1>2, <1>3, <1>4 DEF Open

LEMMA OpenJoin ==
    ASSUME NEW h, NEW S, NEW sz, NEW T, NEW L, NEW U, NEW rk, NEW m, NEW of,
           Open(h, S, sz, T, L, U, rk, m, of),
           NEW a \in S \ T, NEW b \in S \ T, a + sz[a] = b
    PROVE  Open(h, S \ {b}, [sz EXCEPT ![a] = sz[a] + sz[b]], T, L, U, rk, m, of)
<1> DEFINE sy == [sz EXCEPT ![a] = sz[a] + sz[b]]
           R == S \ {b}
<1>1. Layout(S, sz, h.frontier) /\ T \subseteq S /\ S \subseteq Cells /\ sz \in [Cells -> Nat]
      /\ HeapOK(h)
  BY OpenHas
<1>2. Layout(R, sy, h.frontier)
  BY <1>1, LayoutJoin
<1>3. T \subseteq R /\ Same(T, sz, sy)
  BY <1>1 DEF Same
<1> HIDE DEF R, sy
<1>4. Open(h, R, sy, T, L, U, rk, m, of)
  BY <1>1, <1>2, <1>3, OpenRecut
<1> QED BY <1>4 DEF R, sy

LEMMA OpenSplit ==
    ASSUME NEW h, NEW S, NEW sz, NEW T, NEW L, NEW U, NEW rk, NEW m, NEW of,
           Open(h, S, sz, T, L, U, rk, m, of), NEW a \in S \ T,
           NEW n \in Nat, n >= 32, n % 16 = 0, sz[a] - n >= 32
    PROVE  /\ a + n \in Cells \ S
           /\ Open(h, S \cup {a + n}, [sz EXCEPT ![a] = n, ![a + n] = sz[a] - n],
                   T, L, U, rk, m, of)
<1> DEFINE sy == [sz EXCEPT ![a] = n, ![a + n] = sz[a] - n]
           R == S \cup {a + n}
<1>1. Layout(S, sz, h.frontier) /\ T \subseteq S /\ S \subseteq Cells /\ sz \in [Cells -> Nat]
      /\ HeapOK(h)
  BY OpenHas
<1>2. a + n \in Cells \ S /\ Layout(R, sy, h.frontier)
  BY <1>1, LayoutSplit
<1>3. T \subseteq R /\ Same(T, sz, sy)
  BY <1>1, <1>2 DEF Same
<1> HIDE DEF R, sy
<1>4. Open(h, R, sy, T, L, U, rk, m, of)
  BY <1>1, <1>2, <1>3, OpenRecut
<1> QED BY <1>2, <1>4 DEF R, sy

LEMMA OpenGrow ==
    ASSUME NEW h, NEW S, NEW sz, NEW T, NEW L, NEW U, NEW rk, NEW m, NEW of,
           Open(h, S, sz, T, L, U, rk, m, of), NEW b, b = h.frontier,
           NEW n \in Nat, n >= 32, n % 16 = 0, b + n <= Top
    PROVE  /\ b \in Cells \ S
           /\ Open([h EXCEPT !.frontier = b + n], S \cup {b}, [sz EXCEPT ![b] = n],
                   T, L, U, rk, m, of)
<1> DEFINE sy == [sz EXCEPT ![b] = n]
           R == S \cup {b}
           g == [h EXCEPT !.frontier = b + n]
<1>1. Layout(S, sz, h.frontier) /\ T \subseteq S /\ S \subseteq Cells /\ sz \in [Cells -> Nat]
      /\ HeapOK(h)
  BY OpenHas
<1>2. b \in Cells \ S /\ Layout(R, sy, b + n)
  BY <1>1, LayoutGrow
<1>3. T \subseteq R /\ Same(T, sz, sy)
  BY <1>1, <1>2 DEF Same
<1>4. HeapOK(g) /\ g.mem = h.mem /\ g.bin = h.bin /\ g.frontier = b + n
  BY <1>1 DEF HeapOK
<1> HIDE DEF R, sy, g
<1>5. Open(g, R, sy, T, L, U, rk, m, of)
  BY <1>2, <1>3, <1>4, OpenRecut
<1> QED BY <1>2, <1>5 DEF R, sy, g

(* The tags of a block are no other's, nor anyone's links or payload.       *)
Ends(sz, b) == {b, b + sz[b] - 8}

LEMMA EndsClear ==
    ASSUME NEW S, NEW sz, NEW end, Layout(S, sz, end), NEW b \in S, NEW W, W = Ends(sz, b)
    PROVE  /\ \A T \in SUBSET (S \ {b}) : TagsClear(T, sz, W)
           /\ \A U \in SUBSET (S \ {b}) : BodiesClear(U, sz, W)
           /\ \A x \in S : x + 8 \notin W
<1>1. /\ b \in Nat /\ sz[b] \in Nat /\ sz[b] >= 32
      /\ b \in Cells /\ b + sz[b] - 8 \in Cells
  BY BlockCells
<1>2. ASSUME NEW x \in S
      PROVE  /\ x \in Cells /\ x + sz[x] - 8 \in Cells /\ x + 8 \notin W
             /\ x # b => /\ x \notin W /\ x + sz[x] - 8 \notin W
                         /\ \A c \in W : ~(x + 8 <= c /\ c < x + sz[x] - 8)
  <2>1. /\ x \in Nat /\ sz[x] \in Nat /\ sz[x] >= 32
        /\ x \in Cells /\ x + sz[x] - 8 \in Cells
    BY BlockCells
  <2>2. CASE x = b
    BY <1>1, <2>1, <2>2 DEF Ends
  <2>3. CASE x # b
    <3>1. x + sz[x] <= b \/ b + sz[b] <= x
      BY <2>1, <2>3, Apart
    <3> QED BY <1>1, <2>1, <3>1 DEF Ends
  <2> QED BY <2>2, <2>3
<1> QED BY <1>2 DEF TagsClear, BodiesClear

(* A block gets its tags: in use,                                           *)
LEMMA OpenTag ==
    ASSUME NEW h, NEW S, NEW sz, NEW T, NEW L, NEW U, NEW rk, NEW m, NEW of,
           Open(h, S, sz, T, L, U, rk, m, of), NEW b \in S \ T, NEW u \in {0, 1},
           NEW F, F = IF u = 0 THEN L \cup {b} ELSE L
    PROVE  LET g == SetTags(h, b, sz[b], u) IN
           /\ HeapOK(g) /\ g.frontier = h.frontier /\ Lists(g, L, sz, rk, m)
           /\ Tagged(g, T \cup {b}, sz, F) /\ Holds(g, U, sz, of)
<1> DEFINE g == SetTags(h, b, sz[b], u)
           W == Ends(sz, b)
<1>1. /\ HeapOK(h) /\ Layout(S, sz, h.frontier) /\ Lists(h, L, sz, rk, m)
      /\ T \subseteq S /\ L \subseteq T /\ U \subseteq T /\ L \cap U = {}
      /\ Tagged(h, T, sz, L) /\ Holds(h, U, sz, of)
      /\ S \subseteq Cells /\ sz \in [Cells -> Nat] /\ Owned(U, of, of)
  BY OpenHas
<1>2. b \in Cells /\ sz[b] \in Nat /\ b + sz[b] - 8 \in Cells /\ sz[b] > 8
  BY <1>1, BlockCells
<1>3. /\ SameBut(h, g, W) /\ g.bin = h.bin
      /\ Tag(g, b) = sz[b] + u /\ Tag(g, b + sz[b] - 8) = sz[b] + u
  <2>1. b + sz[b] - 8 \in Cells /\ u \in {0, 1} /\ HeapOK(h)
    BY <1>1, <1>2
  <2>2. TagsSet(h, g, b, sz[b], u)
    BY <1>2, <2>1, SetTagsDoes
  <2> HIDE DEF g
  <2> QED BY <2>2 DEF TagsSet, Ends
<1>4. /\ TagsClear(T, sz, W) /\ BodiesClear(U, sz, W) /\ \A x \in S : x + 8 \notin W
  <2>1. b \in S /\ T \in SUBSET (S \ {b}) /\ U \in SUBSET (S \ {b})
    BY <1>1
  <2> QED BY <1>1, <2>1, EndsClear
<1> HIDE DEF g, W
<1>5. HeapOK(g) /\ g.frontier = h.frontier /\ \A c \in Cells \ W : g.mem[c] = h.mem[c]
  BY <1>3 DEF SameBut
<1>6. Lists(g, L, sz, rk, m)
  <2>1. \A x \in L : x + 8 \in Cells
    BY <1>1 DEF Lists, Linkable
  <2>2. \A x \in L : g.mem[x + 8] = h.mem[x + 8] /\ sz[x] = sz[x]
    BY <1>1, <1>4, <1>5, <2>1
  <2> QED BY <1>1, <1>3, <1>5, <2>2, ListsKept
<1>7. Holds(g, U, sz, of)
  <2>1. U \subseteq U /\ U \subseteq Cells /\ Same(U, sz, sz)
    BY <1>1 DEF Same
  <2> QED BY <1>1, <1>3, <1>4, <2>1, HoldsKept
<1>8. Tagged(g, T, sz, F)
  <2>1. T \subseteq T /\ Same(T, sz, sz) /\ Marked(T, L, F)
    BY DEF Same, Marked
  <2> QED BY <1>1, <1>3, <1>4, <2>1, TaggedKept
<1>9. Flag(b, F) = u
  BY <1>1 DEF Flag
<1>10. Tagged(g, T \cup {b}, sz, F)
  BY <1>3, <1>8, <1>9 DEF Tagged
<1> QED BY <1>5, <1>6, <1>7, <1>10 DEF g

LEMMA OpenUse ==
    ASSUME NEW h, NEW S, NEW sz, NEW T, NEW L, NEW U, NEW rk, NEW m, NEW of,
           Open(h, S, sz, T, L, U, rk, m, of), NEW b \in S \ T
    PROVE  /\ Open(SetTags(h, b, sz[b], 1), S, sz, T \cup {b}, L, U, rk, m, of)
           /\ SetTags(h, b, sz[b], 1).frontier = h.frontier
<1> DEFINE g == SetTags(h, b, sz[b], 1)
<1>1. /\ Layout(S, sz, h.frontier) /\ T \subseteq S /\ L \subseteq T /\ U \subseteq T
      /\ L \cap U = {}
  BY OpenHas
<1>2. 1 \in {0, 1} /\ L = IF 1 = 0 THEN L \cup {b} ELSE L
  OBVIOUS
<1>3. /\ HeapOK(g) /\ g.frontier = h.frontier /\ Lists(g, L, sz, rk, m)
      /\ Tagged(g, T \cup {b}, sz, L) /\ Holds(g, U, sz, of)
  BY <1>2, OpenTag
<1> HIDE DEF g
<1>4. Open(g, S, sz, T \cup {b}, L, U, rk, m, of)
  BY <1>1, <1>3 DEF Open
<1> QED BY <1>3, <1>4 DEF g

(* or free, and a place in its bin.                                         *)
LEMMA OpenFree ==
    ASSUME NEW h, NEW S, NEW sz, NEW T, NEW L, NEW U, NEW rk, NEW m, NEW of,
           Open(h, S, sz, T, L, U, rk, m, of), NEW b \in S \ T
    PROVE  /\ Open(Push(SetTags(h, b, sz[b], 0), b, sz[b]), S, sz, T \cup {b}, L \cup {b}, U,
                   [rk EXCEPT ![b] = m], m + 1, of)
           /\ Push(SetTags(h, b, sz[b], 0), b, sz[b]).frontier = h.frontier
<1> DEFINE f == SetTags(h, b, sz[b], 0)
           g == Push(f, b, sz[b])
           K == L \cup {b}
           V == T \cup {b}
           rn == [rk EXCEPT ![b] = m]
<1>1. /\ Layout(S, sz, h.frontier) /\ T \subseteq S /\ L \subseteq T /\ U \subseteq T
      /\ L \cap U = {} /\ S \subseteq Cells /\ sz \in [Cells -> Nat] /\ Owned(U, of, of)
  BY OpenHas
<1>2. 0 \in {0, 1} /\ K = IF 0 = 0 THEN L \cup {b} ELSE L
  OBVIOUS
<1>3. /\ HeapOK(f) /\ f.frontier = h.frontier /\ Lists(f, L, sz, rk, m)
      /\ Tagged(f, V, sz, K) /\ Holds(f, U, sz, of)
  BY <1>2, OpenTag
<1>4. b \in Linkable \ L /\ sz[b] >= 32
  BY <1>1, BlockCells
<1> HIDE DEF f
<1>5. SameBut(f, g, Links(K)) /\ Lists(g, K, sz, rn, m + 1)
  BY <1>3, <1>4, PushKeeps
<1> HIDE DEF g, rn
<1>6. V \subseteq S /\ K \subseteq V /\ U \subseteq V /\ K \cap U = {} /\ K \subseteq S
  BY <1>1
<1> HIDE DEF K, V
<1>7. TagsClear(V, sz, Links(K)) /\ BodiesClear(U, sz, Links(K))
  <2>1. V \in SUBSET S /\ U \in SUBSET S /\ U \cap K = {}
    BY <1>1, <1>6
  <2> QED BY <1>1, <1>6, <2>1, LinksClear
<1>8. Tagged(g, V, sz, K)
  <2>1. V \subseteq V /\ Same(V, sz, sz) /\ Marked(V, K, K)
    BY DEF Same, Marked
  <2> QED BY <1>3, <1>5, <1>7, <2>1, TaggedKept
<1>9. Holds(g, U, sz, of)
  <2>1. U \subseteq U /\ U \subseteq Cells /\ Same(U, sz, sz)
    BY <1>1 DEF Same
  <2> QED BY <1>1, <1>3, <1>5, <1>7, <2>1, HoldsKept
<1>10. HeapOK(g) /\ g.frontier = h.frontier
  BY <1>3, <1>5 DEF SameBut
<1>11. Open(g, S, sz, V, K, U, rn, m + 1, of)
  BY <1>1, <1>5, <1>6, <1>8, <1>9, <1>10 DEF Open
<1> QED BY <1>10, <1>11 DEF f, g, K, V, rn

(* A block with its tags is handed out: its owner writes in its payload.    *)
Give(of, b, n, d) ==
    [q \in DOMAIN of \cup {b + 8} |-> IF q = b + 8 THEN [size |-> n, data |-> d] ELSE of[q]]

LEMMA FillDoes ==
    ASSUME NEW h, HeapOK(h), NEW b \in Nat, NEW n \in Nat, NEW d \in Nat, NEW g,
           g = Fill(h, b + 8, n, d), NEW W, W = Payload(b, n)
    PROVE  /\ SameBut(h, g, W) /\ g.bin = h.bin
           /\ \A c \in Cells : c \in W => g.mem[c] = [lo |-> d, hi |-> d]
<1>1. /\ g.mem = [c \in Cells |-> IF c \in W THEN [lo |-> d, hi |-> d] ELSE h.mem[c]]
      /\ g.bin = h.bin /\ g.frontier = h.frontier
      /\ g = [mem |-> g.mem, bin |-> h.bin, frontier |-> h.frontier]
  BY DEF Fill, HeapOK, Payload
<1>2. \A c \in Cells : h.mem[c] \in [lo : Nat, hi : Nat]
  BY DEF HeapOK
<1>3. g.mem \in [Cells -> [lo : Nat, hi : Nat]]
  BY <1>1, <1>2
<1>4. HeapOK(g)
  BY <1>1, <1>3 DEF HeapOK
<1> QED BY <1>1, <1>4 DEF SameBut

(* A payload is no one's tags or links, nor in another payload.             *)
LEMMA BodyClear ==
    ASSUME NEW S, NEW sz, NEW end, Layout(S, sz, end), NEW b \in S,
           NEW n \in Nat, n + 16 <= sz[b], NEW W, W = Payload(b, n)
    PROVE  /\ \A T \in SUBSET S : TagsClear(T, sz, W)
           /\ \A U \in SUBSET (S \ {b}) : BodiesClear(U, sz, W)
           /\ \A x \in S \ {b} : x + 8 \notin W
<1>1. b \in Nat /\ sz[b] \in Nat /\ sz[b] >= 32
  BY BlockCells
<1>2. ASSUME NEW x \in S
      PROVE  /\ x \in Cells \ W /\ x + sz[x] - 8 \in Cells \ W
             /\ x # b => /\ x + 8 \notin W
                         /\ \A c \in W : ~(x + 8 <= c /\ c < x + sz[x] - 8)
  <2>1. /\ x \in Nat /\ sz[x] \in Nat /\ sz[x] >= 32
        /\ x \in Cells /\ x + sz[x] - 8 \in Cells
    BY BlockCells
  <2>2. CASE x = b
    BY <1>1, <2>1, <2>2 DEF Payload
  <2>3. CASE x # b
    <3>1. x + sz[x] <= b \/ b + sz[b] <= x
      BY <2>1, <2>3, Apart
    <3> QED BY <1>1, <2>1, <3>1 DEF Payload
  <2> QED BY <2>2, <2>3
<1> QED BY <1>2 DEF TagsClear, BodiesClear

LEMMA OpenFill ==
    ASSUME NEW h, NEW S, NEW sz, NEW T, NEW L, NEW U, NEW rk, NEW m, NEW of,
           Open(h, S, sz, T, L, U, rk, m, of), NEW b \in T, b \notin L, b \notin U,
           NEW n \in NewSizes, n + 16 <= sz[b], NEW d \in Data
    PROVE  /\ Open(Fill(h, b + 8, n, d), S, sz, T, L, U \cup {b}, rk, m, Give(of, b, n, d))
           /\ Fill(h, b + 8, n, d).frontier = h.frontier
<1> DEFINE g == Fill(h, b + 8, n, d)
           W == Payload(b, n)
           no == Give(of, b, n, d)
<1>1. /\ HeapOK(h) /\ Layout(S, sz, h.frontier) /\ Lists(h, L, sz, rk, m)
      /\ T \subseteq S /\ L \subseteq T /\ U \subseteq T /\ L \cap U = {}
      /\ Tagged(h, T, sz, L) /\ Holds(h, U, sz, of)
      /\ S \subseteq Cells /\ sz \in [Cells -> Nat] /\ Owned(U, of, of)
  BY OpenHas
<1>2. /\ b \in S /\ b \in Nat /\ b + 8 \in Nat /\ n \in Nat /\ d \in Nat
  BY <1>1, BlockCells, Numbers
<1>3. /\ SameBut(h, g, W) /\ g.bin = h.bin
      /\ \A c \in Cells : c \in W => g.mem[c] = [lo |-> d, hi |-> d]
  <2>1. g = Fill(h, b + 8, n, d) /\ W = Payload(b, n) /\ HeapOK(h)
    BY <1>1
  <2> HIDE DEF g, W
  <2> QED BY <1>2, <2>1, FillDoes
<1>4. /\ TagsClear(T, sz, W) /\ BodiesClear(U, sz, W)
      /\ \A x \in S \ {b} : x + 8 \notin W
  <2>1. T \in SUBSET S /\ U \in SUBSET (S \ {b})
    BY <1>1
  <2> QED BY <1>1, <1>2, <2>1, BodyClear
<1> HIDE DEF g, W
<1>5. HeapOK(g) /\ g.frontier = h.frontier /\ \A c \in Cells \ W : g.mem[c] = h.mem[c]
  BY <1>3 DEF SameBut
<1>6. Lists(g, L, sz, rk, m)
  <2>1. \A x \in L : x + 8 \in Cells
    BY <1>1 DEF Lists, Linkable
  <2>2. \A x \in L : g.mem[x + 8] = h.mem[x + 8] /\ sz[x] = sz[x]
    BY <1>1, <1>4, <1>5, <2>1
  <2> QED BY <1>1, <1>3, <1>5, <2>2, ListsKept
<1>7. Tagged(g, T, sz, L)
  <2>1. T \subseteq T /\ Same(T, sz, sz) /\ Marked(T, L, L)
    BY DEF Same, Marked
  <2> QED BY <1>1, <1>3, <1>4, <2>1, TaggedKept
<1>8. /\ b + 8 \in DOMAIN no /\ no[b + 8] = [size |-> n, data |-> d]
      /\ \A q \in DOMAIN of : q # b + 8 => q \in DOMAIN no /\ no[q] = of[q]
  BY DEF Give
<1> HIDE DEF no
<1>9. Holds(g, U, sz, no)
  <2>1. U \subseteq U /\ U \subseteq Cells /\ Same(U, sz, sz)
    BY <1>1 DEF Same
  <2>2. \A x \in U : x + 8 \in DOMAIN of /\ x + 8 # b + 8
    <3>1. \A x \in U : x \in Nat
      BY <1>1, CellsNat
    <3> QED BY <1>1, <1>2, <3>1 DEF Owned
  <2>3. Owned(U, of, no)
    BY <1>8, <2>2 DEF Owned
  <2> QED BY <1>1, <1>3, <1>4, <2>1, <2>3, HoldsKept
<1>10. Holds(g, U \cup {b}, sz, no)
  BY <1>3, <1>8, <1>9 DEF Holds, W, Grants
<1>11. Open(g, S, sz, T, L, U \cup {b}, rk, m, no)
  BY <1>1, <1>5, <1>6, <1>7, <1>10 DEF Open
<1> QED BY <1>5, <1>11 DEF g, W, no

-----------------------------------------------------------------------------
(* A list, read from its head.                                              *)

LEMMA LeastOf ==
    ASSUME NEW S \in SUBSET Nat, S # {}
    PROVE  \E k \in S : \A j \in S : k <= j
<1>1. PICK k \in S : \A j \in S : ~(<<j, k>> \in OpToRel(<, Nat))
  BY WFMin, NatLessThanWellFounded
<1>2. \A j \in S : k <= j
  <2> SUFFICES ASSUME NEW j \in S PROVE k <= j
    OBVIOUS
  <2>1. ~(j < k)
    BY <1>1 DEF OpToRel
  <2> QED BY <2>1
<1> QED BY <1>2

(* A function can be iterated.                                              *)
Runs(a, next, n) ==
    {g \in [0..n -> DOMAIN next] : g[0] = a /\ \A i \in 0..n - 1 : g[i + 1] = next[g[i]]}

LEMMA RunsExist ==
    ASSUME NEW V, NEW a \in V, NEW next \in [V -> V], NEW n \in Nat
    PROVE  Runs(a, next, n) # {}
<1> DEFINE Bad == {k \in Nat : Runs(a, next, k) = {}}
<1> SUFFICES ASSUME Bad # {} PROVE FALSE
  OBVIOUS
<1>1. PICK k \in Bad : \A j \in Bad : k <= j
  <2>1. Bad \in SUBSET Nat
    OBVIOUS
  <2> QED BY <2>1, LeastOf
<1>2. k \in Nat /\ Runs(a, next, k) = {}
  OBVIOUS
<1>3. k # 0
  <2>1. [i \in 0..0 |-> a] \in Runs(a, next, 0)
    BY DEF Runs
  <2> QED BY <1>2, <2>1
<1>4. k - 1 \in Nat /\ k - 1 \notin Bad
  BY <1>1, <1>2, <1>3
<1>5. PICK g : g \in Runs(a, next, k - 1)
  BY <1>4
<1> DEFINE e == [i \in 0..k |-> IF i = k THEN next[g[k - 1]] ELSE g[i]]
<1>6. /\ g \in [0..k - 1 -> V] /\ g[0] = a
      /\ \A i \in 0..k - 2 : g[i + 1] = next[g[i]]
  BY <1>2, <1>5 DEF Runs
<1>7. e \in [0..k -> V]
  <2>1. g[k - 1] \in V /\ next[g[k - 1]] \in V
    BY <1>4, <1>6
  <2>2. \A i \in 0..k : i # k => i \in 0..k - 1
    BY <1>2
  <2> QED BY <1>6, <2>1, <2>2
<1>8. e[0] = a
  BY <1>2, <1>3, <1>6
<1>9. ASSUME NEW i \in 0..k - 1 PROVE e[i + 1] = next[e[i]]
  <2>1. i \in 0..k /\ i + 1 \in 0..k /\ i # k
    BY <1>2
  <2>2. CASE i + 1 = k
    <3>1. i = k - 1
      BY <1>2, <2>2
    <3> QED BY <2>1, <2>2, <3>1
  <2>3. CASE i + 1 # k
    <3>1. i \in 0..k - 2
      BY <1>2, <2>3
    <3> QED BY <1>6, <2>1, <2>3, <3>1
  <2> QED BY <2>2, <2>3
<1>10. e \in Runs(a, next, k)
  <2> HIDE DEF e
  <2> QED BY <1>7, <1>8, <1>9 DEF Runs
<1> QED BY <1>2, <1>10

LEMMA RunsAgree ==
    ASSUME NEW a, NEW next, NEW n \in Nat, NEW k \in Nat, n <= k,
           NEW g \in Runs(a, next, n), NEW e \in Runs(a, next, k)
    PROVE  \A i \in 0..n : g[i] = e[i]
<1> DEFINE Bad == {i \in 0..n : g[i] # e[i]}
<1> SUFFICES ASSUME Bad # {} PROVE FALSE
  OBVIOUS
<1>1. PICK i \in Bad : \A j \in Bad : i <= j
  <2>1. Bad \in SUBSET Nat
    OBVIOUS
  <2> QED BY <2>1, LeastOf
<1>2. i \in 0..n /\ g[i] # e[i]
  OBVIOUS
<1>3. i # 0
  BY <1>2 DEF Runs
<1>4. i - 1 \in 0..n /\ i - 1 \notin Bad
  BY <1>1, <1>2, <1>3
<1>5. g[i - 1] = e[i - 1]
  BY <1>4
<1>6. i - 1 \in 0..n - 1 /\ i - 1 \in 0..k - 1 /\ i - 1 + 1 = i
  BY <1>2, <1>3
<1>7. g[i] = next[g[i - 1]] /\ e[i] = next[e[i - 1]]
  BY <1>6 DEF Runs
<1> QED BY <1>2, <1>5, <1>7

Iterated(f, a, next) == f[0] = a /\ \A i \in Nat : f[i + 1] = next[f[i]]

LEMMA Iterates ==
    ASSUME NEW V, NEW a \in V, NEW next \in [V -> V]
    PROVE  \E f \in [Nat -> V] : Iterated(f, a, next)
<1> DEFINE run == [n \in Nat |-> CHOOSE g : g \in Runs(a, next, n)]
           f == [n \in Nat |-> run[n][n]]
<1>1. \A n \in Nat : run[n] \in Runs(a, next, n)
  BY RunsExist
<1> HIDE DEF run
<1>2. \A n \in Nat : f[n] = run[n][n]
  OBVIOUS
<1>3. f \in [Nat -> V]
  BY <1>1 DEF Runs
<1>4. f[0] = a
  BY <1>1, <1>2 DEF Runs
<1>5. ASSUME NEW i \in Nat PROVE f[i + 1] = next[f[i]]
  <2>1. i + 1 \in Nat /\ i <= i + 1 /\ i \in 0..i /\ i \in 0..(i + 1) - 1
    OBVIOUS
  <2>2. run[i + 1] \in Runs(a, next, i + 1) /\ run[i] \in Runs(a, next, i)
    BY <1>1, <2>1
  <2>3. run[i + 1][i + 1] = next[run[i + 1][i]]
    BY <2>1, <2>2 DEF Runs
  <2>4. run[i][i] = run[i + 1][i]
    BY <2>1, <2>2, RunsAgree
  <2> QED BY <1>2, <2>1, <2>3, <2>4
<1> QED BY <1>3, <1>4, <1>5 DEF Iterated

LEMMA ListedIs ==
    ASSUME NEW h, HeapOK(h), NEW L, NEW sz, NEW rk, NEW m, Lists(h, L, sz, rk, m),
           NEW k \in Bins, NEW at, at = Listed(h, k)
    PROVE  /\ at[0] = h.bin[k]
           /\ \A i \in Nat : at[i + 1] = IF at[i] = 0 THEN 0 ELSE NextOf(h, at[i])
<1> DEFINE V == L \cup {0}
           next == [v \in V |-> IF v = 0 THEN 0 ELSE NextOf(h, v)]
           At(g) == [i \in Nat |-> IF i = 0 THEN h.bin[k]
                                   ELSE IF g[i - 1] = 0 THEN 0 ELSE NextOf(h, g[i - 1])]
<1>1. h.bin[k] \in V
  BY DEF Lists
<1>2. next \in [V -> V]
  <2>1. \A v \in L : NextOf(h, v) \in V
    BY DEF Lists, Linked
  <2> QED BY <2>1
<1>3. \A v \in V : next[v] = IF v = 0 THEN 0 ELSE NextOf(h, v)
  OBVIOUS
<1> HIDE DEF next, V
<1>4. PICK f \in [Nat -> V] : f[0] = h.bin[k] /\ \A i \in Nat : f[i + 1] = next[f[i]]
  <2> DEFINE a == h.bin[k]
  <2>1. a \in V /\ a = h.bin[k]
    BY <1>1
  <2> HIDE DEF a
  <2>2. \E f \in [Nat -> V] : Iterated(f, a, next)
    BY <1>2, <2>1, Iterates
  <2> QED BY <2>1, <2>2 DEF Iterated
<1>5. f = At(f)
  <2>1. ASSUME NEW i \in Nat
        PROVE  f[i] = IF i = 0 THEN h.bin[k]
                      ELSE IF f[i - 1] = 0 THEN 0 ELSE NextOf(h, f[i - 1])
    <3>1. CASE i = 0
      BY <1>4, <3>1
    <3>2. CASE i # 0
      <4>1. i - 1 \in Nat /\ i - 1 + 1 = i
        BY <3>2
      <4>2. f[i] = next[f[i - 1]] /\ f[i - 1] \in V
        BY <1>4, <4>1
      <4> QED BY <1>3, <3>2, <4>2
    <3> QED BY <3>1, <3>2
  <2> QED BY <1>4, <2>1
<1>6. at = CHOOSE g : g = At(g)
  BY DEF Listed
<1> HIDE DEF At
<1>7. at = At(at)
  BY <1>5, <1>6
<1> USE DEF At
<1>8. at[0] = h.bin[k]
  BY <1>7
<1>9. ASSUME NEW i \in Nat PROVE at[i + 1] = IF at[i] = 0 THEN 0 ELSE NextOf(h, at[i])
  <2>1. i + 1 \in Nat /\ i + 1 # 0 /\ (i + 1) - 1 = i
    OBVIOUS
  <2> QED BY <1>7, <2>1
<1> QED BY <1>8, <1>9

InBin(L, sz, k) == {b \in L : Bin(sz[b]) = k}

LEMMA ListedIn ==
    ASSUME NEW h, HeapOK(h), NEW L, NEW sz, NEW rk, NEW m, Lists(h, L, sz, rk, m),
           NEW k \in Bins, NEW at, at = Listed(h, k), NEW i \in Nat
    PROVE  /\ at[i] # 0 => at[i] \in InBin(L, sz, k)
           /\ at[i] = 0 => at[i + 1] = 0
           /\ at[i + 1] # 0 => PrevOf(h, at[i + 1]) = at[i] /\ rk[at[i + 1]] < rk[at[i]]
<1> DEFINE V == InBin(L, sz, k) \cup {0}
           Bad == {j \in Nat : at[j] \notin V}
<1>1. /\ at[0] = h.bin[k]
      /\ \A j \in Nat : at[j + 1] = IF at[j] = 0 THEN 0 ELSE NextOf(h, at[j])
  BY ListedIs
<1>2. \A b \in L : /\ b # 0
                   /\ NextOf(h, b) # 0 => /\ NextOf(h, b) \in L
                                          /\ Bin(sz[NextOf(h, b)]) = Bin(sz[b])
                                          /\ PrevOf(h, NextOf(h, b)) = b
                                          /\ rk[NextOf(h, b)] < rk[b]
  <2>1. \A b \in L : b # 0
    BY CellsNat DEF Lists, Linkable
  <2> QED BY <2>1 DEF Lists, Linked
<1>3. Bad = {}
  <2> SUFFICES ASSUME Bad # {} PROVE FALSE
    OBVIOUS
  <2>1. PICK j \in Bad : \A l \in Bad : j <= l
    <3>1. Bad \in SUBSET Nat
      OBVIOUS
    <3> QED BY <3>1, LeastOf
  <2>2. j \in Nat /\ at[j] \notin V
    OBVIOUS
  <2>3. at[0] \in V
    BY <1>1 DEF Lists, InBin
  <2>4. j - 1 \in Nat /\ (j - 1) + 1 = j /\ j - 1 \notin Bad
    BY <2>1, <2>2, <2>3
  <2>5. at[j - 1] \in V
    BY <2>4
  <2>6. at[j] = IF at[j - 1] = 0 THEN 0 ELSE NextOf(h, at[j - 1])
    BY <1>1, <2>4
  <2> QED BY <1>2, <2>2, <2>5, <2>6 DEF InBin
<1>4. at[i] \in V /\ at[i + 1] = IF at[i] = 0 THEN 0 ELSE NextOf(h, at[i])
  BY <1>1, <1>3
<1> QED BY <1>2, <1>4 DEF InBin

(* Ranks descend along a list, so that it ends, and passes no block twice.  *)
LEMMA ListedFalls ==
    ASSUME NEW h, HeapOK(h), NEW L, NEW sz, NEW rk, NEW m, Lists(h, L, sz, rk, m),
           NEW k \in Bins, NEW at, at = Listed(h, k), NEW i \in Nat
    PROVE  /\ \A j \in Nat : j <= i /\ at[i] # 0 => at[j] # 0 /\ rk[at[i]] + (i - j) <= rk[at[j]]
           /\ at[i] # 0 => rk[at[i]] \in Nat
<1> DEFINE Bad == {n \in Nat : at[n] # 0 /\ \E j \in Nat :
                     j <= n /\ ~(at[j] # 0 /\ rk[at[n]] + (n - j) <= rk[at[j]])}
<1>1. \A n \in Nat : at[n] # 0 => rk[at[n]] \in Nat
  <2>1. \A n \in Nat : at[n] # 0 => at[n] \in InBin(L, sz, k)
    BY ListedIn
  <2>2. \A b \in L : rk[b] \in Nat
    BY DEF Lists, Linkable
  <2> QED BY <2>1, <2>2 DEF InBin
<1>2. Bad = {}
  <2> SUFFICES ASSUME Bad # {} PROVE FALSE
    OBVIOUS
  <2>1. PICK n \in Bad : \A l \in Bad : n <= l
    <3>1. Bad \in SUBSET Nat
      OBVIOUS
    <3> QED BY <3>1, LeastOf
  <2>2. PICK j \in Nat : j <= n /\ ~(at[j] # 0 /\ rk[at[n]] + (n - j) <= rk[at[j]])
    OBVIOUS
  <2>3. n \in Nat /\ at[n] # 0
    OBVIOUS
  <2>4. j # n
    BY <1>1, <2>2, <2>3
  <2>5. n - 1 \in Nat /\ (n - 1) + 1 = n /\ n - 1 \notin Bad /\ j <= n - 1
    BY <2>1, <2>2, <2>3, <2>4
  <2>6. at[n - 1] # 0 /\ rk[at[n]] < rk[at[n - 1]]
    <3>1. /\ at[n - 1] = 0 => at[(n - 1) + 1] = 0
          /\ at[(n - 1) + 1] # 0 => rk[at[(n - 1) + 1]] < rk[at[n - 1]]
      BY <2>5, ListedIn
    <3> QED BY <2>3, <2>5, <3>1
  <2>7. at[j] # 0 /\ rk[at[n - 1]] + ((n - 1) - j) <= rk[at[j]]
    BY <2>5, <2>6
  <2>8. rk[at[n]] \in Nat /\ rk[at[n - 1]] \in Nat /\ rk[at[j]] \in Nat
    BY <1>1, <2>3, <2>5, <2>6, <2>7
  <2> QED BY <2>2, <2>3, <2>5, <2>6, <2>7, <2>8
<1> QED BY <1>1, <1>2

(* A list holds the blocks of its bin, in as many places.                   *)
LEMMA ListedHolds ==
    ASSUME NEW h, HeapOK(h), NEW L, NEW sz, NEW rk, NEW m, Lists(h, L, sz, rk, m),
           NEW k \in Bins, NEW at, at = Listed(h, k)
    PROVE  \E n \in Nat :
             /\ \A i \in Nat : at[i] # 0 <=> i < n
             /\ \A i, j \in 0..n - 1 : at[i] = at[j] => i = j
             /\ InBin(L, sz, k) = {at[i] : i \in 0..n - 1}
<1> DEFINE End == {i \in Nat : at[i] = 0}
<1>1. \A i \in Nat :
        /\ at[i] # 0 => at[i] \in InBin(L, sz, k) /\ rk[at[i]] \in Nat
        /\ at[i] = 0 => at[i + 1] = 0
        /\ at[i + 1] # 0 => PrevOf(h, at[i + 1]) = at[i]
        /\ \A j \in Nat : j <= i /\ at[i] # 0 => at[j] # 0 /\ rk[at[i]] + (i - j) <= rk[at[j]]
  BY ListedIn, ListedFalls
<1>2. End # {}
  <2> SUFFICES ASSUME End = {} PROVE FALSE
    OBVIOUS
  <2>1. \A i \in Nat : at[i] # 0
    OBVIOUS
  <2> DEFINE r == rk[at[0]]
  <2>2. r \in Nat
    BY <1>1, <2>1
  <2>3. r + 1 \in Nat /\ 0 <= r + 1
    BY <2>2
  <2>4. rk[at[r + 1]] \in Nat /\ rk[at[r + 1]] + ((r + 1) - 0) <= r
    <3> HIDE DEF r
    <3>1. \A j \in Nat : j <= r + 1 /\ at[r + 1] # 0 => rk[at[r + 1]] + ((r + 1) - j) <= rk[at[j]]
      BY <1>1, <2>3
    <3>2. rk[at[r + 1]] + ((r + 1) - 0) <= rk[at[0]]
      BY <2>1, <2>3, <3>1
    <3> QED BY <1>1, <2>1, <2>3, <3>2 DEF r
  <2> QED BY <2>2, <2>4
<1>3. PICK n \in End : \A i \in End : n <= i
  <2>1. End \in SUBSET Nat
    OBVIOUS
  <2> QED BY <1>2, <2>1, LeastOf
<1>4. n \in Nat /\ at[n] = 0
  OBVIOUS
<1>5. \A i \in Nat : at[i] # 0 <=> i < n
  BY <1>1, <1>3, <1>4
<1>6. ASSUME NEW i \in 0..n - 1, NEW j \in 0..n - 1, at[i] = at[j] PROVE i = j
  <2>1. i \in Nat /\ j \in Nat /\ at[i] # 0 /\ at[j] # 0
    BY <1>4, <1>5
  <2>2. rk[at[i]] \in Nat /\ rk[at[i]] = rk[at[j]]
    BY <1>1, <1>6, <2>1
  <2>3. i <= j => rk[at[j]] + (j - i) <= rk[at[i]]
    BY <1>1, <2>1
  <2>4. j <= i => rk[at[i]] + (i - j) <= rk[at[j]]
    BY <1>1, <2>1
  <2> QED BY <2>1, <2>2, <2>3, <2>4
<1>7. InBin(L, sz, k) \subseteq {at[i] : i \in 0..n - 1}
  <2> DEFINE Out == {b \in InBin(L, sz, k) : b \notin {at[i] : i \in 0..n - 1}}
             Far == {m - rk[b] : b \in Out}
  <2> SUFFICES ASSUME Out # {} PROVE FALSE
    OBVIOUS
  <2>1. \A b \in L : /\ b \in Linkable /\ b # 0 /\ rk[b] \in Nat /\ rk[b] < m
                     /\ Linked(h, L, sz, rk, b)
    BY CellsNat DEF Lists, Linkable
  <2>2. m \in Nat
    BY DEF Lists
  <2>3. Far \in SUBSET Nat /\ Far # {}
    BY <2>1, <2>2 DEF InBin
  <2>4. PICK f \in Far : \A g \in Far : f <= g
    BY <2>3, LeastOf
  <2>5. PICK b \in Out : f = m - rk[b]
    OBVIOUS
  <2>6. \A c \in Out : rk[c] <= rk[b]
    <3> SUFFICES ASSUME NEW c \in Out PROVE rk[c] <= rk[b]
      OBVIOUS
    <3>1. m - rk[b] <= m - rk[c]
      BY <2>4, <2>5
    <3>2. rk[b] \in Nat /\ rk[c] \in Nat
      BY <2>1 DEF InBin
    <3> QED BY <2>2, <3>1, <3>2
  <2>7. b \in L /\ Bin(sz[b]) = k /\ b \notin {at[i] : i \in 0..n - 1} /\ b # 0
    BY <2>1 DEF InBin
  <2>8. at[0] = h.bin[k] /\ \A i \in Nat : at[i + 1] = IF at[i] = 0 THEN 0 ELSE NextOf(h, at[i])
    BY ListedIs
  <2>9. PrevOf(h, b) # 0
    <3> SUFFICES ASSUME PrevOf(h, b) = 0 PROVE FALSE
      OBVIOUS
    <3>1. at[0] = b
      BY <2>1, <2>7, <2>8 DEF Linked
    <3>2. 0 \in 0..n - 1
      BY <1>4, <1>5, <2>7, <3>1
    <3> QED BY <2>7, <3>1, <3>2
  <2> DEFINE p == PrevOf(h, b)
  <2>10. p \in L /\ NextOf(h, p) = b /\ Bin(sz[p]) = k /\ rk[b] < rk[p]
    <3>1. p \in L /\ NextOf(h, p) = b
      BY <2>1, <2>7, <2>9 DEF Linked
    <3> HIDE DEF p
    <3> QED BY <2>1, <2>7, <3>1 DEF Linked
  <2> HIDE DEF p
  <2>11. p \notin Out
    <3>1. rk[b] \in Nat /\ rk[p] \in Nat
      BY <2>1, <2>7, <2>10
    <3> QED BY <2>6, <2>10, <3>1
  <2>12. PICK i \in 0..n - 1 : at[i] = p
    BY <2>10, <2>11 DEF InBin
  <2>13. i \in Nat /\ i + 1 \in Nat /\ at[i + 1] = b
    BY <1>4, <2>1, <2>8, <2>10, <2>12
  <2>14. i + 1 \in 0..n - 1
    BY <1>4, <1>5, <2>7, <2>13
  <2> QED BY <2>7, <2>13, <2>14
<1>8. {at[i] : i \in 0..n - 1} \subseteq InBin(L, sz, k)
  BY <1>1, <1>4, <1>5
<1> QED BY <1>4, <1>5, <1>6, <1>7, <1>8

(* There is room for so many blocks, and no list is longer.                 *)
LEMMA BlocksFit ==
    ASSUME NEW S, NEW sz, NEW end, Layout(S, sz, end), NEW R \in SUBSET S
    PROVE  /\ IsFiniteSet(R) /\ Cardinality(R) <= MaxBlocks
           /\ MaxBlocks \in Nat
<1> DEFINE f == [b \in R |-> (b - First) \div 32]
<1>1. MaxBlocks \in Nat /\ Top \in Nat /\ First = 152 /\ Top >= First
  BY Numbers DEF MaxBlocks
<1>2. ASSUME NEW b \in R PROVE (b - First) \div 32 \in 0..MaxBlocks - 1
  <2>1. b \in Nat /\ First <= b /\ b + 32 <= Top
    <3>1. /\ b \in Nat /\ First <= b /\ sz[b] \in Nat /\ sz[b] >= 32
          /\ b + sz[b] <= end /\ end <= Top /\ end \in Nat
      BY BlockCells
    <3> QED BY <1>1, <3>1
  <2>2. (b - First) \div 32 \in Nat /\ 32 * ((b - First) \div 32) <= b - First
    BY <1>1, <2>1
  <2>3. (b - First) \div 32 + 1 <= (Top - First) \div 32
    BY <1>1, <2>1
  <2> QED BY <1>1, <2>2, <2>3 DEF MaxBlocks
<1>3. ASSUME NEW a \in R, NEW b \in R, (a - First) \div 32 = (b - First) \div 32 PROVE a = b
  <2>1. /\ a \in Nat /\ b \in Nat /\ sz[a] \in Nat /\ sz[b] \in Nat
        /\ sz[a] >= 32 /\ sz[b] >= 32 /\ First <= a /\ First <= b
    BY BlockCells
  <2>2. a # b => a + sz[a] <= b \/ b + sz[b] <= a
    BY Apart
  <2>3. a - b < 32 /\ b - a < 32
    <3> DEFINE x == a - First
               y == b - First
    <3>1. x \in Nat /\ y \in Nat /\ x \div 32 = y \div 32
      BY <1>1, <1>3, <2>1
    <3>2. x - y < 32 /\ y - x < 32
      <4> HIDE DEF x, y
      <4> QED BY <3>1
    <3> QED BY <1>1, <2>1, <3>2
  <2> QED BY <2>1, <2>2, <2>3
<1>4. f \in Injection(R, 0..MaxBlocks - 1)
  <2>1. f \in [R -> 0..MaxBlocks - 1]
    BY <1>2
  <2>2. \A a, b \in R : f[a] = f[b] => a = b
    BY <1>3
  <2> HIDE DEF f
  <2> QED BY <2>1, <2>2 DEF Injection, IsInjective
<1>5. IsFiniteSet(0..MaxBlocks - 1) /\ Cardinality(0..MaxBlocks - 1) = MaxBlocks
  BY <1>1, FS_Interval
<1> HIDE DEF f
<1>6. IsFiniteSet(R) /\ Cardinality(R) <= Cardinality(0..MaxBlocks - 1)
  BY <1>4, <1>5, FS_Injection
<1> QED BY <1>1, <1>5, <1>6

Full(at, F, n) ==
    /\ n \in Nat /\ n <= MaxBlocks /\ MaxBlocks \in Nat
    /\ \A i \in Nat : at[i] # 0 <=> i < n
    /\ F = {at[i] : i \in 0..n - 1}

LEMMA ListedFits ==
    ASSUME NEW S, NEW end, NEW h, HeapOK(h), NEW L \in SUBSET S, NEW sz, NEW rk, NEW m,
           Layout(S, sz, end), Lists(h, L, sz, rk, m), NEW k \in Bins, NEW at, at = Listed(h, k)
    PROVE  Full(at, InBin(L, sz, k), Cardinality(InBin(L, sz, k)))
<1>1. PICK l \in Nat :
        /\ \A i \in Nat : at[i] # 0 <=> i < l
        /\ \A i, j \in 0..l - 1 : at[i] = at[j] => i = j
        /\ InBin(L, sz, k) = {at[i] : i \in 0..l - 1}
  BY ListedHolds
<1> DEFINE f == [i \in 0..l - 1 |-> at[i]]
<1>2. f \in Bijection(0..l - 1, InBin(L, sz, k))
  <2>1. f \in [0..l - 1 -> InBin(L, sz, k)]
    BY <1>1
  <2>2. \A i, j \in 0..l - 1 : f[i] = f[j] => i = j
    BY <1>1
  <2>3. \A b \in InBin(L, sz, k) : \E i \in 0..l - 1 : f[i] = b
    BY <1>1
  <2> HIDE DEF f
  <2> QED BY <2>1, <2>2, <2>3 DEF Bijection, Injection, IsInjective, Surjection
<1>3. IsFiniteSet(0..l - 1) /\ Cardinality(0..l - 1) = l
  BY FS_Interval
<1>4. ExistsBijection(0..l - 1, InBin(L, sz, k))
  BY <1>2 DEF ExistsBijection
<1>5. Cardinality(InBin(L, sz, k)) = l
  BY <1>3, <1>4, FS_Bijection
<1>6. InBin(L, sz, k) \in SUBSET S
  BY DEF InBin
<1>7. Cardinality(InBin(L, sz, k)) <= MaxBlocks /\ MaxBlocks \in Nat
  BY <1>6, BlocksFit
<1> QED BY <1>1, <1>5, <1>7 DEF Full

(* Bins are by size.                                                        *)
LEMMA BinsAscend ==
    ASSUME NEW n \in Nat, n >= 32, n % 16 = 0, NEW s \in Nat, s >= 32, s % 16 = 0,
           Bin(n) <= Bin(s), Bin(s) # SmallBins
    PROVE  n <= s
<1>1. SmallBins \in Nat
  BY Numbers
<1>2. Bin(s) = (s - 32) \div 16 /\ Bin(s) < SmallBins
  BY <1>1 DEF Bin
<1>3. (n - 32) \div 16 <= (s - 32) \div 16
  <2>1. CASE (n - 32) \div 16 < SmallBins
    BY <1>2, <2>1 DEF Bin
  <2>2. CASE ~((n - 32) \div 16 < SmallBins)
    BY <1>1, <1>2, <2>2 DEF Bin
  <2> QED BY <2>1, <2>2
<1> QED BY <1>3

LEMMA FitFits ==
    ASSUME NEW h, NEW S, NEW sz, NEW T, NEW L, NEW U, NEW rk, NEW m, NEW of,
           Open(h, S, sz, T, L, U, rk, m, of),
           NEW n \in Nat, n >= 32, n % 16 = 0, NEW b, b = Fit(h, n), b # 0
    PROVE  b \in L /\ sz[b] >= n
<1> DEFINE small == {k \in Bin(n)..SmallBins - 1 : h.bin[k] # 0}
           at == Listed(h, SmallBins)
           large == {i \in 0..MaxBlocks : at[i] # 0 /\ Size(h, at[i]) >= n}
<1>1. /\ HeapOK(h) /\ Layout(S, sz, h.frontier) /\ Lists(h, L, sz, rk, m)
      /\ L \subseteq T /\ T \subseteq S
  BY OpenHas
<1>2. SmallBins \in Nat \ {0} /\ SmallBins \in Bins /\ Bin(n) \in Bins
  BY Numbers, BinType DEF Bins
<1>3. b = CASE small # {} -> h.bin[Min(small)]
            [] small = {} /\ large # {} -> at[Min(large)]
            [] OTHER -> 0
  BY DEF Fit
<1>4. CASE small # {}
  <2>1. PICK l \in small : \A j \in small : l <= j
    <3>1. small \in SUBSET Nat
      BY <1>2 DEF Bins
    <3> QED BY <1>4, <3>1, LeastOf
  <2>2. Min(small) \in small
    BY <2>1 DEF Min
  <2> DEFINE k == Min(small)
  <2>3. k \in Bin(n)..SmallBins - 1 /\ h.bin[k] # 0 /\ b = h.bin[k]
    BY <1>3, <1>4, <2>2
  <2> HIDE DEF k
  <2>4. k \in Bins /\ Bin(n) <= k /\ k # SmallBins
    BY <1>2, <2>3 DEF Bins
  <2>5. b \in L /\ Bin(sz[b]) = k
    BY <1>1, <2>3, <2>4 DEF Lists
  <2>6. sz[b] \in Nat /\ sz[b] >= 32 /\ sz[b] % 16 = 0
    BY <1>1, <2>5, BlockCells
  <2> QED BY <2>4, <2>5, <2>6, BinsAscend
<1>5. CASE small = {} /\ large # {}
  <2>1. PICK l \in large : \A j \in large : l <= j
    <3>1. large \in SUBSET Nat
      OBVIOUS
    <3> QED BY <1>5, <3>1, LeastOf
  <2>2. Min(large) \in large
    BY <2>1 DEF Min
  <2> DEFINE i == Min(large)
  <2>3. i \in Nat /\ at[i] # 0 /\ Size(h, at[i]) >= n /\ b = at[i]
    <3>1. b = at[i]
      <4> HIDE DEF small, large
      <4> QED BY <1>3, <1>5
    <3> QED BY <2>2, <3>1
  <2> HIDE DEF i
  <2>4. at[i] \in InBin(L, sz, SmallBins)
    BY <1>1, <1>2, <2>3, ListedIn
  <2>5. b \in L /\ b \in T
    BY <1>1, <2>3, <2>4 DEF InBin
  <2>6. Size(h, b) = sz[b]
    BY <2>5, OpenReads
  <2> QED BY <2>3, <2>5, <2>6
<1> QED BY <1>3, <1>4, <1>5

(* Read by its tags, the heap has the blocks that tile it.                  *)
Stops(b) == b \notin Cells \/ b >= heap.frontier \/ Size(heap, b) < 32

After(b) ==
    {c \in Nat : \A X \in SUBSET Nat :
        b \in X /\ (\A v \in X : ~Stops(v) => v + Size(heap, v) \in X) => c \in X}

LEMMA AfterIs ==
    ASSUME HeapOK(heap), NEW b \in Nat
    PROVE  /\ After(b) = IF Stops(b) THEN {b} ELSE {b} \cup After(b + Size(heap, b))
           /\ ~Stops(b) => b + Size(heap, b) \in Nat
<1>1. \A v \in Nat : ~Stops(v) => v + Size(heap, v) \in Nat
  <2> SUFFICES ASSUME NEW v \in Nat, ~Stops(v) PROVE v + Size(heap, v) \in Nat
    OBVIOUS
  <2>1. v \in Cells
    BY DEF Stops
  <2>2. Tag(heap, v) \in Nat
    BY <2>1, WordsNat DEF Tag
  <2>3. Size(heap, v) \in Nat
    BY <2>2 DEF Size, SizeIn
  <2> QED BY <2>3
<1>2. CASE Stops(b)
  <2>1. \A c \in After(b) : c \in {b}
    <3>1. {b} \in SUBSET Nat /\ b \in {b} /\ \A v \in {b} : Stops(v)
      BY <1>2
    <3> QED BY <3>1 DEF After
  <2>2. b \in After(b)
    BY DEF After
  <2> QED BY <1>2, <2>1, <2>2
<1>3. CASE ~Stops(b)
  <2> DEFINE n == b + Size(heap, b)
  <2>1. n \in Nat
    BY <1>1, <1>3
  <2>2. n = b + Size(heap, b)
    OBVIOUS
  <2> HIDE DEF n
  <2>3. b \in After(b)
    BY DEF After
  <2>4. ASSUME NEW c \in After(n) PROVE c \in After(b)
    <3> SUFFICES ASSUME NEW X \in SUBSET Nat, b \in X,
                        \A v \in X : ~Stops(v) => v + Size(heap, v) \in X
                 PROVE  c \in X
      BY <2>4 DEF After
    <3>1. n \in X
      BY <1>3, <2>2
    <3> QED BY <2>4, <3>1 DEF After
  <2>5. ASSUME NEW c \in After(b), c # b PROVE c \in After(n)
    <3> SUFFICES ASSUME NEW X \in SUBSET Nat, n \in X,
                        \A v \in X : ~Stops(v) => v + Size(heap, v) \in X
                 PROVE  c \in X
      BY <2>5 DEF After
    <3> DEFINE Y == X \cup {b}
    <3>1. /\ Y \in SUBSET Nat /\ b \in Y
          /\ \A v \in Y : ~Stops(v) => v + Size(heap, v) \in Y
      BY <2>2
    <3> HIDE DEF Y
    <3>2. c \in Y
      BY <2>5, <3>1 DEF After
    <3> QED BY <2>5, <3>2 DEF Y
  <2>6. After(b) = {b} \cup After(n)
    BY <2>3, <2>4, <2>5
  <2> QED BY <1>3, <2>1, <2>2, <2>6
<1> QED BY <1>2, <1>3

LEMMA StartsAre ==
    ASSUME HeapOK(heap), NEW S, NEW sz, Layout(S, sz, heap.frontier),
           \A b \in S : Size(heap, b) = sz[b]
    PROVE  Starts = S
<1> DEFINE end == heap.frontier
           From(g) == [b \in Nat |-> IF Stops(b) THEN {b} ELSE {b} \cup g[b + Size(heap, b)]]
           from == CHOOSE g : g = From(g)
<1>1. Starts = from[First] \ {end}
  BY DEF Starts, Stops
<1>2. from = From(from)
  <2> DEFINE e == [b \in Nat |-> After(b)]
  <2>1. \A b \in Nat : e[b] = IF Stops(b) THEN {b} ELSE {b} \cup e[b + Size(heap, b)]
    <3> SUFFICES ASSUME NEW b \in Nat
                 PROVE  e[b] = IF Stops(b) THEN {b} ELSE {b} \cup e[b + Size(heap, b)]
      OBVIOUS
    <3>1. /\ After(b) = IF Stops(b) THEN {b} ELSE {b} \cup After(b + Size(heap, b))
          /\ ~Stops(b) => b + Size(heap, b) \in Nat
      BY AfterIs
    <3> QED BY <3>1
  <2>2. e = From(e)
    BY <2>1
  <2> HIDE DEF e, From
  <2> QED BY <2>2
<1> HIDE DEF from
<1>3. \A b \in Nat : from[b] = IF Stops(b) THEN {b} ELSE {b} \cup from[b + Size(heap, b)]
  BY <1>2
<1> HIDE DEF From
<1>4. \A b \in S : /\ b \in Nat /\ b \in Cells /\ sz[b] \in Nat /\ sz[b] >= 32
                   /\ b + sz[b] \in S \cup {end} /\ b + sz[b] <= end /\ ~Stops(b)
  <2>1. \A b \in S : /\ b \in Nat /\ b \in Cells /\ sz[b] \in Nat /\ sz[b] >= 32
                     /\ b + sz[b] \in S \cup {end} /\ b + sz[b] <= end /\ end \in Nat
    BY BlockCells
  <2> QED BY <2>1 DEF Stops
<1>5. end \in Nat /\ Stops(end) /\ end \notin S
  <2>1. end \in Nat
    BY DEF Layout
  <2> QED BY <1>4, <2>1 DEF Stops
<1> DEFINE Rest(b) == {c \in S \cup {end} : c >= b}
           Bad == {end - b : b \in {c \in S \cup {end} : from[c] # Rest(c)}}
<1>6. Bad = {}
  <2> SUFFICES ASSUME Bad # {} PROVE FALSE
    OBVIOUS
  <2>1. \A b \in S \cup {end} : b \in Nat /\ end - b \in Nat
    BY <1>4, <1>5
  <2>2. PICK l \in Bad : \A j \in Bad : l <= j
    <3>1. Bad \in SUBSET Nat
      BY <2>1
    <3> QED BY <3>1, LeastOf
  <2>3. PICK b \in S \cup {end} : from[b] # Rest(b) /\ l = end - b
    OBVIOUS
  <2>4. CASE b = end
    <3>1. Rest(end) = {end}
      BY <1>4, <1>5
    <3> QED BY <1>3, <1>5, <2>3, <2>4, <3>1
  <2>5. CASE b \in S
    <3> DEFINE n == b + sz[b]
    <3>1. n \in S \cup {end} /\ n \in Nat /\ b < n /\ b \in Nat
      BY <1>4, <2>5
    <3>2. from[n] = Rest(n)
      <4> SUFFICES ASSUME from[n] # Rest(n) PROVE FALSE
        OBVIOUS
      <4>1. end - n \in Bad
        BY <3>1
      <4>2. end - b <= end - n
        BY <2>2, <2>3, <4>1
      <4> QED BY <1>5, <3>1, <4>2
    <3>3. from[b] = {b} \cup from[n]
      BY <1>3, <1>4, <2>5
    <3>4. \A c \in S \cup {end} : c >= b /\ c # b => c >= n
      <4>1. \A c \in S : b < c => n <= c
        BY <2>5 DEF Layout
      <4> QED BY <1>4, <1>5, <2>5, <3>1, <4>1
    <3> HIDE DEF n
    <3>5. Rest(b) = {b} \cup Rest(n)
      <4>1. \A c \in S \cup {end} : c \in Nat
        BY <1>4, <1>5
      <4>2. \A c \in S \cup {end} : c >= b <=> c = b \/ c >= n
        <5> SUFFICES ASSUME NEW c \in S \cup {end}
                     PROVE  c >= b <=> c = b \/ c >= n
          OBVIOUS
        <5>1. c \in Nat /\ (c >= b /\ c # b => c >= n)
          BY <3>4, <4>1
        <5> QED BY <3>1, <5>1
      <4> HIDE DEF end
      <4>3. Rest(b) \subseteq {b} \cup Rest(n)
        BY <4>2
      <4>4. {b} \cup Rest(n) \subseteq Rest(b)
        BY <2>5, <4>2
      <4> QED BY <4>3, <4>4
    <3> QED BY <2>3, <3>2, <3>3, <3>5
  <2> QED BY <2>4, <2>5
<1>7. First \in S \cup {end} /\ \A c \in S : c >= First
  <2>1. First \in S \cup {end}
    BY DEF Layout
  <2> QED BY <2>1, BlockCells
<1>8. from[First] = Rest(First)
  BY <1>6, <1>7
<1>9. Rest(First) \ {end} = S
  BY <1>5, <1>7
<1> QED BY <1>1, <1>8, <1>9

-----------------------------------------------------------------------------
(* Between calls: every block has its tags, those that are not free are     *)
(* those handed out, and no two free blocks touch.                          *)
Parted(L, sz) == \A a \in L : a + sz[a] \notin L

Good(h, S, sz, L, rk, m, of) ==
    /\ Open(h, S, sz, S, L, S \ L, rk, m, of) /\ Parted(L, sz)
    /\ of \in [Links(S \ L) -> Grants]

(* Within a call: one block, taken from its list or its owner, has neither  *)
(* tags nor links.                                                          *)
Loose(h, S, sz, L, rk, m, of, b) ==
    /\ b \in S \ L /\ Parted(L, sz)
    /\ Open(h, S, sz, S \ {b}, L, (S \ L) \ {b}, rk, m, of)

LEMMA MergeNextDoes ==
    ASSUME NEW h, NEW S, NEW sz, NEW L, NEW rk, NEW m, NEW of, NEW b,
           Loose(h, S, sz, L, rk, m, of, b), Size(h, b) = sz[b],
           NEW M, M = MergeNext(h, b)
    PROVE  \E R, sy, K :
             /\ Loose(M.h, R, sy, K, rk, m, of, b)
             /\ M = [h |-> M.h, b |-> b, size |-> sy[b]]
             /\ b + sy[b] \notin K /\ R \ K = S \ L
<1> DEFINE n == b + sz[b]
           end == h.frontier
<1>1. /\ b \in S /\ b \notin L /\ Parted(L, sz)
      /\ Open(h, S, sz, S \ {b}, L, (S \ L) \ {b}, rk, m, of)
  BY DEF Loose
<1>2. Layout(S, sz, end) /\ L \subseteq S \ {b} /\ sz \in [Cells -> Nat] /\ S \subseteq Cells
  BY <1>1, OpenHas
<1>3. /\ b \in Nat /\ sz[b] \in Nat /\ sz[b] >= 32 /\ n \in S \cup {end} /\ n <= end
      /\ end \in Nat /\ n # b
  BY <1>1, <1>2, BlockCells
<1>4. ASSUME n \in S PROVE n < end
  <2>1. n \in Nat /\ sz[n] \in Nat /\ sz[n] >= 32 /\ n + sz[n] <= end
    BY <1>2, <1>4, BlockCells
  <2> QED BY <1>3, <2>1
<1>5. n < end /\ UsedIn(Tag(h, n)) = 0 <=> n \in L
  <2>1. CASE n \in S
    <3>1. n \in S \ {b}
      BY <1>3, <2>1
    <3>2. UsedIn(Tag(h, n)) = 0 <=> n \in L
      BY <1>1, <3>1, OpenReads
    <3> QED BY <1>4, <2>1, <3>2
  <2>2. CASE n \notin S
    BY <1>2, <1>3, <2>2
  <2> QED BY <2>1, <2>2
<1>6. CASE n \notin L
  <2>1. M = [h |-> h, b |-> b, size |-> sz[b]]
    BY <1>5, <1>6 DEF MergeNext
  <2>2. M.h = h
    BY <2>1
  <2> QED BY <1>6, <2>1, <2>2
<1>7. CASE n \in L
  <2> DEFINE g == Unlink(h, n)
             R == S \ {n}
             K == L \ {n}
             sy == [sz EXCEPT ![b] = sz[b] + sz[n]]
             T == S \ {b}
             U == (S \ L) \ {b}
  <2>1. n \in T /\ n \in S /\ Size(h, n) = sz[n]
    <3>1. n \in S \ {b}
      BY <1>2, <1>7
    <3> QED BY <1>1, <3>1, OpenReads
  <2>2. M = [h |-> g, b |-> b, size |-> sy[b]]
    BY <1>1, <1>2, <1>5, <1>7, <2>1 DEF MergeNext
  <2>3. Open(g, S, sz, T \ {n}, K, U, rk, m, of)
    BY <1>1, <1>7, OpenUnlink
  <2>4. b \in S \ (T \ {n}) /\ n \in S \ (T \ {n}) /\ b + sz[b] = n
    BY <1>1, <2>1
  <2> HIDE DEF g, n
  <2>5. Open(g, R, sy, T \ {n}, K, U, rk, m, of)
    BY <2>3, <2>4, OpenJoin
  <2>6. T \ {n} = R \ {b} /\ U = (R \ K) \ {b} /\ R \ K = S \ L /\ b \in R \ K
    BY <1>1, <1>3, <1>7, <2>1
  <2>7. b + sy[b] \notin K
    <3>1. sy[b] = sz[b] + sz[n]
      BY <1>1, <1>2
    <3>2. sz[n] \in Nat /\ n + sz[n] = b + sy[b]
      BY <1>2, <1>3, <2>1, <3>1 DEF n
    <3> QED BY <1>1, <1>7, <3>2 DEF Parted
  <2>8. Parted(K, sy)
    <3>1. \A a \in K : a # b /\ sy[a] = sz[a]
      BY <1>1, <1>2
    <3> QED BY <1>1, <3>1 DEF Parted
  <2> HIDE DEF R, K, sy, T, U
  <2>9. Loose(g, R, sy, K, rk, m, of, b)
    BY <2>5, <2>6, <2>8 DEF Loose
  <2>10. M.h = g
    BY <2>2
  <2> QED BY <2>2, <2>6, <2>7, <2>9, <2>10
<1> QED BY <1>6, <1>7

LEMMA MergePrevDoes ==
    ASSUME NEW h, NEW S, NEW sz, NEW L, NEW rk, NEW m, NEW of, NEW b,
           Loose(h, S, sz, L, rk, m, of, b), b + sz[b] \notin L,
           NEW M, M = [h |-> h, b |-> b, size |-> sz[b]], NEW N, N = MergePrev(M)
    PROVE  \E R, sy, K, a :
             /\ Loose(N.h, R, sy, K, rk, m, of, a)
             /\ N = [h |-> N.h, b |-> a, size |-> sy[a]]
             /\ a + sy[a] \notin K /\ \A x \in K : x + sy[x] # a
             /\ (R \ K) \ {a} = (S \ L) \ {b}
<1> DEFINE end == h.frontier
           T == S \ {b}
           U == (S \ L) \ {b}
<1>1. /\ b \in S /\ b \notin L /\ Parted(L, sz)
      /\ Open(h, S, sz, T, L, U, rk, m, of)
  BY DEF Loose
<1>2. Layout(S, sz, end) /\ L \subseteq T /\ sz \in [Cells -> Nat] /\ S \subseteq Cells
  BY <1>1, OpenHas
<1>3. \A x \in S : x \in Nat /\ sz[x] \in Nat /\ sz[x] >= 32 /\ First <= x
  BY <1>2, BlockCells
<1>4. CASE b = First
  <2>1. N = [h |-> h, b |-> b, size |-> sz[b]]
    BY <1>4, Numbers DEF MergePrev
  <2>2. \A x \in L : x + sz[x] # b
    BY <1>2, <1>3, <1>4, Numbers
  <2>3. N.h = h
    BY <2>1
  <2> QED BY <2>1, <2>2, <2>3
<1>5. CASE b # First
  <2>1. PICK p \in S : p + sz[p] = b
    BY <1>1, <1>2, <1>5 DEF Layout
  <2>2. p \in T /\ b > First /\ b - 8 = p + sz[p] - 8 /\ b - sz[p] = p
    BY <1>1, <1>3, <1>5, <2>1, Numbers
  <2>3. /\ SizeIn(Tag(h, b - 8)) = sz[p]
        /\ UsedIn(Tag(h, b - 8)) = 0 <=> p \in L
    BY <1>1, <2>2, OpenReads
  <2>4. \A x \in S : x + sz[x] = b => x = p
    <3> SUFFICES ASSUME NEW x \in S, x + sz[x] = b PROVE x = p
      OBVIOUS
    <3>1. x # p => x + sz[x] <= p \/ p + sz[p] <= x
      BY <1>2, Apart
    <3> QED BY <1>3, <2>1, <3>1
  <2>5. CASE p \notin L
    <3>1. N = [h |-> h, b |-> b, size |-> sz[b]]
      BY <2>2, <2>3, <2>5 DEF MergePrev
    <3>2. \A x \in L : x + sz[x] # b
      BY <1>2, <2>4, <2>5
    <3>3. N.h = h
      BY <3>1
    <3> QED BY <3>1, <3>2, <3>3
  <2>6. CASE p \in L
    <3> DEFINE g == Unlink(h, p)
               R == S \ {b}
               K == L \ {p}
               sy == [sz EXCEPT ![p] = sz[p] + sz[b]]
    <3>1. sy[p] = sz[p] + sz[b] /\ \A x \in S : x # p => sy[x] = sz[x]
      BY <1>2, <2>1
    <3>2. N = [h |-> g, b |-> p, size |-> sy[p]]
      <4>1. sz[b] + sz[p] = sy[p]
        BY <1>1, <1>3, <2>1, <3>1
      <4> HIDE DEF sy
      <4> QED BY <2>2, <2>3, <2>6, <4>1 DEF MergePrev
    <3>3. Open(g, S, sz, T \ {p}, K, U, rk, m, of)
      BY <1>1, <2>6, OpenUnlink
    <3>4. p \in S \ (T \ {p}) /\ b \in S \ (T \ {p})
      BY <1>1, <2>1
    <3> HIDE DEF g
    <3>5. Open(g, R, sy, T \ {p}, K, U, rk, m, of)
      BY <2>1, <3>3, <3>4, OpenJoin
    <3>6. T \ {p} = R \ {p} /\ U = (R \ K) \ {p} /\ p \in R \ K
      BY <1>1, <2>2, <2>6
    <3>7. p + sy[p] \notin K
      <4>1. p + sy[p] = b + sz[b]
        BY <1>1, <1>3, <2>1, <3>1
      <4> QED BY <4>1
    <3>8. Parted(K, sy) /\ \A x \in K : x + sy[x] # p
      <4>1. \A x \in K : x # p /\ sy[x] = sz[x]
        BY <1>2, <3>1
      <4> QED BY <1>1, <2>6, <4>1 DEF Parted
    <3>9. N.h = g
      BY <3>2
    <3>10. (R \ K) \ {p} = (S \ L) \ {b}
      BY <3>6
    <3> HIDE DEF R, K, sy, T, U
    <3>11. Loose(g, R, sy, K, rk, m, of, p)
      BY <3>5, <3>6, <3>8 DEF Loose
    <3> QED BY <3>2, <3>7, <3>8, <3>9, <3>10, <3>11
  <2> QED BY <2>5, <2>6
<1> QED BY <1>4, <1>5

LEMMA OpenOwners ==
    ASSUME NEW h, NEW S, NEW sz, NEW T, NEW L, NEW U, NEW rk, NEW m, NEW of,
           Open(h, S, sz, T, L, U, rk, m, of), NEW no, Owned(U, of, no)
    PROVE  Open(h, S, sz, T, L, U, rk, m, no)
<1>1. Holds(h, U, sz, of)
  BY OpenHas
<1>2. Holds(h, U, sz, no)
  BY <1>1 DEF Holds, Owned
<1> QED BY <1>2 DEF Open

Told(h, S, sz, L) == \A b \in S : Size(h, b) = sz[b] /\ (UsedIn(Tag(h, b)) = 0 <=> b \in L)

LEMMA GoodHas ==
    ASSUME NEW h, NEW S, NEW sz, NEW L, NEW rk, NEW m, NEW of, Good(h, S, sz, L, rk, m, of)
    PROVE  /\ Open(h, S, sz, S, L, S \ L, rk, m, of) /\ Parted(L, sz)
           /\ of \in [Links(S \ L) -> Grants]
           /\ L \subseteq S /\ S \subseteq Cells /\ S \subseteq Nat /\ sz \in [Cells -> Nat]
           /\ Layout(S, sz, h.frontier) /\ HeapOK(h) /\ Lists(h, L, sz, rk, m)
           /\ Told(h, S, sz, L)
<1>1. Open(h, S, sz, S, L, S \ L, rk, m, of)
  BY DEF Good
<1>2. \A b \in S : Size(h, b) = sz[b] /\ (UsedIn(Tag(h, b)) = 0 <=> b \in L)
  BY <1>1, OpenReads
<1>3. /\ L \subseteq S /\ S \subseteq Cells /\ sz \in [Cells -> Nat]
      /\ Layout(S, sz, h.frontier) /\ HeapOK(h) /\ Lists(h, L, sz, rk, m)
  BY <1>1, OpenHas
<1> QED BY <1>1, <1>2, <1>3, CellsNat DEF Good, Told

LEMMA LinksLess ==
    ASSUME NEW X, X \subseteq Nat, NEW b \in Nat
    PROVE  /\ Links(X \ {b}) = Links(X) \ {b + 8}
           /\ Links(X \cup {b}) = Links(X) \cup {b + 8}
<1>1. \A x \in X : x + 8 = b + 8 <=> x = b
  OBVIOUS
<1> QED BY <1>1 DEF Links

TakeBack(of, b) == [q \in DOMAIN of \ {b + 8} |-> of[q]]

LEMMA FreedDoes ==
    ASSUME NEW h, NEW S, NEW sz, NEW L, NEW rk, NEW m, NEW of, Good(h, S, sz, L, rk, m, of),
           NEW b \in S \ L, NEW no, no = TakeBack(of, b)
    PROVE  \E R, sy, K, rn, l : Good(Freed(h, b), R, sy, K, rn, l, no)
<1> DEFINE M == MergeNext(h, b)
           N == MergePrev(M)
           g == Push(SetTags(N.h, N.b, N.size, 0), N.b, N.size)
<1>1. /\ Open(h, S, sz, S, L, S \ L, rk, m, of) /\ Parted(L, sz)
      /\ of \in [Links(S \ L) -> Grants] /\ Size(h, b) = sz[b] /\ S \subseteq Nat
  <2>1. Told(h, S, sz, L)
    BY GoodHas
  <2>2. Open(h, S, sz, S, L, S \ L, rk, m, of) /\ Parted(L, sz) /\ S \subseteq Nat
    BY GoodHas
  <2>3. of \in [Links(S \ L) -> Grants]
    BY DEF Good
  <2> QED BY <2>1, <2>2, <2>3 DEF Told
<1>2. Loose(h, S, sz, L, rk, m, of, b)
  <2>1. Open(h, S, sz, S \ {b}, L, (S \ L) \ {b}, rk, m, of)
    BY <1>1, OpenDrop
  <2> QED BY <1>1, <2>1 DEF Loose
<1>3. M = MergeNext(h, b) /\ N = MergePrev(M) /\ Freed(h, b) = g
      /\ g = Push(SetTags(N.h, N.b, N.size, 0), N.b, N.size)
  BY DEF Freed
<1> HIDE DEF M, N, g
<1>4. PICK R, sy, K :
        /\ Loose(M.h, R, sy, K, rk, m, of, b)
        /\ M = [h |-> M.h, b |-> b, size |-> sy[b]]
        /\ b + sy[b] \notin K /\ R \ K = S \ L
  BY <1>1, <1>2, <1>3, MergeNextDoes
<1>5. PICK Q, sx, J, a :
        /\ Loose(N.h, Q, sx, J, rk, m, of, a)
        /\ N = [h |-> N.h, b |-> a, size |-> sx[a]]
        /\ a + sx[a] \notin J /\ \A x \in J : x + sx[x] # a
        /\ (Q \ J) \ {a} = (R \ K) \ {b}
  <2> DEFINE f == M.h
  <2>1. Loose(f, R, sy, K, rk, m, of, b) /\ M = [h |-> f, b |-> b, size |-> sy[b]]
    BY <1>4
  <2> HIDE DEF f
  <2> QED BY <1>3, <1>4, <2>1, MergePrevDoes
<1>6. N.b = a /\ N.size = sx[a]
  BY <1>5
<1> DEFINE f == N.h
           I == J \cup {a}
           rn == [rk EXCEPT ![a] = m]
<1>7. g = Push(SetTags(f, a, sx[a], 0), a, sx[a])
  BY <1>3, <1>6
<1>8. /\ a \in Q /\ a \notin J /\ Parted(J, sx)
      /\ Open(f, Q, sx, Q \ {a}, J, (Q \ J) \ {a}, rk, m, of)
  BY <1>5 DEF Loose
<1> HIDE DEF f
<1>9. Open(g, Q, sx, (Q \ {a}) \cup {a}, I, (Q \ J) \ {a}, rn, m + 1, of)
  <2>1. a \in Q \ (Q \ {a})
    BY <1>8
  <2> QED BY <1>7, <1>8, <2>1, OpenFree
<1>10. (Q \ {a}) \cup {a} = Q /\ (Q \ J) \ {a} = Q \ I /\ Q \ I = (S \ L) \ {b}
  BY <1>4, <1>5, <1>8
<1>11. Open(g, Q, sx, Q, I, Q \ I, rn, m + 1, of)
  BY <1>9, <1>10
<1>12. Parted(I, sx)
  <2>1. J \subseteq Q /\ \A x \in Q : x \in Nat /\ sx[x] \in Nat /\ sx[x] >= 32
    <3>1. J \subseteq Q \ {a} /\ Layout(Q, sx, f.frontier)
      BY <1>8, OpenHas
    <3>2. \A x \in Q : x \in Nat /\ sx[x] \in Nat /\ sx[x] >= 32
      BY <3>1, BlockCells
    <3> QED BY <3>1, <3>2
  <2>2. a + sx[a] # a
    BY <1>8, <2>1
  <2> QED BY <1>5, <1>8, <2>2 DEF Parted
<1>13. DOMAIN no = Links(Q \ I) /\ \A x \in Q \ I : x + 8 \in DOMAIN of
  <2>1. Links((S \ L) \ {b}) = Links(S \ L) \ {b + 8}
    BY <1>1, LinksLess
  <2>2. DOMAIN of = Links(S \ L)
    BY <1>1
  <2> QED BY <1>10, <2>1, <2>2 DEF Links, TakeBack
<1>14. Owned(Q \ I, of, no)
  <2>1. \A x \in Q \ I : x + 8 \in DOMAIN no
    BY <1>13 DEF Links
  <2> QED BY <2>1 DEF Owned, TakeBack
<1>15. no \in [Links(Q \ I) -> Grants]
  BY <1>1, <1>13 DEF TakeBack
<1>16. Open(g, Q, sx, Q, I, Q \ I, rn, m + 1, no)
  BY <1>11, <1>14, OpenOwners
<1>17. Good(g, Q, sx, I, rn, m + 1, no)
  BY <1>12, <1>15, <1>16 DEF Good
<1> QED BY <1>3, <1>17

(* A block in the tags is handed out.                                       *)
LEMMA HandedOut ==
    ASSUME NEW h, NEW S, NEW sz, NEW L, NEW rk, NEW m, NEW of, NEW b \in S \ L,
           Open(h, S, sz, S, L, (S \ L) \ {b}, rk, m, of), Parted(L, sz),
           of \in [Links((S \ L) \ {b}) -> Grants], S \subseteq Nat,
           NEW n \in NewSizes, n + 16 <= sz[b], NEW d \in Data
    PROVE  Good(Fill(h, b + 8, n, d), S, sz, L, rk, m, Give(of, b, n, d))
<1> DEFINE g == Fill(h, b + 8, n, d)
           no == Give(of, b, n, d)
           U == (S \ L) \ {b}
<1>1. Open(g, S, sz, S, L, U \cup {b}, rk, m, no)
  <2>1. b \in S /\ b \notin L /\ b \notin U
    OBVIOUS
  <2> HIDE DEF U
  <2>2. Open(h, S, sz, S, L, U, rk, m, of)
    BY DEF U
  <2> QED BY <2>1, <2>2, OpenFill
<1>2. U \cup {b} = S \ L
  OBVIOUS
<1>3. no \in [Links(S \ L) -> Grants]
  <2>1. DOMAIN of \cup {b + 8} = Links(S \ L)
    <3>1. U \subseteq Nat /\ b \in Nat /\ DOMAIN of = Links(U)
      OBVIOUS
    <3> HIDE DEF U
    <3>2. Links(U \cup {b}) = Links(U) \cup {b + 8}
      BY <3>1, LinksLess
    <3> QED BY <1>2, <3>1, <3>2
  <2>2. [size |-> n, data |-> d] \in Grants
    BY DEF Grants
  <2> QED BY <2>1, <2>2 DEF Give
<1> HIDE DEF g, no, U
<1>4. Good(g, S, sz, L, rk, m, no)
  BY <1>1, <1>2, <1>3 DEF Good
<1> QED BY <1>4 DEF g, no

LEMMA SizesFit ==
    ASSUME NEW n \in NewSizes
    PROVE  /\ BlockSize(n) \in Nat /\ BlockSize(n) >= 32 /\ BlockSize(n) % 16 = 0
           /\ n + 16 <= BlockSize(n)
<1>1. n \in Nat /\ n >= 1
  BY Numbers
<1> DEFINE q == (n + 15) \div 16
<1>2. q \in Nat /\ 16 * q >= n /\ q >= 1
  BY <1>1
<1>3. BlockSize(n) = q * 16 + 16
  BY DEF BlockSize
<1> HIDE DEF q
<1> QED BY <1>1, <1>2, <1>3

(* A free block is taken, and cut if the rest can be a block.               *)
Carved(f, of, b, n, U) ==
    \E R, sy, K, rn, l :
        /\ Open(f, R, sy, R, K, (R \ K) \ {b}, rn, l, of)
        /\ Parted(K, sy) /\ b \in R \ K /\ n <= sy[b] /\ (R \ K) \ {b} = U

LEMMA CarveDoes ==
    ASSUME NEW h, NEW S, NEW sz, NEW L, NEW rk, NEW m, NEW of, NEW b,
           Loose(h, S, sz, L, rk, m, of, b), b + sz[b] \notin L,
           NEW n \in Nat, n >= 32, n % 16 = 0, n <= sz[b], NEW was, was = sz[b]
    PROVE  Carved(Carve(h, b, was, n), of, b, n, (S \ L) \ {b})
<1> DEFINE T == S \ {b}
           U == (S \ L) \ {b}
           end == h.frontier
<1>1. /\ b \in S /\ b \notin L /\ Parted(L, sz)
      /\ Open(h, S, sz, T, L, U, rk, m, of)
  BY DEF Loose
<1>2. Layout(S, sz, end) /\ L \subseteq T /\ sz \in [Cells -> Nat] /\ S \subseteq Cells
  BY <1>1, OpenHas
<1>3. \A x \in S : x \in Nat /\ x \in Cells /\ sz[x] \in Nat /\ sz[x] >= 32
  BY <1>2, BlockCells
<1>4. CASE ~(was - n >= 32)
  <2>1. Carve(h, b, was, n) = SetTags(h, b, sz[b], 1)
    BY <1>4 DEF Carve
  <2>2. b \in S \ T /\ T \cup {b} = S
    BY <1>1
  <2> HIDE DEF T, U
  <2>3. Open(SetTags(h, b, sz[b], 1), S, sz, T \cup {b}, L, U, rk, m, of)
    BY <1>1, <2>2, OpenUse
  <2>4. Open(Carve(h, b, was, n), S, sz, S, L, (S \ L) \ {b}, rk, m, of)
    BY <2>1, <2>2, <2>3 DEF U
  <2>5. b \in S \ L /\ n <= sz[b] /\ (S \ L) \ {b} = (S \ L) \ {b}
    BY <1>1
  <2> QED BY <1>1, <2>4, <2>5 DEF Carved
<1>5. CASE was - n >= 32
  <2> DEFINE c == b + n
             R == S \cup {c}
             K == L \cup {c}
             sy == [sz EXCEPT ![b] = n, ![c] = sz[b] - n]
             rn == [rk EXCEPT ![c] = m]
             f == SetTags(h, b, n, 1)
             g == Push(SetTags(f, c, sy[c], 0), c, sy[c])
  <2>1. c \in Cells \ S /\ Open(h, R, sy, T, L, U, rk, m, of)
    <3>1. b \in S \ T /\ sz[b] - n >= 32
      BY <1>1, <1>5
    <3> HIDE DEF T, U
    <3> QED BY <1>1, <3>1, OpenSplit
  <2>2. /\ sy[b] = n /\ sy[c] = sz[b] - n /\ c # b
        /\ \A x \in S : x # b => sy[x] = sz[x]
    <3>1. c # b
      BY <1>1, <2>1
    <3> QED BY <1>1, <1>2, <1>3, <2>1, <3>1
  <2>3. Carve(h, b, was, n) = g
    BY <1>5, <2>2 DEF Carve
  <2>4. c + sy[c] = b + sz[b] /\ sy[c] \in Nat /\ sy[c] >= 32
    BY <1>1, <1>3, <1>5, <2>2
  <2> HIDE DEF sy, g
  <2>5. Open(f, R, sy, T \cup {b}, L, U, rk, m, of)
    <3>1. b \in R \ T /\ f = SetTags(h, b, sy[b], 1)
      BY <1>1, <2>2
    <3> HIDE DEF f, R, T, U
    <3> QED BY <2>1, <3>1, OpenUse
  <2>6. Open(g, R, sy, (T \cup {b}) \cup {c}, K, U, rn, m + 1, of)
    <3>1. c \in R \ (T \cup {b}) /\ g = Push(SetTags(f, c, sy[c], 0), c, sy[c])
      BY <1>1, <2>1 DEF g
    <3> HIDE DEF f, R, T, U, c
    <3> QED BY <2>5, <3>1, OpenFree
  <2>7. /\ (T \cup {b}) \cup {c} = R /\ b \in R \ K /\ U = (R \ K) \ {b}
    BY <1>1, <2>1, <2>2
  <2>8. Parted(K, sy)
    <3>1. \A x \in L : x # b /\ sy[x] = sz[x] /\ x \in S
      BY <1>2, <2>2
    <3>2. \A x \in L : x + sy[x] # c
      <4> SUFFICES ASSUME NEW x \in L, x + sz[x] = c PROVE FALSE
        BY <3>1
      <4>1. x \in S /\ x # b
        BY <3>1
      <4>2. x + sz[x] <= b \/ b + sz[b] <= x
        BY <1>1, <1>2, <4>1, Apart
      <4>3. n < sz[b]
        BY <1>1, <1>3, <1>5
      <4> QED BY <1>1, <1>3, <4>1, <4>2, <4>3
    <3>3. c + sy[c] # c
      <4>1. c \in Nat
        BY <2>1, CellsNat
      <4> QED BY <2>4, <4>1
    <3>4. \A x \in L : x + sy[x] \notin L
      BY <1>1, <3>1 DEF Parted
    <3>5. c + sy[c] \notin L
      BY <2>4
    <3> HIDE DEF c
    <3> QED BY <3>2, <3>3, <3>4, <3>5 DEF Parted
  <2>9. n <= sy[b] /\ (R \ K) \ {b} = (S \ L) \ {b}
    BY <2>2, <2>7
  <2> HIDE DEF R, K, T, U, rn
  <2>10. Open(g, R, sy, R, K, (R \ K) \ {b}, rn, m + 1, of)
    BY <2>6, <2>7
  <2> QED BY <2>3, <2>7, <2>8, <2>9, <2>10 DEF Carved
<1> QED BY <1>4, <1>5

(* realloc of a block: the free one that fits,                              *)
LEMMA TakenDoes ==
    ASSUME NEW h, NEW S, NEW sz, NEW L, NEW rk, NEW m, NEW of, Good(h, S, sz, L, rk, m, of),
           NEW n \in NewSizes, NEW d \in Data, NEW b, b = Fit(h, BlockSize(n)), b # 0
    PROVE  /\ b + 8 \notin DOMAIN of
           /\ \E R, sy, K, rn, l :
                Good(Fill(Carve(Unlink(h, b), b, Size(h, b), BlockSize(n)), b + 8, n, d),
                     R, sy, K, rn, l, Give(of, b, n, d))
<1> DEFINE size == BlockSize(n)
           was == Size(h, b)
           g == Unlink(h, b)
           J == L \ {b}
           f == Carve(g, b, was, size)
<1>1. /\ Open(h, S, sz, S, L, S \ L, rk, m, of) /\ Parted(L, sz)
      /\ of \in [Links(S \ L) -> Grants] /\ L \subseteq S /\ S \subseteq Nat
      /\ Layout(S, sz, h.frontier) /\ Told(h, S, sz, L)
  BY GoodHas
<1>2. size \in Nat /\ size >= 32 /\ size % 16 = 0 /\ n + 16 <= size
  BY SizesFit
<1>3. b \in L /\ sz[b] >= size
  BY <1>1, <1>2, FitFits
<1>4. b \in S /\ was = sz[b] /\ b \in Nat /\ n \in Nat
  BY <1>1, <1>3, Numbers DEF Told
<1>5. \A x \in S : x \in Nat /\ sz[x] \in Nat /\ sz[x] >= 32
  BY <1>1, BlockCells
<1> HIDE DEF size, was, g, f
<1>6. Open(g, S, sz, S \ {b}, J, S \ L, rk, m, of)
  BY <1>1, <1>3, OpenUnlink DEF g
<1>7. (S \ L) = (S \ J) \ {b} /\ b \in S \ J
  BY <1>3, <1>4
<1>8. Loose(g, S, sz, J, rk, m, of, b)
  <2>1. Parted(J, sz)
    BY <1>1 DEF Parted
  <2> HIDE DEF J
  <2> QED BY <1>6, <1>7, <2>1 DEF Loose
<1>9. b + sz[b] \notin J
  BY <1>1, <1>3 DEF Parted
<1> HIDE DEF J
<1>10. PICK R, sy, K, rn, l :
         /\ Open(f, R, sy, R, K, (R \ K) \ {b}, rn, l, of)
         /\ Parted(K, sy) /\ b \in R \ K /\ size <= sy[b] /\ (R \ K) \ {b} = (S \ J) \ {b}
  <2>1. f = Carve(g, b, was, size) /\ size <= sz[b]
    BY <1>3 DEF f
  <2>2. Carved(Carve(g, b, was, size), of, b, size, (S \ J) \ {b})
    BY <1>2, <1>4, <1>8, <1>9, <2>1, CarveDoes
  <2> QED BY <2>1, <2>2 DEF Carved
<1>11. /\ of \in [Links((R \ K) \ {b}) -> Grants]
       /\ R \subseteq Nat /\ sy[b] \in Nat
  <2>1. Layout(R, sy, f.frontier)
    BY <1>10, OpenHas
  <2>2. (R \ K) \ {b} = S \ L
    BY <1>7, <1>10
  <2>3. b \in R /\ \A x \in R : x \in Nat /\ sy[x] \in Nat
    BY <1>10, <2>1, BlockCells
  <2> QED BY <1>1, <2>2, <2>3
<1>12. n + 16 <= sy[b]
  BY <1>2, <1>4, <1>10, <1>11
<1>13. Good(Fill(f, b + 8, n, d), R, sy, K, rn, l, Give(of, b, n, d))
  BY <1>10, <1>11, <1>12, HandedOut
<1>14. b + 8 \notin DOMAIN of
  <2>1. \A x \in S \ L : x \in Nat /\ x # b
    BY <1>3, <1>5
  <2>2. DOMAIN of = Links(S \ L)
    BY <1>1
  <2> QED BY <1>4, <2>1, <2>2 DEF Links
<1> QED BY <1>13, <1>14 DEF f, g, size, was

(* or fresh memory.                                                         *)
LEMMA GrownDoes ==
    ASSUME NEW h, NEW S, NEW sz, NEW L, NEW rk, NEW m, NEW of, Good(h, S, sz, L, rk, m, of),
           NEW n \in NewSizes, NEW d \in Data, NEW b, b = h.frontier,
           b + BlockSize(n) <= Top
    PROVE  /\ b + 8 \notin DOMAIN of
           /\ \E R, sy, K, rn, l :
                Good(Fill(SetTags([h EXCEPT !.frontier = b + BlockSize(n)], b, BlockSize(n), 1),
                          b + 8, n, d),
                     R, sy, K, rn, l, Give(of, b, n, d))
<1> DEFINE size == BlockSize(n)
           g == [h EXCEPT !.frontier = b + size]
           R == S \cup {b}
           sy == [sz EXCEPT ![b] = size]
           f == SetTags(g, b, size, 1)
<1>1. /\ Open(h, S, sz, S, L, S \ L, rk, m, of) /\ Parted(L, sz)
      /\ of \in [Links(S \ L) -> Grants] /\ L \subseteq S /\ S \subseteq Nat
      /\ Layout(S, sz, h.frontier) /\ sz \in [Cells -> Nat] /\ S \subseteq Cells
  BY GoodHas
<1>2. size \in Nat /\ size >= 32 /\ size % 16 = 0 /\ n + 16 <= size
  BY SizesFit
<1> HIDE DEF size
<1>3. b \in Cells \ S /\ Open(g, R, sy, S, L, S \ L, rk, m, of)
  <2>1. b + size <= Top
    BY DEF size
  <2> QED BY <1>1, <1>2, <2>1, OpenGrow
<1>4. b \in Nat /\ sy[b] = size /\ \A x \in S : sy[x] = sz[x]
  BY <1>1, <1>3, CellsNat
<1>5. b \in R \ S /\ f = SetTags(g, b, sy[b], 1) /\ S \cup {b} = R
  BY <1>3, <1>4
<1>6. Parted(L, sy)
  BY <1>1, <1>4 DEF Parted
<1>7. (R \ L) \ {b} = S \ L /\ b \in R \ L /\ R \subseteq Nat
  BY <1>1, <1>3, <1>4
<1> HIDE DEF g, sy, f, R
<1>8. Open(f, R, sy, S \cup {b}, L, S \ L, rk, m, of)
  BY <1>3, <1>5, OpenUse
<1>9. Open(f, R, sy, R, L, (R \ L) \ {b}, rk, m, of)
  BY <1>5, <1>7, <1>8
<1>10. of \in [Links((R \ L) \ {b}) -> Grants] /\ n + 16 <= sy[b]
  BY <1>1, <1>2, <1>4, <1>7
<1>11. Good(Fill(f, b + 8, n, d), R, sy, L, rk, m, Give(of, b, n, d))
  BY <1>6, <1>7, <1>9, <1>10, HandedOut
<1>12. b + 8 \notin DOMAIN of
  <2>1. DOMAIN of = Links(S \ L) /\ \A x \in S \ L : x \in Nat /\ x # b
    BY <1>1, <1>3
  <2> QED BY <1>4, <2>1 DEF Links
<1> QED BY <1>11, <1>12 DEF f, g, size

(* What a heap holds, read from its words.                                  *)
ContentsIn(h, a, p) ==
    LET words == UNION {{h.mem[c].lo, h.mem[c].hi} : c \in Cells \cap (p..p + a[p] - 1)}
    IN  IF Cardinality(words) = 1 THEN CHOOSE d \in words : TRUE ELSE -1

Live(h, a) == [p \in DOMAIN a |-> [size |-> a[p], data |-> ContentsIn(h, a, p)]]

SizesOf(of) == [p \in DOMAIN of |-> of[p].size]

LEMMA LiveIs ==
    ASSUME NEW h, NEW S, NEW sz, NEW L, NEW rk, NEW m, NEW of, Good(h, S, sz, L, rk, m, of),
           NEW a, a = SizesOf(of)
    PROVE  Live(h, a) = of
<1>1. /\ Holds(h, S \ L, sz, of) /\ of \in [Links(S \ L) -> Grants]
      /\ Layout(S, sz, h.frontier)
  <2>1. /\ Open(h, S, sz, S, L, S \ L, rk, m, of) /\ of \in [Links(S \ L) -> Grants]
        /\ Layout(S, sz, h.frontier)
    BY GoodHas
  <2>2. Holds(h, S \ L, sz, of)
    BY <2>1, OpenHas
  <2> QED BY <2>1, <2>2
<1>2. ASSUME NEW p \in DOMAIN of
      PROVE  [size |-> a[p], data |-> ContentsIn(h, a, p)] = of[p]
  <2>1. PICK b \in S \ L : p = b + 8
    BY <1>1 DEF Links
  <2>2. of[p] \in Grants /\ a[p] = of[p].size /\ of[p].size \in Nat \ {0}
    BY <1>1, <2>1, Numbers DEF SizesOf, Grants
  <2>3. p \in Cells /\ p \in Nat
    BY <1>1, <2>1, BlockCells
  <2> DEFINE d == of[p].data
             C == Cells \cap (p..p + a[p] - 1)
             words == UNION {{h.mem[c].lo, h.mem[c].hi} : c \in C}
  <2>4. \A c \in C : h.mem[c] = [lo |-> d, hi |-> d]
    BY <1>1, <2>1, <2>2 DEF Holds, Payload
  <2>5. p \in C
    BY <2>2, <2>3
  <2>6. words = {d}
    <3> HIDE DEF C, d
    <3>1. \A c \in C : h.mem[c].lo = d /\ h.mem[c].hi = d
      BY <2>4
    <3> QED BY <2>5, <3>1
  <2>7. ContentsIn(h, a, p) = IF Cardinality(words) = 1 THEN CHOOSE x \in words : TRUE ELSE -1
    BY DEF ContentsIn
  <2> HIDE DEF words, C
  <2>8. Cardinality({d}) = 1
    BY FS_Singleton
  <2>9. ContentsIn(h, a, p) = d
    BY <2>6, <2>7, <2>8
  <2> QED BY <2>2, <2>9 DEF Grants
<1>3. DOMAIN a = DOMAIN of
  BY DEF SizesOf
<1> QED BY <1>1, <1>2, <1>3 DEF Live

-----------------------------------------------------------------------------
(* The free-list allocator keeps its heap good.                             *)
FreeListInv == \E S, sz, L, rk, m : Good(heap, S, sz, L, rk, m, Live(heap, asked))

LEMMA FreeListInit == Init => FreeListInv
<1> SUFFICES ASSUME Init PROVE FreeListInv
  OBVIOUS
<1> DEFINE z == [c \in Cells |-> 0]
           of == Live(heap, asked)
<1>1. HeapOK(heap) /\ heap.frontier = First /\ \A k \in Bins : heap.bin[k] = 0
  BY Numbers DEF Init, HeapOK, First
<1>2. Layout({}, z, First)
  BY Numbers DEF Layout
<1>3. Lists(heap, {}, z, z, 0)
  BY <1>1 DEF Lists
<1>4. of \in [Links({} \ {}) -> Grants]
  BY DEF Init, Live, Links
<1> HIDE DEF z, of
<1>5. Open(heap, {}, z, {}, {}, {} \ {}, z, 0, of)
  BY <1>1, <1>2, <1>3 DEF Open, Tagged, Holds
<1>6. Parted({}, z)
  BY DEF Parted
<1>7. Good(heap, {}, z, {}, z, 0, of)
  BY <1>4, <1>5, <1>6 DEF Good
<1> QED BY <1>7 DEF FreeListInv, of

(* A call that leaves the heap good, with of handed out, keeps the invariant*)
(* if asked says so.                                                        *)
LEMMA GoodEnds ==
    ASSUME NEW of, NEW S, NEW sz, NEW L, NEW rk, NEW m,
           Good(heap', S, sz, L, rk, m, of), asked' = SizesOf(of)
    PROVE  FreeListInv' /\ Live(heap', asked') = of
<1>1. Live(heap', asked') = of
  BY LiveIs
<1> QED BY <1>1 DEF FreeListInv

LEMMA AllocKeeps ==
    ASSUME FreeListInv, NEW n \in NewSizes, NEW d \in Data, NEW b,
           \/ AllocFree(n, d) /\ b = Fit(heap, BlockSize(n))
           \/ AllocFresh(n, d) /\ b = heap.frontier
    PROVE  /\ FreeListInv' /\ b + 8 \notin DOMAIN asked
           /\ Live(heap', asked') = Give(Live(heap, asked), b, n, d)
<1> DEFINE of == Live(heap, asked)
           no == Give(of, b, n, d)
<1>1. PICK S, sz, L, rk, m : Good(heap, S, sz, L, rk, m, of)
  BY DEF FreeListInv
<1>2. DOMAIN of = DOMAIN asked /\ \A p \in DOMAIN asked : of[p].size = asked[p]
  BY DEF Live
<1> HIDE DEF of
<1>3. (asked' = [q \in DOMAIN asked \cup {b + 8} |-> IF q = b + 8 THEN n ELSE asked[q]])
        => asked' = SizesOf(no)
  BY <1>2 DEF Give, SizesOf
<1> HIDE DEF no
<1>4. CASE AllocFree(n, d) /\ b = Fit(heap, BlockSize(n))
  <2>1. /\ b # 0
        /\ heap' = Fill(Carve(Unlink(heap, b), b, Size(heap, b), BlockSize(n)), b + 8, n, d)
        /\ asked' = SizesOf(no)
    BY <1>3, <1>4 DEF AllocFree, HandOut
  <2>2. /\ b + 8 \notin DOMAIN of
        /\ \E R, sy, K, rn, l : Good(heap', R, sy, K, rn, l, no)
    BY <1>1, <1>4, <2>1, TakenDoes DEF no
  <2>3. PICK R, sy, K, rn, l : Good(heap', R, sy, K, rn, l, no)
    BY <2>2
  <2> QED BY <1>2, <2>1, <2>2, <2>3, GoodEnds DEF no, of
<1>5. CASE AllocFresh(n, d) /\ b = heap.frontier
  <2>1. /\ b + BlockSize(n) <= Top
        /\ heap' = Fill(SetTags([heap EXCEPT !.frontier = b + BlockSize(n)], b, BlockSize(n), 1),
                        b + 8, n, d)
        /\ asked' = SizesOf(no)
    BY <1>3, <1>5 DEF AllocFresh, HandOut
  <2>2. /\ b + 8 \notin DOMAIN of
        /\ \E R, sy, K, rn, l : Good(heap', R, sy, K, rn, l, no)
    BY <1>1, <1>5, <2>1, GrownDoes DEF no
  <2>3. PICK R, sy, K, rn, l : Good(heap', R, sy, K, rn, l, no)
    BY <2>2
  <2> QED BY <1>2, <2>1, <2>2, <2>3, GoodEnds DEF no, of
<1> QED BY <1>4, <1>5

LEMMA FreeKeeps ==
    ASSUME FreeListInv, NEW p \in DOMAIN asked, Free(p)
    PROVE  /\ FreeListInv'
           /\ Live(heap', asked') = [q \in DOMAIN Live(heap, asked) \ {p} |-> Live(heap, asked)[q]]
<1> DEFINE of == Live(heap, asked)
           no == [q \in DOMAIN of \ {p} |-> of[q]]
<1>1. PICK S, sz, L, rk, m : Good(heap, S, sz, L, rk, m, of)
  BY DEF FreeListInv
<1>2. DOMAIN of = DOMAIN asked /\ \A q \in DOMAIN asked : of[q].size = asked[q]
  BY DEF Live
<1> HIDE DEF of
<1>3. asked' = SizesOf(no)
  BY <1>2 DEF Free, SizesOf
<1>4. PICK b \in S \ L : p = b + 8
  <2>1. DOMAIN of = Links(S \ L)
    BY <1>1 DEF Good
  <2> QED BY <1>2, <2>1 DEF Links
<1>5. b \in Nat
  BY <1>1, <1>4, GoodHas
<1>6. heap' = Freed(heap, b)
  BY <1>4, <1>5 DEF Free
<1>7. no = TakeBack(of, b)
  BY <1>4 DEF TakeBack
<1> HIDE DEF no
<1>8. \E R, sy, K, rn, l : Good(heap', R, sy, K, rn, l, no)
  BY <1>1, <1>6, <1>7, FreedDoes
<1>9. PICK R, sy, K, rn, l : Good(heap', R, sy, K, rn, l, no)
  BY <1>8
<1> QED BY <1>3, <1>9, GoodEnds DEF no, of

LEMMA FreeListStep == FreeListInv /\ [Next]_vars => FreeListInv'
<1> SUFFICES ASSUME FreeListInv, [Next]_vars PROVE FreeListInv'
  OBVIOUS
<1>1. ASSUME NEW n \in NewSizes, NEW d \in Data, AllocFree(n, d) PROVE FreeListInv'
  BY <1>1, AllocKeeps
<1>2. ASSUME NEW n \in NewSizes, NEW d \in Data, AllocFresh(n, d) PROVE FreeListInv'
  BY <1>2, AllocKeeps
<1>3. ASSUME NEW p \in DOMAIN asked, Free(p) PROVE FreeListInv'
  BY <1>3, FreeKeeps
<1>4. CASE UNCHANGED vars
  <2>1. heap' = heap /\ asked' = asked
    BY <1>4 DEF vars
  <2>2. Live(heap', asked') = Live(heap, asked)
    BY <2>1
  <2>3. \E S, sz, L, rk, m : Good(heap', S, sz, L, rk, m, Live(heap', asked'))
    BY <2>1, <2>2 DEF FreeListInv
  <2> QED BY <2>3 DEF FreeListInv
<1> QED BY <1>1, <1>2, <1>3, <1>4 DEF Next

LEMMA FreeListSpecInv == Spec => []FreeListInv
BY FreeListInit, FreeListStep, PTL DEF Spec

(* A program linked with either allocator takes the free-list allocator's   *)
(* steps or leaves its state alone.                                         *)
LEMMA ReallocOfFreeList == ReallocSpec => Spec
<1>1. ReallocInit => Init
  BY DEF ReallocInit
<1>2. [ReallocNext]_every => [Next]_vars
  BY DEF ReallocNext, DebugRealloc, FreeListRealloc, every, vars
<1> QED BY <1>1, <1>2, PTL DEF ReallocSpec, Spec

(* Blocks tile the heap, their two tags agree, those not free are those     *)
(* handed out, and no two free blocks touch: what merging on every free     *)
(* keeps, through any calls and whatever words owners write.                *)
THEOREM FreeListBlocksTile == ReallocSpec => []BlocksTile
<1>1. FreeListInv => BlocksTile
  <2> SUFFICES ASSUME FreeListInv PROVE BlocksTile
    OBVIOUS
  <2> DEFINE of == Live(heap, asked)
  <2>1. PICK S, sz, L, rk, m : Good(heap, S, sz, L, rk, m, of)
    BY DEF FreeListInv
  <2>2. DOMAIN of = DOMAIN asked /\ \A q \in DOMAIN asked : of[q].size = asked[q]
    BY DEF Live
  <2> HIDE DEF of
  <2>3. /\ HeapOK(heap) /\ Layout(S, sz, heap.frontier) /\ Told(heap, S, sz, L) /\ Parted(L, sz)
        /\ Open(heap, S, sz, S, L, S \ L, rk, m, of) /\ of \in [Links(S \ L) -> Grants]
        /\ L \subseteq S
    BY <2>1, GoodHas
  <2>4. Tagged(heap, S, sz, L) /\ Holds(heap, S \ L, sz, of)
    BY <2>3, OpenHas
  <2>5. \A b \in S : Size(heap, b) = sz[b] /\ (IsFree(b) <=> b \in L)
    BY <2>3 DEF Told, IsFree
  <2>6. Starts = S
    BY <2>3, <2>5, StartsAre
  <2>7. ASSUME NEW b \in S
        PROVE  /\ b \in Cells /\ b % 16 = 8 /\ Size(heap, b) >= 32
               /\ b + Size(heap, b) \in S \cup {heap.frontier}
               /\ Tag(heap, b + Size(heap, b) - 8) = Tag(heap, b)
    BY <2>3, <2>4, <2>5, BlockCells DEF Tagged
  <2>8. {b + 8 : b \in {c \in S : ~IsFree(c)}} = DOMAIN asked
    <3>1. {c \in S : ~IsFree(c)} = S \ L
      BY <2>5
    <3> QED BY <2>2, <2>3, <3>1 DEF Links
  <2>9. ASSUME NEW p \in DOMAIN asked PROVE asked[p] + 16 <= Size(heap, p - 8)
    <3>1. PICK b \in S \ L : p = b + 8
      BY <2>2, <2>3 DEF Links
    <3>2. b \in Nat /\ p - 8 = b
      BY <2>3, <3>1, BlockCells
    <3>3. of[p].size + 16 <= sz[b]
      BY <2>4, <3>1 DEF Holds
    <3> QED BY <2>2, <2>5, <3>1, <3>2, <3>3
  <2>10. ASSUME NEW b \in S, IsFree(b), b + Size(heap, b) < heap.frontier
         PROVE  ~IsFree(b + Size(heap, b))
    <3>1. b \in L /\ b + sz[b] \notin L /\ b + sz[b] \in S \cup {heap.frontier}
      BY <2>3, <2>5, <2>10, BlockCells DEF Parted
    <3>2. heap.frontier \in Nat
      BY <2>3 DEF Layout
    <3>3. b + sz[b] \in S
      BY <2>5, <2>10, <3>1, <3>2
    <3> QED BY <2>5, <3>1, <3>3
  <2> QED BY <2>6, <2>7, <2>8, <2>9, <2>10 DEF BlocksTile
<1> QED BY <1>1, FreeListSpecInv, ReallocOfFreeList, PTL

(* A bin lists each free block of its size once, and nothing else: an       *)
(* unlink can trust the next and prev it reads from a block.                *)
THEOREM FreeListBinsHoldTheFree == ReallocSpec => []BinsHoldTheFree
<1>1. FreeListInv => BinsHoldTheFree
  <2> SUFFICES ASSUME FreeListInv PROVE BinsHoldTheFree
    OBVIOUS
  <2> DEFINE of == Live(heap, asked)
  <2>1. PICK S, sz, L, rk, m : Good(heap, S, sz, L, rk, m, of)
    BY DEF FreeListInv
  <2> HIDE DEF of
  <2>2. /\ HeapOK(heap) /\ Layout(S, sz, heap.frontier) /\ Told(heap, S, sz, L)
        /\ Lists(heap, L, sz, rk, m) /\ L \subseteq S
    BY <2>1, GoodHas
  <2>3. \A b \in S : Size(heap, b) = sz[b] /\ (IsFree(b) <=> b \in L)
    BY <2>2 DEF Told, IsFree
  <2>4. Starts = S
    BY <2>2, <2>3, StartsAre
  <2> SUFFICES ASSUME NEW k \in Bins
               PROVE  LET at == Listed(heap, k)
                          free == {b \in S : IsFree(b) /\ Bin(Size(heap, b)) = k}
                      IN  /\ {at[i] : i \in 0..MaxBlocks} \ {0} = free
                          /\ at[Cardinality(free)] = 0
                          /\ \A i \in 0..Cardinality(free) - 1 :
                               PrevOf(heap, at[i]) = IF i = 0 THEN 0 ELSE at[i - 1]
    BY <2>4 DEF BinsHoldTheFree
  <2> DEFINE at == Listed(heap, k)
             free == {b \in S : IsFree(b) /\ Bin(Size(heap, b)) = k}
  <2>5. at = Listed(heap, k)
    OBVIOUS
  <2>6. free = InBin(L, sz, k)
    BY <2>2, <2>3 DEF InBin
  <2> HIDE DEF at, free
  <2> DEFINE n == Cardinality(free)
  <2>7. /\ n \in Nat /\ n <= MaxBlocks /\ MaxBlocks \in Nat
        /\ \A i \in Nat : at[i] # 0 <=> i < n
        /\ free = {at[i] : i \in 0..n - 1}
    <3>1. L \in SUBSET S
      BY <2>2
    <3>2. Full(at, InBin(L, sz, k), Cardinality(InBin(L, sz, k)))
      <4> DEFINE end == heap.frontier
      <4>1. Layout(S, sz, end) /\ HeapOK(heap) /\ Lists(heap, L, sz, rk, m)
        BY <2>2
      <4> HIDE DEF end
      <4> QED BY <2>5, <3>1, <4>1, ListedFits
    <3> QED BY <2>6, <3>2 DEF Full
  <2> HIDE DEF n
  <2>8. {at[i] : i \in 0..MaxBlocks} \ {0} = free
    <3>1. \A i \in 0..MaxBlocks : at[i] # 0 => i \in 0..n - 1
      BY <2>7
    <3>2. \A i \in 0..n - 1 : i \in 0..MaxBlocks /\ at[i] # 0
      BY <2>7
    <3> QED BY <2>7, <3>1, <3>2
  <2>9. ASSUME NEW i \in 0..n - 1
        PROVE  PrevOf(heap, at[i]) = IF i = 0 THEN 0 ELSE at[i - 1]
    <3>1. CASE i = 0
      <4>1. at[0] = heap.bin[k] /\ at[0] # 0
        BY <2>2, <2>5, <2>7, <3>1, ListedIs
      <4> QED BY <2>2, <3>1, <4>1 DEF Lists
    <3>2. CASE i # 0
      <4>1. i - 1 \in Nat /\ (i - 1) + 1 = i /\ at[i] # 0
        BY <2>7, <3>2
      <4>2. at[(i - 1) + 1] # 0 => PrevOf(heap, at[(i - 1) + 1]) = at[i - 1]
        BY <2>2, <2>5, <4>1, ListedIn
      <4> QED BY <3>2, <4>1, <4>2
    <3> QED BY <3>1, <3>2
  <2>10. at[n] = 0
    BY <2>7
  <2> QED BY <2>8, <2>9, <2>10 DEF n, at, free
<1> QED BY <1>1, FreeListSpecInv, ReallocOfFreeList, PTL

(* The free-list allocator is an allocator: no block handed out overlaps    *)
(* another or passes Top, and tags, links and cuts write over none of them. *)
THEOREM FreeListImplements == ReallocSpec => KeepsBlocks
<1> DEFINE live == [p \in DOMAIN asked |-> [size |-> asked[p], data |-> Contents(p)]]
<1>1. live = Live(heap, asked)
  BY DEF Live, Contents, ContentsIn
<1>2. Init => Promise!Init
  BY DEF Init, Promise!Init
<1>3. FreeListInv /\ FreeListInv' /\ [Next]_vars => [Promise!Next]_live
  <2> SUFFICES ASSUME FreeListInv, FreeListInv', [Next]_vars PROVE [Promise!Next]_live
    OBVIOUS
  <2>1. live' = Live(heap', asked')
    BY DEF Live, Contents, ContentsIn
  <2>2. ASSUME NEW n \in NewSizes, NEW d \in Data, NEW b,
               \/ AllocFree(n, d) /\ b = Fit(heap, BlockSize(n))
               \/ AllocFresh(n, d) /\ b = heap.frontier
        PROVE  Promise!Next
    <3>1. b + 8 \notin DOMAIN live /\ live' = Give(live, b, n, d)
      <4>1. /\ b + 8 \notin DOMAIN asked
            /\ Live(heap', asked') = Give(Live(heap, asked), b, n, d)
        BY <2>2, AllocKeeps
      <4> QED BY <1>1, <2>1, <4>1
    <3>2. PICK S, sz, L, rk, m : Good(heap', S, sz, L, rk, m, live')
      BY <2>1 DEF FreeListInv
    <3> DEFINE of == live'
    <3>12. of = live' /\ Good(heap', S, sz, L, rk, m, of)
      BY <3>2
    <3> HIDE DEF of
    <3>3. /\ of \in [Links(S \ L) -> Grants] /\ Layout(S, sz, (heap').frontier)
          /\ Holds(heap', S \ L, sz, of)
      <4>1. Open(heap', S, sz, S, L, S \ L, rk, m, of)
        BY <3>12, GoodHas
      <4>2. Layout(S, sz, (heap').frontier) /\ Holds(heap', S \ L, sz, of)
        BY <4>1, OpenHas
      <4>3. of \in [Links(S \ L) -> Grants]
        BY <3>12 DEF Good
      <4> QED BY <4>2, <4>3
    <3>4. /\ DOMAIN of = DOMAIN live \cup {b + 8} /\ of[b + 8] = [size |-> n, data |-> d]
          /\ \A q \in DOMAIN live : of[q] = live[q]
      BY <3>1, <3>12 DEF Give
    <3>5. \A q \in DOMAIN of : \E x \in S : q = x + 8
      BY <3>3 DEF Links
    <3>6. ASSUME NEW x \in S, x + 8 \in DOMAIN of
          PROVE  /\ x \in Nat /\ sz[x] \in Nat /\ of[x + 8].size \in Nat
                 /\ of[x + 8].size + 16 <= sz[x] /\ x + sz[x] <= Top
      <4>1. x \in Nat /\ sz[x] \in Nat /\ x + sz[x] <= Top
        <5>1. x \in Nat /\ sz[x] \in Nat /\ x + sz[x] <= (heap').frontier
              /\ (heap').frontier <= Top /\ (heap').frontier \in Nat /\ Top \in Nat
          BY <3>3, BlockCells
        <5> QED BY <5>1
      <4>2. x \in S \ L
        <5>1. PICK y \in S \ L : x + 8 = y + 8
          BY <3>3, <3>6 DEF Links
        <5>2. y \in Nat
          BY <3>3, BlockCells
        <5> QED BY <4>1, <5>1, <5>2
      <4>3. of[x + 8] \in Grants /\ of[x + 8].size + 16 <= sz[x]
        BY <3>3, <4>2 DEF Holds
      <4> QED BY <4>1, <4>3, Numbers DEF Grants
    <3> HIDE DEF live
    <3>7. PICK x \in S : b + 8 = x + 8
      BY <3>4, <3>5
    <3>8. /\ x + 8 # 0 /\ (x + 8) + n <= Top /\ of[x + 8].size = n
          /\ of[x + 8] \in Promise!Blocks
      <4>1. x + 8 \in DOMAIN of /\ of[x + 8].size = n
        BY <3>4, <3>7
      <4>2. x \in Nat /\ sz[x] \in Nat /\ n \in Nat /\ n + 16 <= sz[x] /\ x + sz[x] <= Top
            /\ Top \in Nat
        BY <3>6, <4>1, Numbers
      <4>3. of[x + 8] \in Grants
        BY <3>3, <4>1
      <4> QED BY <4>1, <4>2, <4>3 DEF Grants, Promise!Blocks
    <3>9. ASSUME NEW q \in DOMAIN live
          PROVE  (x + 8) + n <= q \/ q + live[q].size <= x + 8
      <4>1. q \in DOMAIN of /\ x + 8 \in DOMAIN of /\ of[q] = live[q] /\ q # x + 8
        BY <3>1, <3>4, <3>7
      <4>2. PICK y \in S : q = y + 8
        BY <3>5, <4>1
      <4>3. /\ x \in Nat /\ sz[x] \in Nat /\ n \in Nat /\ n + 16 <= sz[x]
            /\ y \in Nat /\ sz[y] \in Nat /\ of[q].size \in Nat /\ of[q].size + 16 <= sz[y]
        BY <3>6, <3>8, <4>1, <4>2
      <4>4. x + sz[x] <= y \/ y + sz[y] <= x
        BY <3>3, <4>1, <4>2, Apart
      <4> QED BY <4>1, <4>2, <4>3, <4>4
    <3>10. Promise!Alloc(b + 8)
      BY <3>4, <3>7, <3>8, <3>9, <3>12 DEF Promise!Alloc, Promise!Clear, live
    <3>11. b + 8 \in DOMAIN of \ DOMAIN live
      BY <3>1, <3>4
    <3> QED BY <3>10, <3>11, <3>12 DEF Promise!Next, live
  <2>3. ASSUME NEW n \in NewSizes, NEW d \in Data, AllocFree(n, d) PROVE Promise!Next
    BY <2>2, <2>3
  <2>4. ASSUME NEW n \in NewSizes, NEW d \in Data, AllocFresh(n, d) PROVE Promise!Next
    BY <2>2, <2>4
  <2>5. ASSUME NEW p \in DOMAIN asked, Free(p) PROVE Promise!Next
    <3>1. live' = [q \in DOMAIN live \ {p} |-> live[q]]
      <4>1. Live(heap', asked') =
              [q \in DOMAIN Live(heap, asked) \ {p} |-> Live(heap, asked)[q]]
        BY <2>5, FreeKeeps
      <4> QED BY <1>1, <2>1, <4>1
    <3> QED BY <3>1 DEF Promise!Next, Promise!Free
  <2>6. CASE UNCHANGED vars
    BY <2>6 DEF vars, Contents
  <2> QED BY <2>3, <2>4, <2>5, <2>6 DEF Next
<1> QED BY <1>2, <1>3, FreeListSpecInv, ReallocOfFreeList, PTL DEF Spec, KeepsBlocks, Promise!Spec

-----------------------------------------------------------------------------
(* The debug allocator.                                                     *)

USE DEF Debug!Addresses

Given == DOMAIN given

FreshAbove == \A a \in frontier..MaxAddress - 1 : mem[a] = "zero"

(* A block and its tag lie below the frontier, and read as they should.     *)
BlockKept(p) ==
    /\ 12 <= p /\ p + given[p] <= frontier
    /\ \A a \in p - 4..p - 1 : mem[a] = "tag"
    /\ \A a \in p..p + given[p] - 1 : mem[a] = "data"

BlocksApart ==
    \A p, q \in Given : p # q => p + given[p] <= q - 4 \/ q + given[q] <= p - 4

TagsOwned ==
    \A a \in Debug!Addresses : mem[a] = "tag" => \E p \in Given : a \in p - 4..p - 1

(* What was handed out is memory the host granted.                          *)
MemoryFits == pages \in Nat \ {0} /\ pages <= HostPages /\ frontier <= pages * Page

DebugInv ==
    /\ Debug!TypeOK /\ FreshAbove /\ (\A p \in Given : BlockKept(p))
    /\ BlocksApart /\ TagsOwned /\ MemoryFits

-----------------------------------------------------------------------------
LEMMA DebugConstants ==
    /\ MaxAddress \in Nat /\ MaxAddress >= 8
    /\ Page \in Nat \ {0} /\ Step \in Nat \ {0} /\ HostPages \in Nat \ {0}
    /\ \A n \in DebugSizes \cup Aligns : n \in Nat \ {0}
BY ReallocAssumption DEF Debug!MemoryAssumption, Debug!DebugAssumption

LEMMA DebugBounds ==
    ASSUME DebugInv
    PROVE  /\ frontier \in 8..MaxAddress
           /\ \A q \in Given : /\ q \in Nat /\ given[q] \in DebugSizes
                             /\ given[q] \in Nat \ {0}
                             /\ q + given[q] <= frontier /\ 12 <= q
BY DebugConstants DEF DebugInv, Debug!TypeOK, BlockKept, Given

LEMMA AlignedUp ==
    ASSUME NEW a \in Nat, NEW n \in Nat \ {0}
    PROVE  Debug!Aligned(a, n) \in Nat /\ Debug!Aligned(a, n) >= a
BY DEF Debug!Aligned

(* A set has at least as many subsets as members, so a power of 2 that is   *)
(* no less than n exists, and PowerFor is one.                              *)
LEMMA PowerIsLarge == \A n \in Nat : 2 ^ n \in Nat /\ 2 ^ n >= n
<1> SUFFICES ASSUME NEW n \in Nat PROVE 2 ^ n \in Nat /\ 2 ^ n >= n
  OBVIOUS
<1> DEFINE S == 1..n
           f == [x \in S |-> {x}]
<1>1. IsFiniteSet(S) /\ Cardinality(S) = n
  BY FS_Interval
<1>2. IsFiniteSet(SUBSET S) /\ Cardinality(SUBSET S) = 2 ^ n
  BY <1>1, FS_SUBSET
<1>3. f \in Injection(S, SUBSET S)
  BY DEF Injection, IsInjective
<1> HIDE DEF S, f
<1>4. Cardinality(S) <= Cardinality(SUBSET S)
  BY <1>2, <1>3, FS_Injection
<1>5. Cardinality(SUBSET S) \in Nat
  BY <1>2, FS_CardinalityType
<1> QED BY <1>1, <1>2, <1>4, <1>5

LEMMA PowerCovers ==
    ASSUME NEW n \in Nat
    PROVE  Debug!PowerFor(n) \in Nat /\ Debug!PowerFor(n) >= n
<1> DEFINE Is(k) == 2 ^ k >= n /\ \A j \in 0..k - 1 : 2 ^ j < n
           S == {k \in 0..n : 2 ^ k >= n}
<1>1. n \in S
  BY PowerIsLarge
<1>2. PICK k \in S : \A j \in S : k <= j
  <2>1. S \in SUBSET Nat /\ S # {}
    BY <1>1
  <2> HIDE DEF S
  <2> QED BY <2>1, LeastOf
<1>3. \A j \in 0..k - 1 : 2 ^ j < n
  <2> SUFFICES ASSUME NEW j \in 0..k - 1 PROVE 2 ^ j < n
    OBVIOUS
  <2>1. j \in 0..n /\ j \notin S /\ 2 ^ j \in Nat
    BY <1>2, PowerIsLarge
  <2> QED BY <2>1
<1>4. \E i \in 0..n : Is(i)
  BY <1>2, <1>3
<1> DEFINE c == CHOOSE i \in 0..n : Is(i)
<1>5. c \in 0..n /\ Is(c)
  BY <1>4
<1>6. Debug!PowerFor(n) = 2 ^ c
  BY DEF Debug!PowerFor
<1> HIDE DEF c
<1> QED BY <1>5, <1>6, PowerIsLarge

(* Pages for some bytes hold them, and no page is wasted.                   *)
LEMMA PagesHold ==
    ASSUME NEW bytes \in Nat
    PROVE  /\ Debug!PagesFor(bytes) \in Nat
           /\ Debug!PagesFor(bytes) * Page >= bytes
           /\ \A q \in Nat : bytes <= q * Page => Debug!PagesFor(bytes) <= q
<1> DEFINE k == Debug!PagesFor(bytes)
<1>1. Page \in Nat \ {0}
  BY DebugConstants
<1>2. k \in Nat /\ k * Page <= bytes + Page - 1 /\ bytes + Page - 1 < (k + 1) * Page
  BY <1>1 DEF Debug!PagesFor
<1> HIDE DEF k
<1>3. (k + 1) * Page = k * Page + Page /\ k * Page \in Nat
  BY <1>1, <1>2
<1>4. k * Page >= bytes
  BY <1>1, <1>2, <1>3
<1>5. ASSUME NEW q \in Nat, bytes <= q * Page PROVE k <= q
  <2> SUFFICES ASSUME q + 1 <= k PROVE FALSE
    BY <1>2
  <2>1. (q + 1) * Page <= k * Page
    BY <1>1, <1>2
  <2>2. (q + 1) * Page = q * Page + Page /\ q * Page \in Nat
    BY <1>1
  <2> QED BY <1>1, <1>2, <1>3, <1>5, <2>1, <2>2
<1> QED BY <1>2, <1>4, <1>5 DEF k

(* What a growth gives covers the deficit, within what the host allows.     *)
LEMMA GrantCovers ==
    ASSUME MemoryFits, NEW deficit \in Nat, NEW more \in Debug!Granted(deficit)
    PROVE  more \in Nat /\ more * Page >= deficit /\ pages + more <= HostPages
<1>1. Page \in Nat \ {0} /\ Step \in Nat /\ pages \in Nat /\ pages * Page \in Nat
  BY DebugConstants DEF MemoryFits
<1>2. Debug!GrowBy(deficit) \in Nat /\ Debug!GrowBy(deficit) >= deficit
  BY <1>1, PowerCovers DEF Debug!GrowBy, Debug!MemoryBytes
<1>3. /\ more = Debug!PagesFor(Debug!GrowBy(deficit)) \/ more = Debug!PagesFor(deficit)
      /\ pages + more <= HostPages
  BY DEF Debug!Granted
<1>4. CASE more = Debug!PagesFor(Debug!GrowBy(deficit))
  <2>1. more \in Nat /\ more * Page >= Debug!GrowBy(deficit)
    BY <1>2, <1>4, PagesHold
  <2> QED BY <1>1, <1>2, <1>3, <2>1
<1>5. CASE more = Debug!PagesFor(deficit)
  BY <1>3, <1>5, PagesHold
<1> QED BY <1>3, <1>4, <1>5

(* What fits in the pages the host grants is granted by the second try.     *)
LEMMA FitIsGrantedHolds ==
    ASSUME MemoryFits, NEW align \in Nat, NEW size \in Nat
    PROVE  Debug!FitIsGranted(align, size)
<1> DEFINE end == Debug!Start(align) + size
           deficit == end - Debug!MemoryBytes
<1> SUFFICES ASSUME end \in Debug!MemoryBytes + 1..HostPages * Page
             PROVE  Debug!Granted(deficit) # {}
  BY DEF Debug!FitIsGranted
<1>1. /\ Page \in Nat \ {0} /\ HostPages \in Nat /\ pages \in Nat /\ pages <= HostPages
      /\ Debug!MemoryBytes = pages * Page /\ pages * Page \in Nat /\ HostPages * Page \in Nat
  BY DebugConstants DEF MemoryFits, Debug!MemoryBytes
<1>2. HostPages - pages \in Nat
      /\ (HostPages - pages) * Page = HostPages * Page - pages * Page
  BY <1>1
<1>3. deficit \in Nat /\ deficit <= (HostPages - pages) * Page
  BY <1>1, <1>2
<1> HIDE DEF deficit
<1>4. Debug!PagesFor(deficit) \in Nat /\ Debug!PagesFor(deficit) <= HostPages - pages
  BY <1>2, <1>3, PagesHold
<1>5. pages + Debug!PagesFor(deficit) <= HostPages
  BY <1>1, <1>4
<1> QED BY <1>5 DEF Debug!Granted

(* What an allocation does, with its block named.                           *)
LEMMA DebugAllocTakes ==
    ASSUME DebugInv, NEW align \in Aligns, NEW n \in DebugSizes, Debug!Alloc(align, n)
    PROVE  \E p \in Nat :
             /\ frontier + 4 <= p /\ p + n <= MaxAddress /\ frontier' = p + n
             /\ MemoryFits'
             /\ mem' = [a \in Debug!Addresses |->
                  IF a \in p - 4..p - 1 THEN "tag"
                  ELSE IF a \in p..p + n - 1 THEN "data" ELSE mem[a]]
             /\ given' = [q \in Given \cup {p} |-> IF q = p THEN n ELSE given[q]]
<1> DEFINE p == Debug!Aligned(frontier, align) + Debug!Gap(align)
<1>1. frontier \in Nat /\ align \in Nat \ {0} /\ n \in Nat
  BY DebugConstants, DebugBounds
<1>2. Debug!Aligned(frontier, align) \in Nat /\ Debug!Aligned(frontier, align) >= frontier
  BY <1>1, AlignedUp
<1>3. Debug!Gap(align) \in Nat /\ Debug!Gap(align) >= 4
  BY <1>1 DEF Debug!Gap
<1>4. p \in Nat /\ frontier + 4 <= p
  BY <1>1, <1>2, <1>3
<1>5. p + n <= MaxAddress
  BY <1>1, <1>2, <1>3 DEF Debug!Alloc, Debug!Bump, Debug!InAddresses, Debug!Start
<1>6. frontier' = p + n
  BY <1>1, <1>2, <1>3 DEF Debug!Alloc, Debug!Bump, Debug!Start
<1>7. Debug!HandOut(p, n)
  BY DEF Debug!Alloc, Debug!Start
<1>8. MemoryFits'
  <2>1. /\ p + n = Debug!Start(align) + (Debug!Gap(align) + n)
        /\ p \in Nat /\ n \in Nat
        /\ pages \in Nat \ {0} /\ pages <= HostPages /\ Page \in Nat \ {0}
        /\ Debug!MemoryBytes = pages * Page /\ pages * Page \in Nat /\ HostPages \in Nat
    BY <1>1, <1>2, <1>3, <1>4, DebugConstants DEF Debug!Start, DebugInv, MemoryFits, Debug!MemoryBytes
  <2>2. CASE p + n <= Debug!MemoryBytes /\ UNCHANGED pages
    BY <1>6, <2>1, <2>2 DEF MemoryFits
  <2> HIDE DEF p
  <2>3. CASE /\ p + n > Debug!MemoryBytes
             /\ \E more \in Debug!Granted(p + n - Debug!MemoryBytes) : pages' = pages + more
    <3>1. PICK more \in Debug!Granted(p + n - Debug!MemoryBytes) : pages' = pages + more
      BY <2>3
    <3>2. p + n - Debug!MemoryBytes \in Nat
      BY <2>1, <2>3
    <3>3. /\ more \in Nat /\ more * Page >= p + n - Debug!MemoryBytes
          /\ pages + more <= HostPages
      BY <3>1, <3>2, GrantCovers DEF DebugInv
    <3>4. (pages + more) * Page = pages * Page + more * Page /\ more * Page \in Nat
      BY <2>1, <3>3
    <3> QED BY <1>6, <2>1, <3>1, <3>3, <3>4 DEF MemoryFits
  <2>4. \/ p + n <= Debug!MemoryBytes /\ UNCHANGED pages
        \/ /\ p + n > Debug!MemoryBytes
           /\ \E more \in Debug!Granted(p + n - Debug!MemoryBytes) : pages' = pages + more
    BY <2>1 DEF Debug!Alloc, Debug!Bump
  <2> QED BY <2>2, <2>3, <2>4
<1> HIDE DEF p
<1> QED BY <1>4, <1>5, <1>6, <1>7, <1>8 DEF Debug!HandOut, Given

LEMMA DebugInit == Debug!Init => DebugInv
BY DebugConstants DEF MemoryFits, Debug!Init, Debug!MemoryInit, DebugInv, Debug!TypeOK, FreshAbove, BlockKept, BlocksApart, TagsOwned, Given

LEMMA DebugAllocKeeps ==
    ASSUME DebugInv, NEW align \in Aligns, NEW n \in DebugSizes, Debug!Alloc(align, n)
    PROVE  DebugInv'
<1>1. PICK p \in Nat :
        /\ frontier + 4 <= p /\ p + n <= MaxAddress /\ frontier' = p + n
        /\ MemoryFits'
        /\ mem' = [a \in Debug!Addresses |->
             IF a \in p - 4..p - 1 THEN "tag"
             ELSE IF a \in p..p + n - 1 THEN "data" ELSE mem[a]]
        /\ given' = [q \in Given \cup {p} |-> IF q = p THEN n ELSE given[q]]
  BY DebugAllocTakes
<1>2. /\ n \in Nat \ {0} /\ MaxAddress \in Nat /\ frontier \in 8..MaxAddress
      /\ \A q \in Given : q \in Nat /\ given[q] \in Nat \ {0} /\ q + given[q] <= frontier /\ 12 <= q
  BY DebugConstants, DebugBounds
<1>3. /\ Given' = Given \cup {p} /\ p \notin Given
      /\ given'[p] = n /\ \A q \in Given : given'[q] = given[q]
  BY <1>1, <1>2 DEF Given
<1>4. \A a \in Debug!Addresses : a < frontier => mem'[a] = mem[a]
  BY <1>1, <1>2
<1>5. Debug!TypeOK'
  BY <1>1, <1>2, <1>3 DEF DebugInv, Debug!TypeOK, Given
<1>6. FreshAbove'
  BY <1>1, <1>2 DEF DebugInv, FreshAbove
<1>7. ASSUME NEW q \in Given' PROVE BlockKept(q)'
  <2>1. CASE q = p
    BY <1>1, <1>2, <1>3, <2>1 DEF BlockKept
  <2>2. CASE q \in Given
    <3>1. BlockKept(q) /\ q + given[q] <= frontier /\ given'[q] = given[q] /\ 12 <= q
      BY <1>2, <1>3, <2>2 DEF DebugInv
    <3>2. \A a \in q - 4..q + given[q] - 1 : mem'[a] = mem[a]
      BY <1>2, <1>4, <2>2, <3>1
    <3>3. /\ \A a \in q - 4..q - 1 : mem[a] = "tag" /\ mem'[a] = mem[a]
          /\ \A a \in q..q + given[q] - 1 : mem[a] = "data" /\ mem'[a] = mem[a]
      BY <1>2, <2>2, <3>1, <3>2 DEF BlockKept
    <3>4. q + given'[q] <= frontier'
      BY <1>1, <1>2, <2>2, <3>1
    <3> QED BY <3>1, <3>3, <3>4 DEF BlockKept
  <2> QED BY <1>3, <2>1, <2>2
<1>8. BlocksApart'
  BY <1>1, <1>2, <1>3 DEF DebugInv, BlocksApart
<1>9. TagsOwned'
  <2>1. ASSUME NEW a \in Debug!Addresses, mem'[a] = "tag" PROVE \E q \in Given' : a \in q - 4..q - 1
    <3>1. CASE a \in p - 4..p - 1
      BY <1>3, <3>1
    <3>2. CASE a \notin p - 4..p - 1
      <4>1. mem[a] = "tag"
        BY <1>1, <2>1, <3>2
      <4>2. \E q \in Given : a \in q - 4..q - 1
        BY <4>1 DEF DebugInv, TagsOwned
      <4> QED BY <1>3, <4>2
    <3> QED BY <3>1, <3>2
  <2> QED BY <2>1 DEF TagsOwned
<1> QED BY <1>1, <1>5, <1>6, <1>7, <1>8, <1>9 DEF DebugInv

LEMMA DebugFreeKeeps ==
    ASSUME DebugInv, NEW p \in Given, Debug!Free(p)
    PROVE  DebugInv'
<1>1. /\ mem' = [a \in Debug!Addresses |-> IF a \in p - 4..p + given[p] - 1 THEN "poison" ELSE mem[a]]
      /\ given' = [q \in Given \ {p} |-> given[q]] /\ frontier' = frontier
  BY DEF Debug!Free, Given
<1>2. /\ MaxAddress \in Nat /\ frontier \in 8..MaxAddress
      /\ \A q \in Given : q \in Nat /\ given[q] \in Nat \ {0} /\ q + given[q] <= frontier /\ 12 <= q
  BY DebugConstants, DebugBounds
<1>3. Given' = Given \ {p} /\ \A q \in Given' : given'[q] = given[q]
  BY <1>1 DEF Given
<1>4. Debug!TypeOK'
  BY <1>1, <1>2, <1>3 DEF DebugInv, Debug!TypeOK, Given
<1>5. FreshAbove'
  BY <1>1, <1>2 DEF DebugInv, FreshAbove
<1>6. ASSUME NEW q \in Given' PROVE BlockKept(q)'
  <2>1. q \in Given /\ q # p /\ BlockKept(q) /\ given'[q] = given[q]
    BY <1>3 DEF DebugInv
  <2>2. p + given[p] <= q - 4 \/ q + given[q] <= p - 4
    BY <2>1 DEF DebugInv, BlocksApart
  <2>3. ASSUME NEW a \in q - 4..q + given[q] - 1 PROVE mem'[a] = mem[a]
    <3>1. /\ p \in Nat /\ given[p] \in Nat /\ q \in Nat /\ given[q] \in Nat
          /\ 12 <= q /\ q + given[q] <= MaxAddress
      BY <1>2, <2>1
    <3>2. a \in Debug!Addresses
      BY <1>2, <3>1 DEF Debug!Addresses
    <3>3. a \notin p - 4..p + given[p] - 1
      BY <2>2, <3>1
    <3> QED BY <1>1, <3>2, <3>3
  <2>4. \A a \in q - 4..q - 1 : mem'[a] = "tag"
    BY <1>2, <2>1, <2>3 DEF BlockKept
  <2>5. \A a \in q..q + given[q] - 1 : mem'[a] = "data"
    BY <1>2, <2>1, <2>3 DEF BlockKept
  <2> QED BY <1>1, <2>1, <2>4, <2>5 DEF BlockKept
<1>7. BlocksApart'
  BY <1>3 DEF DebugInv, BlocksApart
<1>8. TagsOwned'
  <2>1. ASSUME NEW a \in Debug!Addresses, mem'[a] = "tag" PROVE \E q \in Given' : a \in q - 4..q - 1
    <3>1. mem[a] = "tag" /\ a \notin p - 4..p + given[p] - 1
      BY <1>1, <2>1
    <3>2. PICK q \in Given : a \in q - 4..q - 1
      BY <3>1 DEF DebugInv, TagsOwned
    <3>3. q # p
      BY <1>2, <3>1, <3>2
    <3> QED BY <1>3, <3>2, <3>3
  <2> QED BY <2>1 DEF TagsOwned
<1>9. MemoryFits'
  BY DEF DebugInv, MemoryFits, Debug!Free
<1> QED BY <1>4, <1>5, <1>6, <1>7, <1>8, <1>9 DEF DebugInv

LEMMA DebugStep == DebugInv /\ [Debug!Next]_Debug!vars => DebugInv'
<1> SUFFICES ASSUME DebugInv, [Debug!Next]_Debug!vars PROVE DebugInv'
  OBVIOUS
<1>1. CASE UNCHANGED Debug!vars
  BY <1>1 DEF Debug!vars, DebugInv, MemoryFits, Debug!TypeOK, FreshAbove, BlockKept, BlocksApart, TagsOwned, Given
<1> QED BY <1>1, DebugAllocKeeps, DebugFreeKeeps DEF Debug!Next, Given

LEMMA DebugSpecInv == Debug!Spec => []DebugInv
BY DebugInit, DebugStep, PTL DEF Debug!Spec

(* A program linked with either allocator takes the debug allocator's steps *)
(* or leaves its state alone.                                               *)
LEMMA ReallocOfDebug == ReallocSpec => Debug!Spec
<1>1. ReallocInit => Debug!Init
  BY DEF ReallocInit
<1>2. [ReallocNext]_every => [Debug!Next]_Debug!vars
  BY DEF ReallocNext, DebugRealloc, FreeListRealloc, every, Debug!vars
<1> QED BY <1>1, <1>2, PTL DEF ReallocSpec, Debug!Spec

-----------------------------------------------------------------------------
(* The guard of a free passes for the blocks in use, and for nothing else   *)
(* that no owner's data disguises.                                          *)
THEOREM DebugTagsAreLive == ReallocSpec => []TagsAreLive
<1>1. DebugInv => TagsAreLive
  <2> SUFFICES ASSUME DebugInv, NEW p \in 12..MaxAddress - 1
               PROVE  p \in Given <=> \A a \in p - 4..p - 1 : mem[a] = "tag"
    BY DEF TagsAreLive, Debug!TagsAreLive, Given
  <2>1. MaxAddress \in Nat /\ \A q \in Given : q \in Nat /\ given[q] \in Nat \ {0} /\ q + given[q] <= MaxAddress
    BY DebugConstants, DebugBounds
  <2>2. ASSUME p \in Given PROVE \A a \in p - 4..p - 1 : mem[a] = "tag"
    BY <2>2 DEF DebugInv, BlockKept
  <2>3. ASSUME \A a \in p - 4..p - 1 : mem[a] = "tag" PROVE p \in Given
    <3>1. mem[p - 4] = "tag" /\ mem[p - 1] = "tag"
      BY <2>1, <2>3
    <3>2. PICK q \in Given : p - 4 \in q - 4..q - 1
      BY <2>1, <3>1 DEF DebugInv, TagsOwned
    <3>3. mem[q] = "data"
      BY <2>1 DEF DebugInv, BlockKept
    <3>4. q \notin p - 4..p - 1
      BY <2>3, <3>3
    <3>5. q = p
      BY <2>1, <3>2, <3>4
    <3> QED BY <3>5
  <2> QED BY <2>2, <2>3
<1> QED BY <1>1, DebugSpecInv, ReallocOfDebug, PTL

(* Memory freed is never handed out, nor written, again.                    *)
THEOREM DebugPoisonStays == ReallocSpec => PoisonStays
<1>1. DebugInv /\ [Debug!Next]_Debug!vars => [\A a \in Debug!Addresses : mem[a] = "poison" => mem'[a] = "poison"]_Debug!vars
  <2> SUFFICES ASSUME DebugInv, Debug!Next, NEW a \in Debug!Addresses, mem[a] = "poison"
               PROVE  mem'[a] = "poison"
    OBVIOUS
  <2>1. a < frontier
    BY DebugConstants, DebugBounds DEF DebugInv, Debug!TypeOK, FreshAbove
  <2>2. CASE \E align \in Aligns, n \in DebugSizes : Debug!Alloc(align, n)
    <3>1. PICK align \in Aligns, n \in DebugSizes : Debug!Alloc(align, n)
      BY <2>2
    <3>2. PICK p \in Nat :
            /\ frontier + 4 <= p
            /\ mem' = [b \in Debug!Addresses |->
                 IF b \in p - 4..p - 1 THEN "tag"
                 ELSE IF b \in p..p + n - 1 THEN "data" ELSE mem[b]]
      BY <3>1, DebugAllocTakes
    <3> QED BY DebugBounds, <2>1, <3>2 DEF DebugInv, Debug!TypeOK
  <2>3. CASE \E p \in Given : Debug!Free(p)
    BY <2>3 DEF Debug!Free
  <2> QED BY <2>2, <2>3 DEF Debug!Next, Given
<1> QED BY <1>1, DebugSpecInv, ReallocOfDebug, PTL DEF Debug!Spec, PoisonStays, Debug!PoisonStays

(* The debug allocator is an allocator: blocks lie apart and keep what      *)
(* their owners wrote, through every allocation and free of another.        *)
THEOREM DebugImplements == ReallocSpec => DebugKeepsBlocks
<1> DEFINE Seen(p) == [size |-> given[p],
                       data |-> IF \A a \in p..p + given[p] - 1 : mem[a] = "data"
                                THEN "data" ELSE "lost"]
           Mapped == [p \in DOMAIN given |-> Seen(p)]
<1>1. Debug!Init => Debug!Promise!Init
  BY DEF Debug!Init, Debug!Promise!Init
<1>2. DebugInv => Mapped = [p \in Given |-> [size |-> given[p], data |-> "data"]]
  BY DEF DebugInv, BlockKept, Given
<1>3. DebugInv /\ [Debug!Next]_Debug!vars => [Debug!Promise!Next]_Mapped
  <2> SUFFICES ASSUME DebugInv, [Debug!Next]_Debug!vars PROVE [Debug!Promise!Next]_Mapped
    OBVIOUS
  <2>1. DebugInv'
    BY DebugStep
  <2>2. /\ Mapped = [p \in Given |-> [size |-> given[p], data |-> "data"]]
        /\ Mapped' = [p \in Given' |-> [size |-> given'[p], data |-> "data"]]
    BY <1>2, <2>1 DEF DebugInv, BlockKept, Given
  <2>3. CASE UNCHANGED Debug!vars
    BY <2>3 DEF Debug!vars
  <2>4. ASSUME NEW align \in Aligns, NEW n \in DebugSizes, Debug!Alloc(align, n) PROVE Debug!Promise!Next
    <3>1. PICK p \in Nat :
            /\ frontier + 4 <= p /\ p + n <= MaxAddress
            /\ given' = [q \in Given \cup {p} |-> IF q = p THEN n ELSE given[q]]
      BY <2>4, DebugAllocTakes
    <3>2. /\ n \in Nat /\ frontier \in Nat
          /\ \A q \in Given : q \in Nat /\ given[q] \in Nat \ {0} /\ q + given[q] <= frontier
      BY DebugConstants, DebugBounds
    <3>3. /\ Given' = Given \cup {p} /\ p \notin Given
          /\ given'[p] = n /\ \A q \in Given : given'[q] = given[q]
      BY <3>1, <3>2 DEF Given
    <3>4. DOMAIN Mapped = Given /\ DOMAIN Mapped' = Given \cup {p}
      BY <2>2, <3>3
    <3>5. Mapped'[p] = [size |-> n, data |-> "data"]
      BY <2>2, <3>3
    <3>6. \A q \in Given : Mapped[q] = [size |-> given[q], data |-> "data"] /\ Mapped'[q] = Mapped[q]
      BY <2>2, <3>3
    <3>7. Debug!Promise!Alloc(p)
      BY <3>1, <3>2, <3>4, <3>5, <3>6 DEF Debug!Promise!Alloc, Debug!Promise!Blocks, Debug!Promise!Clear
    <3> QED BY <3>3, <3>4, <3>7 DEF Debug!Promise!Next
  <2>5. ASSUME NEW p \in Given, Debug!Free(p) PROVE Debug!Promise!Next
    <3>1. Given' = Given \ {p} /\ \A q \in Given' : given'[q] = given[q]
      BY <2>5 DEF Debug!Free, Given
    <3>2. Mapped' = [q \in DOMAIN Mapped \ {p} |-> Mapped[q]]
      BY <2>2, <3>1
    <3>3. p \in DOMAIN Mapped
      BY <2>2
    <3> QED BY <3>2, <3>3 DEF Debug!Promise!Next, Debug!Promise!Free
  <2> QED BY <2>3, <2>4, <2>5 DEF Debug!Next, Given
<1> QED
  BY <1>1, <1>3, DebugSpecInv, ReallocOfDebug, PTL
  DEF Debug!Spec, DebugKeepsBlocks, Debug!KeepsBlocks, Debug!Promise!Spec

(* No allocation that fits in what the host grants traps: rounding a growth *)
(* up neither falls short of the request nor asks for too much.             *)
THEOREM DebugGrowthFits == ReallocSpec => []GrowthFits
<1>1. DebugInv => GrowthFits
  <2> SUFFICES ASSUME DebugInv PROVE GrowthFits
    OBVIOUS
  <2>1. ASSUME NEW align \in Aligns, NEW n \in DebugSizes
        PROVE  Debug!FitIsGranted(align, Debug!Gap(align) + n)
    <3>1. align \in Nat /\ Debug!Gap(align) + n \in Nat
      BY DebugConstants DEF Debug!Gap
    <3> QED BY <3>1, FitIsGrantedHolds DEF DebugInv
  <2> QED BY <2>1 DEF GrowthFits, Debug!GrowthFits, DebugInv, MemoryFits, Debug!MemoryBytes
<1> QED BY <1>1, DebugSpecInv, ReallocOfDebug, PTL
=============================================================================
