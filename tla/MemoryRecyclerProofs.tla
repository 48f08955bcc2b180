------------------------ MODULE MemoryRecyclerProofs ------------------------
(***************************************************************************)
(* For every number of pointers, every size of an element and every amount *)
(* of memory: the recycler supplies no element that is in use, loses none, *)
(* and its pools are as large as their elements need.                      *)
(***************************************************************************)
EXTENDS MCMemoryRecycler, TLAPS

IInv == TypeOK /\ Apart /\ NoneLost /\ SlotsFit

\* A product is no smaller than its factor.
LEMMA Product ==
  ASSUME NEW e \in Nat \ {0}, NEW s \in Nat
  PROVE  e * s \in Nat /\ e * s >= s
<1>1. (e - 1) * s \in Nat
  <2>1. e - 1 \in Nat  OBVIOUS
  <2> QED BY <2>1
<1>2. e * s = (e - 1) * s + s
  OBVIOUS
<1> QED BY <1>1, <1>2

\* The request for another pool does not wrap: the newest one lies in less than
\* half of what a size_t expresses, so that twice its size is a size_t.
LEMMA NextPool ==
  ASSUME TypeOK, SlotsFit
  PROVE  /\ NextSize \in Nat \ {0}
         /\ Bytes(NextSize) \in Nat
         /\ Bytes(NextSize) = Header + ElementSize * NextSize
<1>1. CASE pools = <<>>
  <2>1. Header + ElementSize * MinSize \in 0 .. (Modulus - 1)
    BY RecyclerAssumption
  <2>2. (Header + ElementSize * MinSize) % Modulus = Header + ElementSize * MinSize
    BY <2>1, RecyclerAssumption
  <2> QED BY <1>1, <2>1, <2>2, RecyclerAssumption DEF NextSize, Bytes
<1>2. CASE pools # <<>>
  <2> DEFINE s == pools[Len(pools)].allocated
             b == ElementSize * s
  <2>1. Len(pools) \in 1 .. Len(pools) /\ pools[Len(pools)] \in PoolRec
    BY <1>2 DEF TypeOK
  <2>2. s \in Nat \ {0} /\ Header + b <= Memory
    <3>1. /\ pools[Len(pools)].bytes = Header + b
          /\ pools[Len(pools)].bytes <= used /\ s > 0
      BY <2>1 DEF SlotsFit
    <3>2. s \in Nat /\ used \in 0 .. Memory
      BY <2>1 DEF TypeOK, PoolRec
    <3>3. ElementSize \in Nat \ {0} /\ Header \in Nat /\ Memory \in Nat
      BY RecyclerAssumption
    <3> HIDE DEF s
    <3> QED BY <3>1, <3>2, <3>3, Product
  <2>3. b \in Nat /\ b >= s
    <3>1. ElementSize \in Nat \ {0} /\ s \in Nat
      BY <2>2, RecyclerAssumption
    <3> QED BY ONLY <3>1, Product
  <2>4. ElementSize * (2 * s) = 2 * b
    BY <2>2, RecyclerAssumption
  <2> HIDE DEF s, b
  <2>5. 2 * s \in 0 .. (Modulus - 1) /\ Header + 2 * b \in 0 .. (Modulus - 1)
    BY <2>2, <2>3, RecyclerAssumption
  <2>6. (2 * s) % Modulus = 2 * s /\ (Header + 2 * b) % Modulus = Header + 2 * b
    BY <2>5, RecyclerAssumption
  <2>7. NextSize = 2 * s
    BY <1>2, <2>2, <2>6 DEF NextSize, Shl, s
  <2> QED BY <2>2, <2>3, <2>4, <2>5, <2>6, <2>7 DEF Bytes
<1> QED BY <1>1, <1>2

\* A pool that is larger than nothing can be cut.
LEMMA CutPool ==
  ASSUME NEW pool \in PoolRec, pool.unused > 0
  PROVE  /\ Cut(pool) \in PoolRec
         /\ Cut(pool).unused = pool.unused - 1
         /\ Cut(pool).allocated = pool.allocated /\ Cut(pool).bytes = pool.bytes
BY DEF Cut, PoolRec

\* A parser begins with nothing.
LEMMA InitHolds == ASSUME Init PROVE IInv
BY RecyclerAssumption DEF Init, IInv, TypeOK, Apart, NoneLost, SlotsFit, NULL

\* The fields of pools are numbers.
LEMMA PoolTypes ==
  ASSUME NEW ps \in Seq(PoolRec)
  PROVE  /\ Len(ps) \in Nat
         /\ \A i \in 1 .. Len(ps) :
              /\ ps[i] \in PoolRec
              /\ ps[i].unused \in Nat /\ ps[i].allocated \in Nat /\ ps[i].bytes \in Nat
<1>1. Len(ps) \in Nat /\ \A i \in 1 .. Len(ps) : ps[i] \in PoolRec
  OBVIOUS
<1> QED BY <1>1 DEF PoolRec

\* No address is NULL.
LEMMA AddressNotNull == ASSUME NEW a \in Address PROVE a # NULL
BY DEF Address, NULL

\* The list without its first address.
LEMMA ListRest ==
  ASSUME TypeOK, entry_list # <<>>
  PROVE  /\ Rest(entry_list) \in Seq(Address)
         /\ Len(Rest(entry_list)) = Len(entry_list) - 1
         /\ \A j \in 1 .. Len(Rest(entry_list)) :
              Rest(entry_list)[j] = entry_list[j + 1]
         /\ Len(entry_list) \in Nat \ {0}
         /\ Head(entry_list) = entry_list[1] /\ Head(entry_list) \in Address
BY DEF TypeOK, Rest

\* The list with another address in front.
LEMMA ListMore ==
  ASSUME TypeOK, NEW a \in Address
  PROVE  /\ Listing(a) \in Seq(Address)
         /\ Len(Listing(a)) = Len(entry_list) + 1
         /\ Listing(a)[1] = a
         /\ \A j \in 1 .. Len(entry_list) : Listing(a)[j + 1] = entry_list[j]
<1>1. Listing(a) = <<a>> \o entry_list
  BY AddressNotNull DEF Listing
<1> QED BY <1>1 DEF TypeOK

\* An element that is supplied again moves from the list to its pointer.
LEMMA SupplyRecycledHolds ==
  ASSUME IInv, NEW c \in Pointer, SupplyRecycled(c) PROVE IInv'
<1> USE DEF IInv
<1> DEFINE a == entry_list[1]
<1>1. /\ held[c] = NULL /\ entry_list # <<>>
      /\ held' = [held EXCEPT ![c] = a]
      /\ entry_list' = Rest(entry_list)
      /\ pools' = pools /\ used' = used /\ phase' = phase
  BY ListRest DEF SupplyRecycled, Wants
<1>2. /\ Len(entry_list) \in Nat \ {0} /\ a \in Address /\ a # NULL
      /\ entry_list' \in Seq(Address) /\ Len(entry_list') = Len(entry_list) - 1
      /\ \A j \in 1 .. Len(entry_list') : entry_list'[j] = entry_list[j + 1]
  BY <1>1, ListRest, AddressNotNull
<1>3. held'[c] = a /\ \A d \in Pointer \ {c} : held'[d] = held[d]
  BY <1>1 DEF TypeOK
<1>4. TypeOK'
  BY <1>1, <1>2 DEF TypeOK
<1>5. SlotsFit'
  BY <1>1 DEF SlotsFit
<1>6. Apart'
  <2> HIDE DEF a
  <2>1. \A d \in Pointer : held[d] # a
    BY <1>2 DEF Apart, a
  <2>2. \A j \in 1 .. Len(entry_list') :
          j + 1 \in 1 .. Len(entry_list) /\ entry_list'[j] # a
    BY <1>2 DEF Apart, a
  <2>3. WasCut(pools, a)
    BY <1>2 DEF Apart, a
  <2>5. \A d, e \in Pointer : d # e /\ held'[d] # NULL => held'[d] # held'[e]
    BY <1>2, <1>3, <2>1 DEF Apart
  <2>6. \A j, k \in 1 .. Len(entry_list') : j # k => entry_list'[j] # entry_list'[k]
    BY <1>2, <2>2 DEF Apart
  <2>7. \A d \in Pointer, j \in 1 .. Len(entry_list') : held'[d] # entry_list'[j]
    BY <1>2, <1>3, <2>2 DEF Apart
  <2>8. \A d \in Pointer : held'[d] # NULL => WasCut(pools, held'[d])
    BY <1>3, <2>3 DEF Apart
  <2>9. \A j \in 1 .. Len(entry_list') : WasCut(pools, entry_list'[j])
    BY <1>2, <2>2 DEF Apart
  <2> QED BY <1>1, <2>5, <2>6, <2>7, <2>8, <2>9 DEF Apart
<1>7. NoneLost'
  <2> SUFFICES ASSUME NEW k \in 1 .. Len(pools),
                      NEW j \in pools[k].unused .. (pools[k].allocated - 1)
               PROVE  (\E d \in Pointer : held'[d] = <<k, j>>) \/ <<k, j>> \in Listed'
    BY <1>1 DEF NoneLost
  <2>1. CASE \E d \in Pointer : held[d] = <<k, j>>
    BY <1>1, <1>3, <2>1 DEF NULL
  <2>2. CASE <<k, j>> \in Listed
    <3>1. PICK i \in 1 .. Len(entry_list) : entry_list[i] = <<k, j>>
      BY <2>2 DEF Listed
    <3>2. CASE i = 1
      BY <1>3, <3>1, <3>2
    <3>3. CASE i # 1
      <4>1. i - 1 \in 1 .. Len(entry_list') /\ entry_list'[i - 1] = <<k, j>>
        BY SMTT(20), <1>2, <3>1, <3>3
      <4> QED BY <4>1 DEF Listed
    <3> QED BY <3>2, <3>3
  <2> QED BY <2>1, <2>2 DEF NoneLost
<1> QED BY <1>4, <1>5, <1>6, <1>7

\* What is supplied from the end of the newest pool was not handed out before:
\* stated once for a pool that is there and for one that was just added.
LEMMA FreshHolds ==
  ASSUME IInv, NEW c \in Pointer, held[c] = NULL,
         NEW k \in Nat \ {0}, NEW u \in Nat \ {0},
         \/ k = Len(pools) /\ u = pools[k].unused
         \/ k = Len(pools) + 1,
         pools' \in Seq(PoolRec), Len(pools') = k,
         \A i \in 1 .. Len(pools) : i # k => pools'[i] = pools[i] /\ pools[i].unused = 0,
         k = Len(pools) => pools'[k].allocated = pools[k].allocated,
         k = Len(pools) + 1 => pools'[k].allocated = u,
         pools'[k].unused = u - 1, u <= pools'[k].allocated,
         held' = [held EXCEPT ![c] = <<k, u - 1>>],
         entry_list' = entry_list
  PROVE  Apart' /\ NoneLost' /\ held' \in [Pointer -> Address \cup {NULL}]
<1> USE DEF IInv
<1> DEFINE a == <<k, u - 1>>
<1>1. a \in Address /\ a # NULL /\ a[1] = k /\ a[2] = u - 1
  BY AddressNotNull DEF Address
<1>2. held'[c] = a /\ \A d \in Pointer \ {c} : held'[d] = held[d]
  BY DEF TypeOK
<1>3. /\ Len(pools) \in Nat /\ Len(entry_list) \in Nat
      /\ \A i \in 1 .. Len(pools) : pools[i].unused \in Nat /\ pools[i].allocated \in Nat
  BY PoolTypes DEF TypeOK
<1>4. k \in 1 .. k /\ pools'[k].allocated \in Nat
  <2> DEFINE ps == pools'
  <2>1. ps \in Seq(PoolRec) /\ k \in 1 .. Len(ps)
    OBVIOUS
  <2> HIDE DEF ps
  <2>2. ps[k].allocated \in Nat
    BY <2>1, PoolTypes
  <2> QED BY <2>2 DEF ps
<1>5. ~WasCut(pools, a) /\ WasCut(pools', a)
  <2>1. WasCut(pools', a)
    BY <1>1, <1>4 DEF WasCut
  <2>2. ~WasCut(pools, a)
    BY <1>1, <1>3 DEF WasCut
  <2> QED BY <2>1, <2>2
<1>6. ASSUME NEW b, WasCut(pools, b) PROVE WasCut(pools', b)
  <2>1. b[1] \in 1 .. Len(pools)
        /\ b[2] \in pools[b[1]].unused .. (pools[b[1]].allocated - 1)
    BY <1>6 DEF WasCut
  <2>2. CASE b[1] = k
    <3>1. /\ k = Len(pools) /\ u = pools[k].unused
          /\ pools'[k].allocated = pools[k].allocated
      BY <2>1, <2>2, <1>3
    <3>2. b[2] \in (u - 1) .. (pools'[k].allocated - 1)
      BY <2>1, <2>2, <3>1, <1>4, <1>3
    <3> QED BY <1>4, <2>2, <3>2 DEF WasCut
  <2>3. CASE b[1] # k
    BY <2>1, <2>3, <1>3 DEF WasCut
  <2> QED BY <2>2, <2>3
<1> HIDE DEF a
<1>7. /\ \A d \in Pointer : held[d] # a
      /\ \A j \in 1 .. Len(entry_list) : entry_list[j] # a
  BY <1>1, <1>5 DEF Apart
<1>8. Apart'
  <2>1. \A d, e \in Pointer : d # e /\ held'[d] # NULL => held'[d] # held'[e]
    BY <1>2, <1>7 DEF Apart
  <2>2. \A d \in Pointer, j \in 1 .. Len(entry_list) : held'[d] # entry_list[j]
    BY <1>2, <1>7 DEF Apart
  <2>3. \A d \in Pointer : held'[d] # NULL => WasCut(pools', held'[d])
    BY SMTT(20), <1>2, <1>5, <1>6 DEF Apart
  <2>4. \A j \in 1 .. Len(entry_list) : WasCut(pools', entry_list[j])
    BY <1>6 DEF Apart
  <2>5. \A j, i \in 1 .. Len(entry_list) : j # i => entry_list[j] # entry_list[i]
    BY DEF Apart
  <2> HIDE DEF IInv
  <2> QED BY ONLY entry_list' = entry_list, <2>1, <2>2, <2>3, <2>4, <2>5 DEF Apart
<1>9. NoneLost'
  <2> SUFFICES ASSUME NEW i \in 1 .. k
               PROVE  /\ \A j \in pools'[i].unused .. (pools'[i].allocated - 1) :
                           (\E d \in Pointer : held'[d] = <<i, j>>) \/ <<i, j>> \in Listed
                      /\ i < k => pools'[i].unused = 0
    BY DEF NoneLost, Listed
  <2>1. ASSUME NEW d \in Pointer, NEW j, held[d] = <<i, j>>
        PROVE  held'[d] = <<i, j>>
    BY <1>2, <2>1 DEF NULL
  <2>2. CASE i # k
    <3>1. i \in 1 .. Len(pools) /\ pools'[i] = pools[i] /\ pools[i].unused = 0
      BY <1>3, <2>2
    <3> QED BY <2>1, <3>1 DEF NoneLost
  <2>3. CASE i = k
    <3>0. pools'[i].unused = u - 1 /\ ~(i < k)
      BY <2>3
    <3> SUFFICES ASSUME NEW j \in (u - 1) .. (pools'[i].allocated - 1)
                 PROVE  (\E d \in Pointer : held'[d] = <<i, j>>) \/ <<i, j>> \in Listed
      BY <3>0
    <3>1. CASE j = u - 1
      BY <1>2, <2>3, <3>1 DEF a
    <3>2. CASE j # u - 1 /\ k = Len(pools)
      <4>1. j \in pools[k].unused .. (pools[k].allocated - 1)
        BY <2>3, <3>2, <1>3
      <4> QED BY <2>1, <2>3, <3>2, <4>1 DEF NoneLost
    <3>3. CASE j # u - 1 /\ k # Len(pools)
      BY <2>3, <3>3, <1>4, <1>3
    <3> QED BY <3>1, <3>2, <3>3
  <2> QED BY <2>2, <2>3
<1> QED BY <1>1, <1>8, <1>9 DEF TypeOK, a

\* An element is cut from the newest pool.
LEMMA SupplyUnusedHolds ==
  ASSUME IInv, NEW c \in Pointer, SupplyUnused(c) PROVE IInv'
<1> USE DEF IInv
<1> DEFINE k == Len(pools)
<1>1. /\ held[c] = NULL /\ pools # <<>> /\ pools[k].unused # 0
      /\ pools' = [pools EXCEPT ![k] = Cut(pools[k])]
      /\ held' = [held EXCEPT ![c] = <<k, pools[k].unused - 1>>]
      /\ entry_list' = entry_list /\ used' = used /\ phase' = phase
  BY DEF SupplyUnused, Wants, NoneUnused
<1>2. k \in Nat \ {0} /\ pools[k] \in PoolRec /\ pools[k].unused \in Nat \ {0}
  <2>1. k \in Nat \ {0} /\ pools[k] \in PoolRec
    BY <1>1 DEF TypeOK
  <2> QED BY <1>1, <2>1 DEF PoolRec
<1>3. /\ Cut(pools[k]) \in PoolRec
      /\ Cut(pools[k]).unused = pools[k].unused - 1
      /\ Cut(pools[k]).allocated = pools[k].allocated
      /\ Cut(pools[k]).bytes = pools[k].bytes
  BY <1>2, CutPool
<1>4. /\ pools' \in Seq(PoolRec) /\ Len(pools') = k /\ pools'[k] = Cut(pools[k])
      /\ \A i \in 1 .. k : i # k => pools'[i] = pools[i]
  BY <1>1, <1>2, <1>3 DEF TypeOK
<1>5. \A i \in 1 .. k : i # k => pools[i].unused = 0
  BY <1>2 DEF NoneLost
<1>6. pools[k].unused <= pools[k].allocated
  BY <1>2 DEF SlotsFit
<1>7. SlotsFit'
  <2> SUFFICES ASSUME NEW i \in 1 .. k
               PROVE  /\ pools'[i].bytes = Header + ElementSize * pools'[i].allocated
                      /\ pools'[i].bytes <= used /\ pools'[i].allocated > 0
                      /\ pools'[i].unused <= pools'[i].allocated
    BY <1>1, <1>4 DEF SlotsFit
  <2>1. CASE i # k
    BY <1>4, <2>1 DEF SlotsFit
  <2>2. CASE i = k
    <3>1. pools[k].unused - 1 <= pools[k].allocated
      BY <1>2, <1>6 DEF PoolRec
    <3> QED BY <1>2, <1>3, <1>4, <2>2, <3>1 DEF SlotsFit
  <2> QED BY <2>1, <2>2
<1>8. Apart' /\ NoneLost' /\ held' \in [Pointer -> Address \cup {NULL}]
  <2> DEFINE u == pools[k].unused
  <2>1. /\ k = Len(pools) /\ u = pools[k].unused
        /\ k # Len(pools) + 1 /\ k \in Nat \ {0} /\ u \in Nat \ {0}
    BY <1>2
  <2>2. /\ \A i \in 1 .. Len(pools) : i # k => pools'[i] = pools[i] /\ pools[i].unused = 0
        /\ pools'[k].allocated = pools[k].allocated
        /\ pools'[k].unused = u - 1 /\ u <= pools'[k].allocated
    BY <1>3, <1>4, <1>5, <1>6
  <2>3. held[c] = NULL /\ held' = [held EXCEPT ![c] = <<k, u - 1>>] /\ entry_list' = entry_list
    BY <1>1
  <2>4. pools' \in Seq(PoolRec) /\ Len(pools') = k
    BY <1>4
  <2> HIDE DEF k, u, IInv
  <2> QED BY <2>1, <2>2, <2>3, <2>4, FreshHolds
<1> QED BY <1>1, <1>4, <1>7, <1>8 DEF TypeOK

\* An element is cut from a pool of its own.
LEMMA SupplyFromNewPoolHolds ==
  ASSUME IInv, NEW c \in Pointer, SupplyFromNewPool(c) PROVE IInv'
<1> USE DEF IInv
<1> DEFINE k == Len(pools) + 1
           u == NextSize
           new == [allocated |-> u, unused |-> u, bytes |-> Bytes(u)]
<1>1. /\ held[c] = NULL /\ (pools # <<>> => pools[Len(pools)].unused = 0)
      /\ used + Bytes(u) <= Memory /\ used' = used + Bytes(u)
      /\ pools' = Append(pools, Cut(new))
      /\ held' = [held EXCEPT ![c] = <<k, u - 1>>]
      /\ entry_list' = entry_list /\ phase' = phase
  BY DEF SupplyFromNewPool, Wants, Exhausted, NoneUnused
<1>2. u \in Nat \ {0} /\ Bytes(u) \in Nat /\ Bytes(u) = Header + ElementSize * u
  BY NextPool
<1> HIDE DEF u
<1>3. /\ Cut(new) \in PoolRec /\ Cut(new).unused = u - 1
      /\ Cut(new).allocated = u /\ Cut(new).bytes = Bytes(u)
  <2>1. new \in PoolRec /\ new.unused = u /\ new.allocated = u /\ new.bytes = Bytes(u)
    BY <1>2 DEF PoolRec
  <2> HIDE DEF new
  <2> QED BY <1>2, <2>1, CutPool
<1> HIDE DEF new
<1>4. /\ Len(pools) \in Nat /\ k \in Nat \ {0}
      /\ \A i \in 1 .. Len(pools) : pools[i] \in PoolRec /\ pools[i].bytes \in Nat
  BY PoolTypes DEF TypeOK
<1>5. /\ pools' \in Seq(PoolRec) /\ Len(pools') = k /\ pools'[k] = Cut(new)
      /\ \A i \in 1 .. Len(pools) : pools'[i] = pools[i]
  BY <1>1, <1>3 DEF TypeOK
<1>6. used \in Nat /\ used' \in 0 .. Memory /\ Bytes(u) <= used' /\ used <= used'
  BY <1>1, <1>2, RecyclerAssumption DEF TypeOK
<1>7. \A i \in 1 .. Len(pools) : pools[i].unused = 0
  BY <1>1, <1>4 DEF NoneLost
<1>8. SlotsFit'
  <2> SUFFICES ASSUME NEW i \in 1 .. k
               PROVE  /\ pools'[i].bytes = Header + ElementSize * pools'[i].allocated
                      /\ pools'[i].bytes <= used' /\ pools'[i].allocated > 0
                      /\ pools'[i].unused <= pools'[i].allocated
    BY <1>5 DEF SlotsFit
  <2>1. CASE i # k
    <3>1. i \in 1 .. Len(pools) /\ pools'[i] = pools[i]
      BY <1>4, <1>5, <2>1
    <3>2. pools[i].bytes <= used'
      BY <1>4, <1>6, <3>1 DEF SlotsFit
    <3> QED BY <3>1, <3>2 DEF SlotsFit
  <2>2. CASE i = k
    BY <1>2, <1>3, <1>5, <1>6, <2>2
  <2> QED BY <2>1, <2>2
<1>9. Apart' /\ NoneLost' /\ held' \in [Pointer -> Address \cup {NULL}]
  <2>1. k # Len(pools) /\ k = Len(pools) + 1
    BY <1>4
  <2>2. /\ \A i \in 1 .. Len(pools) : i # k => pools'[i] = pools[i] /\ pools[i].unused = 0
        /\ pools'[k].allocated = u
        /\ pools'[k].unused = u - 1 /\ u <= pools'[k].allocated
    BY <1>2, <1>3, <1>5, <1>7
  <2> HIDE DEF k, IInv
  <2> QED BY <1>1, <1>2, <1>4, <1>5, <2>1, <2>2, FreshHolds
<1> QED BY <1>1, <1>5, <1>6, <1>8, <1>9 DEF TypeOK

\* Without a change the invariant holds on.
LEMMA UnchangedHolds == ASSUME IInv, UNCHANGED vars PROVE IInv'
BY DEF vars, IInv, TypeOK, Apart, NoneLost, SlotsFit, Listed

\* What is given back moves from its pointer to the list.
LEMMA RecycleHolds ==
  ASSUME IInv, NEW c \in Pointer, Recycle(c) PROVE IInv'
<1> USE DEF IInv
<1> DEFINE a == held[c]
<1>1. /\ held' = [held EXCEPT ![c] = NULL] /\ entry_list' = Listing(a)
      /\ pools' = pools /\ used' = used /\ phase' = phase
  BY DEF Recycle
<1>2. held'[c] = NULL /\ \A d \in Pointer \ {c} : held'[d] = held[d]
  BY <1>1 DEF TypeOK
<1>3. CASE a = NULL
  <2>1. entry_list' = entry_list /\ held' = held
    BY <1>1, <1>3 DEF Listing, TypeOK
  <2> HIDE DEF IInv
  <2> QED BY <1>1, <2>1, UnchangedHolds DEF vars
<1>4. CASE a # NULL
  <2>1. a \in Address
    BY <1>4 DEF TypeOK
  <2>2. /\ Listing(a) \in Seq(Address) /\ Len(Listing(a)) = Len(entry_list) + 1
        /\ Listing(a)[1] = a
        /\ \A j \in 1 .. Len(entry_list) : Listing(a)[j + 1] = entry_list[j]
    BY <2>1, ListMore
  <2>3. Len(entry_list) \in Nat /\ entry_list' \in Seq(Address)
        /\ Len(entry_list') = Len(entry_list) + 1 /\ entry_list'[1] = a
    BY <1>1, <2>2 DEF TypeOK
  <2>4. \A j \in 1 .. Len(entry_list') :
          j # 1 => j - 1 \in 1 .. Len(entry_list) /\ entry_list'[j] = entry_list[j - 1]
    <3> SUFFICES ASSUME NEW j \in 1 .. Len(entry_list'), j # 1
                 PROVE  j - 1 \in 1 .. Len(entry_list) /\ entry_list'[j] = entry_list[j - 1]
      OBVIOUS
    <3>1. j - 1 \in 1 .. Len(entry_list) /\ (j - 1) + 1 = j
      BY <2>3
    <3> QED BY <1>1, <2>2, <3>1
  <2>5. /\ \A d \in Pointer \ {c} : held[d] # a
        /\ \A j \in 1 .. Len(entry_list) : entry_list[j] # a
        /\ WasCut(pools, a)
    BY <1>4 DEF Apart
  <2>6. TypeOK'
    BY <1>1, <2>3 DEF TypeOK
  <2>7. SlotsFit'
    BY <1>1 DEF SlotsFit
  <2> HIDE DEF a
  <2>8. Apart'
    <3>1. \A d, e \in Pointer : d # e /\ held'[d] # NULL => held'[d] # held'[e]
      BY <1>2 DEF Apart
    <3>2. \A j, i \in 1 .. Len(entry_list') : j # i => entry_list'[j] # entry_list'[i]
      BY <2>3, <2>4, <2>5 DEF Apart
    <3>3. \A d \in Pointer, j \in 1 .. Len(entry_list') : held'[d] # entry_list'[j]
      <4>1. \A j \in 1 .. Len(entry_list') : entry_list'[j] # NULL
        BY <2>3, AddressNotNull
      <4>2. \A d \in Pointer \ {c}, j \in 1 .. Len(entry_list') : held[d] # entry_list'[j]
        BY <2>3, <2>4, <2>5 DEF Apart
      <4> QED BY <1>2, <4>1, <4>2
    <3>4. \A d \in Pointer : held'[d] # NULL => WasCut(pools, held'[d])
      BY <1>2 DEF Apart
    <3>5. \A j \in 1 .. Len(entry_list') : WasCut(pools, entry_list'[j])
      BY <2>3, <2>4, <2>5 DEF Apart
    <3> HIDE DEF IInv
    <3> QED BY ONLY <1>1, <3>1, <3>2, <3>3, <3>4, <3>5 DEF Apart
  <2>9. NoneLost'
    <3>1. ASSUME NEW j \in 1 .. Len(entry_list) PROVE entry_list[j] \in Listed'
      <4>1. j + 1 \in 1 .. Len(entry_list') /\ entry_list'[j + 1] = entry_list[j]
        BY <1>1, <2>2, <2>3
      <4> QED BY <4>1 DEF Listed
    <3>2. a \in Listed'
      <4>1. 1 \in 1 .. Len(entry_list')
        BY <2>3
      <4> QED BY <2>3, <4>1 DEF Listed
    <3> SUFFICES ASSUME NEW k \in 1 .. Len(pools),
                        NEW j \in pools[k].unused .. (pools[k].allocated - 1)
                 PROVE  (\E d \in Pointer : held'[d] = <<k, j>>) \/ <<k, j>> \in Listed'
      BY <1>1 DEF NoneLost
    <3>3. CASE \E d \in Pointer : held[d] = <<k, j>>
      <4>1. PICK d \in Pointer : held[d] = <<k, j>>
        BY <3>3
      <4> QED BY <1>2, <3>2, <4>1 DEF a
    <3>4. CASE <<k, j>> \in Listed
      BY <3>1, <3>4 DEF Listed
    <3> QED BY <3>3, <3>4 DEF NoneLost
  <2> QED BY <2>6, <2>7, <2>8, <2>9
<1> QED BY <1>3, <1>4

\* Nothing is left of a parser that is destroyed.
LEMMA FinalizeHolds == ASSUME IInv, Finalize PROVE IInv'
BY RecyclerAssumption
   DEF IInv, Finalize, TypeOK, Apart, NoneLost, SlotsFit, NULL

\* No step of the recycler leaves the invariant.
LEMMA StepHolds == ASSUME IInv, [Next]_vars PROVE IInv'
<1>1. ASSUME NEW c \in Pointer, SupplyFails(c) PROVE IInv'
  BY <1>1 DEF SupplyFails, IInv, TypeOK, Apart, NoneLost, SlotsFit, Listed
<1> QED BY <1>1, UnchangedHolds, SupplyRecycledHolds, SupplyUnusedHolds, SupplyFromNewPoolHolds,
           RecycleHolds, FinalizeHolds DEF Next, Over

\* In every state of the recycler its elements are apart, none is lost and its
\* pools have room for them.
THEOREM InvariantHolds == Spec => []IInv
BY InitHolds, StepHolds, PTL DEF Spec

\* pcc_memory_recycler__supply and pcc_memory_recycler__recycle keep what is handed
\* out, what is listed and what was never used apart.
THEOREM ElementsApart == Spec => []Apart
BY InvariantHolds, PTL DEF IInv

\* No element that was cut from a pool drops out of both the program and the list.
THEOREM ElementsKept == Spec => []NoneLost
BY InvariantHolds, PTL DEF IInv

\* The size that a pool is allocated with is that of its elements, without a wrap.
THEOREM PoolsFit == Spec => []SlotsFit
BY InvariantHolds, PTL DEF IInv

\* A supply hands out an address that no pointer holds.
LEMMA SupplyIsTake ==
  ASSUME IInv, NEW c \in Pointer,
         SupplyRecycled(c) \/ SupplyUnused(c) \/ SupplyFromNewPool(c)
  PROVE  Promise!Take(c)
<1>1. held[c] = NULL /\ held' = [held EXCEPT ![c] = held'[c]]
  BY DEF SupplyRecycled, SupplyUnused, SupplyFromNewPool, Wants, IInv, TypeOK
<1>2. IInv' /\ c \in DOMAIN held /\ DOMAIN held = Pointer
  BY SupplyRecycledHolds, SupplyUnusedHolds, SupplyFromNewPoolHolds DEF IInv, TypeOK
<1>3. held'[c] \in Address
  <2>1. CASE SupplyRecycled(c)
    BY <2>1, ListRest DEF SupplyRecycled, IInv, TypeOK
  <2>2. CASE SupplyUnused(c)
    <3>1. held'[c] = <<Len(pools), pools[Len(pools)].unused - 1>>
      BY <2>2 DEF SupplyUnused, IInv, TypeOK
    <3>2. held'[c] # NULL
      BY <3>1 DEF NULL
    <3> QED BY <1>2, <3>2 DEF IInv, TypeOK
  <2>3. CASE SupplyFromNewPool(c)
    <3>1. held'[c] = <<Len(pools) + 1, NextSize - 1>>
      BY <2>3 DEF SupplyFromNewPool, IInv, TypeOK
    <3>2. held'[c] # NULL
      BY <3>1 DEF NULL
    <3> QED BY <1>2, <3>2 DEF IInv, TypeOK
  <2> QED BY <2>1, <2>2, <2>3
<1>4. ASSUME NEW d \in Pointer PROVE held[d] # held'[c]
  <2>1. CASE d = c
    BY <1>1, <1>3, <2>1, AddressNotNull
  <2>2. CASE d # c
    <3>1. held'[d] = held[d]
      BY <1>1, <1>2, <2>2
    <3>2. held'[c] # held'[d]
      BY <1>2, <1>3, <2>2, AddressNotNull DEF IInv, Apart
    <3> QED BY <3>1, <3>2
  <2> QED BY <2>1, <2>2
<1> QED BY <1>1, <1>3, <1>4 DEF Promise!Take

\* The recycler is an allocator: what it supplies is in use nowhere else, whatever
\* was supplied and given back before.
THEOREM RecyclerImplements == Spec => Implements
<1>1. Init => Promise!Init
  BY DEF Init, Promise!Init
<1>2. IInv /\ [Next]_vars => [Promise!Next]_held
  <2> SUFFICES ASSUME IInv, Next PROVE Promise!Next \/ held' = held
    BY DEF vars
  <2>1. ASSUME NEW c \in Pointer, Recycle(c) PROVE Promise!Give(c)
    BY <2>1 DEF Recycle, Promise!Give
  <2>2. ASSUME NEW c \in Pointer, SupplyFails(c) PROVE held' = held
    BY <2>2 DEF SupplyFails
  <2>3. Finalize => Promise!Release
    BY DEF Finalize, Promise!Release
  <2>4. Over => held' = held
    BY DEF Over, vars
  <2> QED BY <2>1, <2>2, <2>3, <2>4, SupplyIsTake DEF Next, Promise!Next
<1> QED BY <1>1, <1>2, InvariantHolds, PTL DEF Spec, Implements, Promise!AllocatorSpec

\* A recycler adds a pool only while everything it has is in use: what was given
\* back is always used first.
THEOREM PoolsAreNeeded == Spec => GrowsWhenFull
<1>1. ASSUME IInv, [Next]_vars, Len(pools') > Len(pools),
             NEW k \in 1 .. Len(pools), NEW j \in 0 .. (pools[k].allocated - 1)
      PROVE  \E c \in Pointer : held[c] = <<k, j>>
  <2>1. Len(pools) \in Nat
    BY <1>1 DEF IInv, TypeOK
  <2>2. PICK c \in Pointer : SupplyFromNewPool(c)
    <3>1. ASSUME NEW c \in Pointer, SupplyUnused(c) PROVE Len(pools') = Len(pools)
      BY <3>1, <1>1 DEF SupplyUnused, IInv, TypeOK
    <3>2. ASSUME NEW c \in Pointer,
                 SupplyRecycled(c) \/ SupplyFails(c) \/ Recycle(c)
          PROVE  pools' = pools
      BY <3>2 DEF SupplyRecycled, SupplyFails, Recycle
    <3>3. Finalize => Len(pools') = 0
      BY DEF Finalize
    <3>4. Over \/ UNCHANGED vars => pools' = pools
      BY DEF Over, vars
    <3> QED BY <1>1, <2>1, <3>1, <3>2, <3>3, <3>4 DEF Next
  <2>3. entry_list = <<>> /\ pools[k].unused = 0
    BY <1>1, <2>1, <2>2 DEF SupplyFromNewPool, Exhausted, NoneUnused, IInv, NoneLost
  <2>4. <<k, j>> \notin Listed
    BY <2>3 DEF Listed
  <2> QED BY <1>1, <2>3, <2>4 DEF IInv, NoneLost
<1>2. IInv /\ [Next]_vars =>
        [Len(pools') > Len(pools) =>
           \A k \in 1 .. Len(pools) : \A j \in 0 .. (pools[k].allocated - 1) :
             \E c \in Pointer : held[c] = <<k, j>>]_vars
  BY <1>1
<1> QED BY <1>2, InvariantHolds, PTL DEF Spec, GrowsWhenFull

=============================================================================
