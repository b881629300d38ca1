------------------------- MODULE MarketData_proofs -------------------------
(***************************************************************************)
(* How old an answer of module MarketData can be, and the bound of the      *)
(* dictionary, for every number of tasks and symbols, size, time to live    *)
(* and length of a bar.                                                     *)
(***************************************************************************)
EXTENDS MarketData, SequenceTheorems, TLAPS

-----------------------------------------------------------------------------
(* The inductive invariant *)

Entries == [key : Keys, data : Nat, stored : Nat]

(* what was stored was the exchange's state at most a request's time before *)
EntryOK(e) == e.stored <= now /\ e.data <= e.stored /\ e.stored <= e.data + Timeout

OneEach(s) == \A i, j \in DOMAIN s : s[i].key = s[j].key => i = j

(* a dictionary, whatever its size *)
Dictionary(s) ==
    /\ s \in Seq(Entries)
    /\ \A i \in DOMAIN s : EntryOK(s[i])
    /\ OneEach(s)

CacheOK == Dictionary(cache) /\ Len(cache) <= MaxSize

(* No request is waited for longer than its timeout. *)
RequestOK(r) ==
    \/ r = Idle
    \/ /\ r.key \in Keys /\ r.asked \in Nat
       /\ r.asked <= now /\ now <= r.asked + Timeout

RequestsOK ==
    /\ DOMAIN fetch = Tasks /\ DOMAIN preload = Names
    /\ \A t \in Tasks : RequestOK(fetch[t])
    /\ \A n \in Names : RequestOK(preload[n])

(* Candles in a file are at most a request's time older than the moment    *)
(* that a table gives for them, the one in memory and the one on disk,     *)
(* which may fall behind the candles but never get ahead.                  *)
NotOlder(data, m) == m # Never /\ data \notin {Never, Torn} => m <= data + Timeout

FilesOK ==
    /\ meta \in [CandleKeys -> Never..now]
    /\ metaFile \in [CandleKeys -> Never..now]
    /\ parquet \in [CandleKeys -> Torn..now]
    /\ \A k \in CandleKeys : NotOlder(parquet[k], meta[k]) /\ NotOlder(parquet[k], metaFile[k])

CountersOK ==
    /\ now \in 0..MaxTime
    /\ atrCache \in [Names -> Never..now]
    /\ faults \in 0..MaxFaults /\ restarts \in 0..MaxRestarts

AnswersOK == AnswersAreFresh /\ AtrIsFresh

MarketInv == CacheOK /\ RequestsOK /\ FilesOK /\ CountersOK /\ AnswersOK

-----------------------------------------------------------------------------
(* Sequences of entries *)

LEMMA Constants ==
  /\ MaxSize \in Nat \ {0} /\ PriceTtl \in Nat /\ OhlcvTtl \in Nat /\ BarLen \in Nat /\ MaxAge \in Nat
  /\ Timeout \in Nat /\ MaxTime \in Nat /\ MaxFaults \in Nat /\ MaxRestarts \in Nat
  /\ BarLen > 0 /\ PriceTtl > 0 /\ OhlcvTtl > 0 /\ BarLen + OhlcvTtl <= MaxAge
  BY MarketDataAssumption

(* What stays of a dictionary when one of its entries goes. *)
LEMMA RemoveAtIs ==
  ASSUME NEW S, NEW s \in Seq(S), NEW p \in DOMAIN s
  PROVE  /\ RemoveAt(s, p) \in Seq(S) /\ Len(RemoveAt(s, p)) = Len(s) - 1
         /\ \A i \in DOMAIN RemoveAt(s, p) : RemoveAt(s, p)[i] = IF i < p THEN s[i] ELSE s[i + 1]
<1> DEFINE a == SubSeq(s, 1, p - 1)
           b == SubSeq(s, p + 1, Len(s))
<1>1. Len(s) \in Nat /\ p \in 1..Len(s) /\ \A i \in 1..Len(s) : s[i] \in S
  BY LenProperties
<1>2. a \in Seq(S) /\ Len(a) = p - 1 /\ \A i \in 1..(p - 1) : a[i] = s[i]
  <2>1. \A i \in 1..(p - 1) : s[i] \in S
    BY <1>1
  <2>2. a \in Seq(S) /\ Len(a) = (IF 1 <= p - 1 THEN p - 1 - 1 + 1 ELSE 0)
        /\ \A i \in 1..(p - 1 - 1 + 1) : a[i] = s[1 + i - 1]
    BY <1>1, <2>1, SubSeqProperties
  <2> HIDE DEF a
  <2> QED
    BY <1>1, <2>2
<1>3. b \in Seq(S) /\ Len(b) = Len(s) - p /\ \A i \in 1..(Len(s) - p) : b[i] = s[p + i]
  <2>1. \A i \in (p + 1)..Len(s) : s[i] \in S
    BY <1>1
  <2>2. b \in Seq(S) /\ Len(b) = (IF p + 1 <= Len(s) THEN Len(s) - (p + 1) + 1 ELSE 0)
        /\ \A i \in 1..(Len(s) - (p + 1) + 1) : b[i] = s[p + 1 + i - 1]
    BY <1>1, <2>1, SubSeqProperties
  <2> HIDE DEF b
  <2> QED
    BY <1>1, <2>2
<1>4. RemoveAt(s, p) = a \o b
  BY DEF RemoveAt
<1> HIDE DEF a, b
<1>5. /\ a \o b \in Seq(S) /\ Len(a \o b) = Len(a) + Len(b)
      /\ \A i \in 1..(Len(a) + Len(b)) : (a \o b)[i] = IF i <= Len(a) THEN a[i] ELSE b[i - Len(a)]
  BY <1>2, <1>3, ConcatProperties
<1>6. Len(a \o b) = Len(s) - 1 /\ DOMAIN (a \o b) = 1..(Len(s) - 1)
  BY <1>1, <1>2, <1>3, <1>5, LenProperties, SMTT(30)
<1>7. ASSUME NEW i \in 1..(Len(s) - 1)
      PROVE  (a \o b)[i] = IF i < p THEN s[i] ELSE s[i + 1]
  <2>1. (a \o b)[i] = IF i <= p - 1 THEN a[i] ELSE b[i - (p - 1)]
    <3>1. Len(a) = p - 1 /\ Len(a) + Len(b) = Len(s) - 1
      BY <1>1, <1>2, <1>3
    <3> QED
      BY <1>5, <3>1
  <2>2. CASE i < p
    BY <1>1, <1>2, <2>1, <2>2
  <2>3. CASE ~(i < p)
    <3>1. i - (p - 1) \in 1..(Len(s) - p) /\ p + (i - (p - 1)) = i + 1 /\ ~(i <= p - 1)
      BY <1>1, <2>3
    <3> QED
      BY <1>3, <2>1, <2>3, <3>1
  <2> QED
    BY <2>2, <2>3
<1> QED
  BY <1>4, <1>5, <1>6, <1>7

LEMMA Domains ==
  ASSUME NEW s, Dictionary(s)
  PROVE  Len(s) \in Nat /\ DOMAIN s = 1..Len(s) /\ \A i \in 1..Len(s) : s[i] \in Entries
  BY LenProperties DEF Dictionary

LEMMA RemoveAtKeeps ==
  ASSUME NEW s, Dictionary(s), NEW p \in DOMAIN s
  PROVE  /\ Dictionary(RemoveAt(s, p)) /\ Len(RemoveAt(s, p)) = Len(s) - 1
         /\ \A i \in DOMAIN RemoveAt(s, p) : RemoveAt(s, p)[i].key # s[p].key
<1> DEFINE r == RemoveAt(s, p)
           at(i) == IF i < p THEN i ELSE i + 1
<1>1. /\ r \in Seq(Entries) /\ Len(r) = Len(s) - 1
      /\ \A i \in DOMAIN r : r[i] = IF i < p THEN s[i] ELSE s[i + 1]
  BY RemoveAtIs DEF Dictionary
<1>2. DOMAIN r = 1..(Len(s) - 1) /\ DOMAIN s = 1..Len(s) /\ Len(s) \in Nat /\ p \in 1..Len(s)
  BY <1>1, Domains, LenProperties
<1> HIDE DEF r
<1>3. \A i \in DOMAIN r : at(i) \in DOMAIN s /\ r[i] = s[at(i)] /\ at(i) # p
  BY <1>1, <1>2
<1>4. \A i, j \in DOMAIN r : at(i) = at(j) => i = j
  BY <1>2
<1> HIDE DEF at
<1>5. OneEach(r)
  BY <1>3, <1>4 DEF OneEach, Dictionary
<1>6. \A i \in DOMAIN r : EntryOK(r[i])
  BY <1>3 DEF Dictionary
<1>7. \A i \in DOMAIN r : r[i].key # s[p].key
  BY <1>3 DEF OneEach, Dictionary
<1> QED
  BY <1>1, <1>5, <1>6, <1>7 DEF Dictionary, r

LEMMA TailKeeps ==
  ASSUME NEW s, Dictionary(s), Len(s) > 0
  PROVE  Dictionary(Tail(s)) /\ Len(Tail(s)) = Len(s) - 1
<1>1. s \in Seq(Entries) /\ s # << >> /\ Len(s) \in Nat /\ DOMAIN s = 1..Len(s)
  BY Domains, EmptySeq DEF Dictionary
<1>2. /\ Tail(s) \in Seq(Entries) /\ Len(Tail(s)) = Len(s) - 1
      /\ \A i \in 1..Len(Tail(s)) : Tail(s)[i] = s[i + 1]
  BY <1>1, HeadTailProperties
<1>3. DOMAIN Tail(s) = 1..(Len(s) - 1)
  BY <1>2, LenProperties
<1>4. \A i \in DOMAIN Tail(s) : i + 1 \in DOMAIN s /\ Tail(s)[i] = s[i + 1]
  BY <1>1, <1>2, <1>3
<1>5. OneEach(Tail(s))
  BY <1>3, <1>4 DEF OneEach, Dictionary
<1> QED
  BY <1>2, <1>4, <1>5 DEF Dictionary

LEMMA AppendKeeps ==
  ASSUME NEW s, Dictionary(s), NEW e \in Entries, EntryOK(e), \A i \in DOMAIN s : s[i].key # e.key
  PROVE  Dictionary(Append(s, e)) /\ Len(Append(s, e)) = Len(s) + 1
<1>1. s \in Seq(Entries) /\ Len(s) \in Nat /\ DOMAIN s = 1..Len(s)
  BY Domains DEF Dictionary
<1>2. /\ Append(s, e) \in Seq(Entries) /\ Len(Append(s, e)) = Len(s) + 1
      /\ \A i \in 1..Len(s) : Append(s, e)[i] = s[i]
      /\ Append(s, e)[Len(s) + 1] = e
  BY <1>1, AppendProperties
<1>3. DOMAIN Append(s, e) = 1..(Len(s) + 1)
  BY <1>2, LenProperties
<1>4. \A i \in DOMAIN Append(s, e) : (i \in DOMAIN s /\ Append(s, e)[i] = s[i]) \/ (i = Len(s) + 1 /\ Append(s, e)[i] = e)
  BY <1>1, <1>2, <1>3
<1>5. OneEach(Append(s, e))
  BY <1>1, <1>4 DEF OneEach, Dictionary
<1>6. \A i \in DOMAIN Append(s, e) : EntryOK(Append(s, e)[i])
  BY <1>4 DEF Dictionary
<1> QED
  BY <1>2, <1>5, <1>6 DEF Dictionary

(* the entry of a key replaced, in its place *)
LEMMA ReplaceKeeps ==
  ASSUME NEW s, Dictionary(s), NEW e \in Entries, EntryOK(e),
         NEW P \in SUBSET DOMAIN s, \A i \in DOMAIN s : i \in P <=> s[i].key = e.key
  PROVE  LET r == [i \in DOMAIN s |-> IF i \in P THEN e ELSE s[i]]
         IN  Dictionary(r) /\ Len(r) = Len(s)
<1> DEFINE r == [i \in DOMAIN s |-> IF i \in P THEN e ELSE s[i]]
<1>1. Len(s) \in Nat /\ DOMAIN s = 1..Len(s) /\ \A i \in DOMAIN s : s[i] \in Entries
  BY Domains
<1>2. r \in [1..Len(s) -> Entries]
  BY <1>1
<1>3. r \in Seq(Entries) /\ Len(r) = Len(s) /\ DOMAIN r = DOMAIN s
  BY <1>1, <1>2
<1>4. \A i \in DOMAIN s : r[i].key = s[i].key /\ EntryOK(r[i])
  BY DEF Dictionary
<1> HIDE DEF r
<1>5. Dictionary(r)
  BY <1>3, <1>4 DEF Dictionary, OneEach
<1> QED
  BY <1>3, <1>5 DEF r

-----------------------------------------------------------------------------
(* Operations of the dictionary *)

LEMMA InPlace ==
  ASSUME NEW k, Place(k) # {}
  PROVE  PlaceOf(k) \in DOMAIN cache /\ cache[PlaceOf(k)].key = k /\ Entry(k) = cache[PlaceOf(k)]
  BY DEF Place, PlaceOf, Entry

LEMMA WithoutKeeps ==
  ASSUME CacheOK, NEW k
  PROVE  /\ Dictionary(Without(k)) /\ Len(Without(k)) <= Len(cache)
         /\ Place(k) # {} => Len(Without(k)) = Len(cache) - 1
         /\ \A i \in DOMAIN Without(k) : Without(k)[i].key # k
<1>1. Dictionary(cache) /\ Len(cache) \in Nat
  BY Domains DEF CacheOK
<1>2. CASE Place(k) = {}
  <2>1. Without(k) = cache
    BY <1>2 DEF Without
  <2> QED
    BY <1>1, <1>2, <2>1 DEF Place
<1>3. CASE Place(k) # {}
  <2>1. Without(k) = RemoveAt(cache, PlaceOf(k))
    BY <1>3 DEF Without
  <2> QED
    BY <1>1, <1>3, <2>1, InPlace, RemoveAtKeeps
<1> QED
  BY <1>2, <1>3

LEMMA MovedKeeps ==
  ASSUME CacheOK, NEW k, Hit(k), cache' = MovedToEnd(k)
  PROVE  /\ Dictionary(cache') /\ Len(cache') = Len(cache)
         /\ Entry(k) \in Entries /\ EntryOK(Entry(k)) /\ Entry(k).key = k
<1>1. Place(k) # {} /\ Dictionary(cache)
  BY DEF Hit, CacheOK
<1>2. Entry(k) \in Entries /\ EntryOK(Entry(k)) /\ Entry(k).key = k
  BY <1>1, InPlace, Domains DEF Dictionary
<1>3. Dictionary(Without(k)) /\ Len(Without(k)) = Len(cache) - 1 /\ \A i \in DOMAIN Without(k) : Without(k)[i].key # k
  BY <1>1, WithoutKeeps
<1>4. Dictionary(cache') /\ Len(cache') = Len(Without(k)) + 1
  BY <1>2, <1>3, AppendKeeps DEF MovedToEnd
<1> QED
  BY <1>1, <1>2, <1>3, <1>4, Domains

LEMMA EvictKeeps ==
  ASSUME CacheOK
  PROVE  Dictionary(EvictLru) /\ Len(EvictLru) < MaxSize
<1>1. Dictionary(cache) /\ Len(cache) \in Nat /\ Len(cache) <= MaxSize /\ MaxSize \in Nat \ {0}
  BY Domains, Constants DEF CacheOK
<1>2. CASE Len(cache) < MaxSize
  BY <1>1, <1>2 DEF EvictLru
<1>3. CASE ~(Len(cache) < MaxSize)
  <2>1. Dictionary(Tail(cache)) /\ Len(Tail(cache)) = Len(cache) - 1
    BY <1>1, <1>3, TailKeeps
  <2> QED
    BY <1>1, <1>3, <2>1 DEF EvictLru
<1> QED
  BY <1>2, <1>3

(* An answer of the exchange enters the dictionary. *)
LEMMA SetEntryKeeps ==
  ASSUME CacheOK, now \in Nat, NEW k \in Keys, NEW data \in Nat, data <= now, now <= data + Timeout,
         SetEntry(k, data)
  PROVE  Dictionary(cache') /\ Len(cache') <= MaxSize
<1> DEFINE e == [key |-> k, data |-> data, stored |-> now]
           room == EvictLru
           place == {i \in DOMAIN room : room[i].key = k}
<1>1. e \in Entries /\ EntryOK(e) /\ e.key = k
  BY DEF Entries, EntryOK
<1>2. Dictionary(room) /\ Len(room) < MaxSize /\ Len(room) \in Nat
  BY EvictKeeps, Domains
<1>3. cache' = IF place = {} THEN Append(room, e) ELSE [i \in DOMAIN room |-> IF i \in place THEN e ELSE room[i]]
  BY DEF SetEntry
<1>4. place \in SUBSET DOMAIN room /\ \A i \in DOMAIN room : i \in place <=> room[i].key = e.key
  BY <1>1
<1>5. place = {} => \A i \in DOMAIN room : room[i].key # e.key
  BY <1>4
<1> HIDE DEF room, e, place
<1>6. CASE place = {}
  <2>1. Dictionary(Append(room, e)) /\ Len(Append(room, e)) = Len(room) + 1
    BY <1>1, <1>2, <1>5, <1>6, AppendKeeps
  <2> QED
    BY <1>2, <1>3, <1>6, <2>1, Constants
<1>7. CASE place # {}
  <2>1. cache' = [i \in DOMAIN room |-> IF i \in place THEN e ELSE room[i]]
    BY <1>3, <1>7
  <2>2. Dictionary(cache') /\ Len(cache') = Len(room)
    BY <1>1, <1>2, <1>4, <2>1, ReplaceKeeps
  <2> QED
    BY <1>2, <2>2, Constants
<1> QED
  BY <1>6, <1>7

(* The clock only makes entries, requests and files older. *)
LEMMA CacheLater ==
  ASSUME now \in Nat, now' \in Nat, now <= now', Dictionary(cache'), Len(cache') <= MaxSize
  PROVE  CacheOK'
<1>1. cache' \in Seq(Entries) /\ OneEach(cache') /\ \A i \in DOMAIN cache' : EntryOK(cache'[i])
  BY DEF Dictionary
<1>2. \A i \in DOMAIN cache' : cache'[i] \in Entries
  BY <1>1
<1>3. ASSUME NEW i \in DOMAIN cache'
      PROVE  cache'[i].stored <= now' /\ cache'[i].data <= cache'[i].stored /\ cache'[i].stored <= cache'[i].data + Timeout
  BY <1>1, <1>2, Constants DEF EntryOK, Entries
<1> QED
  BY <1>1, <1>3 DEF CacheOK, Dictionary, EntryOK, OneEach

(* a request under way, and what its answer can be *)
LEMMA AnswerIs ==
  ASSUME now \in Nat, NEW r, RequestOK(r), r # Idle, NEW data \in r.asked..now
  PROVE  r.key \in Keys /\ data \in Nat /\ data <= now /\ now <= data + Timeout
  BY Constants DEF RequestOK

LEMMA CandleRequest ==
  ASSUME NEW r, r.key.kind # "price"
  PROVE  r # Idle
  BY DEF Idle, Key

LEMMA AskOK ==
  ASSUME now \in Nat, NEW k \in Keys
  PROVE  RequestOK(Ask(k))
  BY Constants DEF RequestOK, Ask

LEMMA KeyIs ==
  ASSUME NEW n \in Names
  PROVE  Key("price", n) \in Keys /\ Key("grid", n) \in Keys
  BY DEF Key, Keys, Kinds

-----------------------------------------------------------------------------
(* The files *)

LEMMA SaveKeeps ==
  ASSUME FilesOK, now \in Nat, now' = now, faults \in 0..MaxFaults,
         NEW k \in CandleKeys, NEW data \in Nat, data <= now, now <= data + Timeout,
         SaveToDisk(k, data)
  PROVE  FilesOK' /\ faults' \in 0..MaxFaults
<1>1. /\ meta \in [CandleKeys -> Never..now] /\ metaFile \in [CandleKeys -> Never..now]
      /\ parquet \in [CandleKeys -> Torn..now]
      /\ \A x \in CandleKeys : NotOlder(parquet[x], meta[x]) /\ NotOlder(parquet[x], metaFile[x])
  BY DEF FilesOK
<1>2. data \in Torn..now /\ now \in Never..now /\ Torn \in Torn..now /\ Never \in Never..now
  BY DEF Torn, Never
<1>3. \A m \in Never..now : NotOlder(data, m) /\ NotOlder(Torn, m)
  BY Constants DEF NotOlder, Torn, Never
<1>4. \A x \in CandleKeys : meta[x] \in Never..now /\ metaFile[x] \in Never..now /\ parquet[x] \in Torn..now
  BY <1>1
<1>5. NoMeta \in [CandleKeys -> Never..now] /\ \A x \in CandleKeys : NotOlder(parquet[x], NoMeta[x])
  BY <1>2 DEF NoMeta, NotOlder
<1>6. faults' \in 0..MaxFaults
  BY Constants DEF SaveToDisk, Fault
<1>7. CASE /\ parquet' = [parquet EXCEPT ![k] = data]
           /\ meta' = [meta EXCEPT ![k] = now]
           /\ metaFile' \in {meta', metaFile, NoMeta}
  <2>1. parquet' \in [CandleKeys -> Torn..now] /\ meta' \in [CandleKeys -> Never..now]
    BY <1>1, <1>2, <1>7
  <2>2. metaFile' \in [CandleKeys -> Never..now]
    BY <1>1, <1>5, <1>7, <2>1
  <2>3. ASSUME NEW x \in CandleKeys PROVE NotOlder(parquet'[x], meta'[x]) /\ NotOlder(parquet'[x], metaFile'[x])
    <3>1. CASE x = k
      <4>1. parquet'[x] = data /\ meta'[x] \in Never..now /\ metaFile'[x] \in Never..now
        BY <1>1, <1>7, <2>1, <2>2, <3>1
      <4> QED
        BY <1>3, <4>1
    <3>2. CASE x # k
      <4>1. parquet'[x] = parquet[x] /\ meta'[x] = meta[x] /\ metaFile'[x] \in {meta[x], metaFile[x], NoMeta[x]}
        BY <1>1, <1>7, <3>2
      <4> QED
        BY <1>1, <1>5, <4>1
    <3> QED
      BY <3>1, <3>2
  <2> QED
    BY <1>6, <2>1, <2>2, <2>3 DEF FilesOK
<1>8. CASE parquet' \in {parquet, [parquet EXCEPT ![k] = Torn]} /\ UNCHANGED <<meta, metaFile>>
  <2>1. parquet' \in [CandleKeys -> Torn..now]
    BY <1>1, <1>2, <1>8
  <2>2. \A x \in CandleKeys : parquet'[x] = parquet[x] \/ parquet'[x] = Torn
    BY <1>1, <1>8
  <2>3. \A x \in CandleKeys : NotOlder(parquet'[x], meta[x]) /\ NotOlder(parquet'[x], metaFile[x])
    BY <1>1, <1>3, <1>4, <2>2
  <2> QED
    BY <1>1, <1>6, <1>8, <2>1, <2>3 DEF FilesOK
<1> QED
  BY <1>7, <1>8 DEF SaveToDisk

(* ... when the process dies in the middle of it, and another one starts *)
LEMMA HalfSavedKeeps ==
  ASSUME FilesOK, now \in Nat, now' = now, meta' = metaFile',
         NEW k \in CandleKeys, NEW data \in Nat, data <= now, now <= data + Timeout,
         HalfSaved(k, data)
  PROVE  FilesOK'
<1>1. /\ metaFile \in [CandleKeys -> Never..now] /\ parquet \in [CandleKeys -> Torn..now]
      /\ \A x \in CandleKeys : NotOlder(parquet[x], metaFile[x])
  BY DEF FilesOK
<1>2. data \in Torn..now /\ Torn \in Torn..now /\ Never \in Never..now
  BY DEF Torn, Never
<1>3. \A m \in Never..now : NotOlder(data, m) /\ NotOlder(Torn, m)
  BY Constants DEF NotOlder, Torn, Never
<1>4. NoMeta \in [CandleKeys -> Never..now] /\ \A x \in CandleKeys : NotOlder(parquet[x], NoMeta[x])
  BY <1>2 DEF NoMeta, NotOlder
<1>5. metaFile' \in [CandleKeys -> Never..now] /\ \A x \in CandleKeys : NotOlder(parquet[x], metaFile'[x])
  BY <1>1, <1>4 DEF HalfSaved
<1>6. PICK d \in {data, Torn} : parquet' = [parquet EXCEPT ![k] = d]
  BY DEF HalfSaved
<1>7. parquet' \in [CandleKeys -> Torn..now]
  BY <1>1, <1>2, <1>6
<1>8. ASSUME NEW x \in CandleKeys PROVE NotOlder(parquet'[x], metaFile'[x])
  <2>1. metaFile'[x] \in Never..now
    BY <1>5
  <2>2. parquet'[x] \in {data, Torn} \/ parquet'[x] = parquet[x]
    BY <1>1, <1>6
  <2> QED
    BY <1>3, <1>5, <2>1, <2>2
<1> QED
  BY <1>5, <1>7, <1>8 DEF FilesOK

-----------------------------------------------------------------------------
(* Answers *)

LEMMA BarsAgree ==
  ASSUME NEW a \in Nat, NEW b \in Nat, Bar(a) = Bar(b)
  PROVE  b < a + BarLen
<1>1. BarLen \in Nat /\ BarLen > 0
  BY Constants
<1>2. a = BarLen * (a \div BarLen) + (a % BarLen) /\ a % BarLen \in Nat /\ a % BarLen < BarLen
  BY <1>1
<1>3. b = BarLen * (b \div BarLen) + (b % BarLen) /\ b % BarLen \in Nat /\ b % BarLen < BarLen
  BY <1>1
<1>4. a \div BarLen = b \div BarLen
  BY DEF Bar
<1> QED
  BY <1>1, <1>2, <1>3, <1>4

LEMMA TellsFresh ==
  ASSUME NEW kind, NEW data \in Nat, now \in Nat, Told(kind, data),
         kind = "price" => now < data + PriceTtl + Timeout,
         kind # "price" => now < data + MaxAge + Timeout
  PROVE  AnswersOK'
<1>1. told' = {[kind |-> kind, age |-> now - data]}
  BY DEF Told
<1>2. (kind = "price" => now - data < PriceTtl + Timeout) /\ (kind # "price" => now - data < MaxAge + Timeout)
  BY Constants
<1> QED
  BY <1>1, <1>2 DEF AnswersOK, AnswersAreFresh, AtrIsFresh

LEMMA TellsNothing ==
  ASSUME told' = {}
  PROVE  AnswersOK'
  BY DEF AnswersOK, AnswersAreFresh, AtrIsFresh

LEMMA GiveKeeps ==
  ASSUME now \in Nat, now' = now, atrCache \in [Names -> Never..now], NEW k \in Keys,
         NEW data \in Nat, data <= now, now < data + Ttl(k) + Timeout, Give(k, data)
  PROVE  AnswersOK' /\ atrCache' \in [Names -> Never..now]
<1> DEFINE atr == atrCache[k.name]
<1>1. k.name \in Names /\ k.kind \in Kinds /\ data \in Never..now /\ atr \in Never..now
  BY DEF Keys, Never
<1>2. /\ k.kind = "price" => now < data + PriceTtl + Timeout
      /\ k.kind # "price" => now < data + OhlcvTtl + Timeout /\ now < data + MaxAge + Timeout
  BY Constants DEF Ttl
<1>3. CASE k.kind = "atr" /\ ReusesAtr(k.name, data)
  <2>1. atr \in Nat /\ Bar(atr) = Bar(data)
    BY <1>1, <1>3 DEF ReusesAtr, Never
  <2>2. data < atr + BarLen
    BY <2>1, BarsAgree
  <2>3. now < atr + MaxAge + Timeout
    BY <1>2, <1>3, <2>1, <2>2, Constants
  <2> HIDE DEF atr
  <2>4. Told("atr", atr) /\ UNCHANGED atrCache
    BY <1>3 DEF Give, atr
  <2> QED
    BY <2>1, <2>3, <2>4, TellsFresh
<1>4. CASE ~(k.kind = "atr" /\ ReusesAtr(k.name, data))
  <2>1. /\ Told(k.kind, data)
        /\ atrCache' = IF k.kind = "atr" THEN [atrCache EXCEPT ![k.name] = data] ELSE atrCache
    BY <1>4 DEF Give
  <2>2. atrCache' \in [Names -> Never..now]
    BY <1>1, <2>1
  <2>3. AnswersOK'
    BY <1>2, <2>1, TellsFresh
  <2> QED
    BY <2>2, <2>3
<1> QED
  BY <1>3, <1>4

-----------------------------------------------------------------------------
(* The steps *)

LEMMA Types ==
  ASSUME MarketInv
  PROVE  /\ now \in Nat /\ now \in 0..MaxTime /\ CacheOK /\ Dictionary(cache) /\ RequestsOK /\ FilesOK
         /\ atrCache \in [Names -> Never..now] /\ faults \in 0..MaxFaults /\ restarts \in 0..MaxRestarts
  BY Constants DEF MarketInv, CountersOK, CacheOK

(* A step that leaves the clock alone keeps what it does not touch. *)
LEMMA FilesStay ==
  ASSUME FilesOK, UNCHANGED <<now, disk>>
  PROVE  FilesOK'
  BY DEF FilesOK, disk, NotOlder

LEMMA RequestsStay ==
  ASSUME RequestsOK, UNCHANGED now, DOMAIN fetch' = Tasks, DOMAIN preload' = Names,
         \A t \in Tasks : fetch'[t] = fetch[t] \/ RequestOK(fetch'[t]),
         \A n \in Names : preload'[n] = preload[n] \/ RequestOK(preload'[n])
  PROVE  RequestsOK'
<1>1. \A t \in Tasks : RequestOK(fetch'[t])
  BY DEF RequestsOK
<1>2. \A n \in Names : RequestOK(preload'[n])
  BY DEF RequestsOK
<1> QED
  BY <1>1, <1>2 DEF RequestsOK, RequestOK

LEMMA StepKeeps ==
  ASSUME MarketInv, UNCHANGED now, Dictionary(cache'), Len(cache') <= MaxSize,
         RequestsOK', FilesOK', AnswersOK',
         atrCache' \in [Names -> Never..now], faults' \in 0..MaxFaults, restarts' \in 0..MaxRestarts
  PROVE  MarketInv'
<1>1. CacheOK'
  BY Types, CacheLater
<1> QED
  BY <1>1, Types DEF MarketInv, CountersOK

(* how old what the dictionary answers with can be *)
LEMMA HitIsFresh ==
  ASSUME MarketInv, NEW k, Hit(k), Entry(k) \in Entries, EntryOK(Entry(k)), Entry(k).key = k
  PROVE  Entry(k).data \in Nat /\ Entry(k).data <= now /\ now < Entry(k).data + Ttl(k) + Timeout
<1> DEFINE e == Entry(k)
<1>1. e.stored \in Nat /\ e.data \in Nat /\ e.stored <= now /\ e.data <= e.stored /\ e.stored <= e.data + Timeout
  BY DEF Entries, EntryOK
<1>2. ~(now >= e.stored + Ttl(k))
  BY DEF Hit, IsExpired
<1>3. Ttl(k) \in Nat /\ now \in Nat
  BY Constants, Types DEF Ttl
<1> HIDE DEF e
<1>4. now < e.data + Ttl(k) + Timeout
  BY <1>1, <1>2, <1>3, Constants
<1> QED
  BY <1>1, <1>3, <1>4, Constants DEF e

LEMMA FromMemoryKeeps ==
  ASSUME MarketInv, NEW k \in Keys, FromMemory(k)
  PROVE  MarketInv'
<1>1. /\ Hit(k) /\ cache' = MovedToEnd(k) /\ Give(k, Entry(k).data)
      /\ UNCHANGED <<now, fetch, preload, faults, restarts>> /\ UNCHANGED disk
  BY DEF FromMemory
<1>2. /\ Dictionary(cache') /\ Len(cache') <= MaxSize
      /\ Entry(k) \in Entries /\ EntryOK(Entry(k)) /\ Entry(k).key = k
  BY <1>1, Types, MovedKeeps DEF CacheOK
<1>3. Entry(k).data \in Nat /\ Entry(k).data <= now /\ now < Entry(k).data + Ttl(k) + Timeout
  BY <1>1, <1>2, HitIsFresh
<1>4. AnswersOK' /\ atrCache' \in [Names -> Never..now]
  BY <1>1, <1>3, Types, GiveKeeps
<1>5. FilesOK' /\ RequestsOK'
  BY <1>1, Types, FilesStay, RequestsStay DEF RequestsOK
<1> QED
  BY <1>1, <1>2, <1>4, <1>5, Types, StepKeeps

LEMMA FromDiskKeeps ==
  ASSUME MarketInv, NEW k \in Keys, FromDisk(k)
  PROVE  MarketInv'
<1>1. /\ k \in CandleKeys /\ OnDisk(k) /\ cache' = Without(k) /\ Told(k.kind, parquet[k])
      /\ UNCHANGED <<now, atrCache, fetch, preload, faults, restarts>> /\ UNCHANGED disk
  BY DEF FromDisk
<1>2. Dictionary(cache') /\ Len(cache') <= MaxSize
  BY <1>1, Types, WithoutKeeps, Domains, Constants DEF CacheOK
<1>3. /\ parquet[k] \in Torn..now /\ meta[k] \in Never..now /\ NotOlder(parquet[k], meta[k])
      /\ meta[k] # Never /\ now - meta[k] < MaxAge /\ parquet[k] \notin {Never, Torn}
  BY <1>1, Types DEF FilesOK, OnDisk, IsDiskCacheFresh
<1>4. parquet[k] \in Nat /\ now < parquet[k] + MaxAge + Timeout
  BY <1>3, Types, Constants DEF NotOlder, Never, Torn
<1>5. k.kind # "price"
  BY <1>1 DEF CandleKeys
<1>6. AnswersOK'
  BY <1>1, <1>4, <1>5, Types, TellsFresh
<1>7. FilesOK' /\ RequestsOK'
  BY <1>1, Types, FilesStay, RequestsStay DEF RequestsOK
<1> QED
  BY <1>1, <1>2, <1>6, <1>7, Types, StepKeeps

LEMMA MissKeeps ==
  ASSUME MarketInv, NEW t \in Tasks, NEW k \in Keys, Miss(t, k)
  PROVE  MarketInv'
<1>1. /\ cache' = Without(k) /\ fetch' = [fetch EXCEPT ![t] = Ask(k)] /\ told' = {}
      /\ UNCHANGED <<now, atrCache, preload, faults, restarts>> /\ UNCHANGED disk
  BY DEF Miss, NothingTold
<1>2. Dictionary(cache') /\ Len(cache') <= MaxSize
  BY <1>1, Types, WithoutKeeps, Domains, Constants DEF CacheOK
<1>3. RequestOK(Ask(k))
  BY Types, AskOK
<1>4. RequestsOK'
  BY <1>1, <1>3, Types, RequestsStay DEF RequestsOK
<1>5. FilesOK' /\ AnswersOK'
  BY <1>1, Types, FilesStay, TellsNothing
<1> QED
  BY <1>1, <1>2, <1>4, <1>5, Types, StepKeeps

(* a request is answered, or given up *)
LEMMA RequestEnds ==
  ASSUME MarketInv, UNCHANGED now,
         \/ \E t \in Tasks : fetch' = [fetch EXCEPT ![t] = Idle] /\ UNCHANGED preload
         \/ \E n \in Names : \E r : preload' = [preload EXCEPT ![n] = r] /\ RequestOK(r) /\ UNCHANGED fetch
  PROVE  RequestsOK'
<1>1. RequestOK(Idle)
  BY DEF RequestOK
<1>2. CASE \E t \in Tasks : fetch' = [fetch EXCEPT ![t] = Idle] /\ UNCHANGED preload
  BY <1>1, <1>2, Types, RequestsStay DEF RequestsOK
<1>3. CASE \E n \in Names : \E r : preload' = [preload EXCEPT ![n] = r] /\ RequestOK(r) /\ UNCHANGED fetch
  BY <1>3, Types, RequestsStay DEF RequestsOK
<1> QED
  BY <1>2, <1>3

LEMMA PriceArrivesKeeps ==
  ASSUME MarketInv, NEW t \in Tasks, PriceArrives(t)
  PROVE  MarketInv'
<1> DEFINE k == fetch[t].key
<1>1. /\ fetch[t] # Idle /\ k.kind = "price" /\ fetch' = [fetch EXCEPT ![t] = Idle]
      /\ UNCHANGED <<now, atrCache, preload, faults, restarts>> /\ UNCHANGED disk
  BY DEF PriceArrives
<1>2. PICK data \in fetch[t].asked..now : SetEntry(k, data) /\ Told("price", data)
  BY DEF PriceArrives
<1>3. k \in Keys /\ data \in Nat /\ data <= now /\ now <= data + Timeout
  BY <1>1, Types, AnswerIs DEF RequestsOK
<1>4. Dictionary(cache') /\ Len(cache') <= MaxSize
  BY <1>2, <1>3, Types, SetEntryKeeps
<1>5. now < data + PriceTtl + Timeout
  BY <1>3, Types, Constants
<1>6. AnswersOK'
  BY <1>2, <1>3, <1>5, Types, TellsFresh
<1>7. FilesOK' /\ RequestsOK'
  BY <1>1, Types, FilesStay, RequestEnds
<1> QED
  BY <1>1, <1>4, <1>6, <1>7, Types, StepKeeps

LEMMA CandlesArriveKeeps ==
  ASSUME MarketInv, NEW t \in Tasks, CandlesArrive(t)
  PROVE  MarketInv'
<1> DEFINE k == fetch[t].key
<1>1. k \in CandleKeys /\ fetch' = [fetch EXCEPT ![t] = Idle] /\ UNCHANGED <<now, preload, restarts>>
  BY DEF CandlesArrive
<1>2. PICK data \in fetch[t].asked..now : SetEntry(k, data) /\ SaveToDisk(k, data) /\ Give(k, data)
  BY DEF CandlesArrive
<1>3. k.kind # "price" /\ fetch[t] # Idle
  BY <1>1, CandleRequest DEF CandleKeys
<1>4. k \in Keys /\ data \in Nat /\ data <= now /\ now <= data + Timeout
  BY <1>3, Types, AnswerIs DEF RequestsOK
<1>5. Dictionary(cache') /\ Len(cache') <= MaxSize
  BY <1>2, <1>4, Types, SetEntryKeeps
<1>6. now < data + Ttl(k) + Timeout
  BY <1>4, Types, Constants DEF Ttl
<1>7. AnswersOK' /\ atrCache' \in [Names -> Never..now]
  BY <1>1, <1>2, <1>4, <1>6, Types, GiveKeeps
<1>8. FilesOK' /\ faults' \in 0..MaxFaults
  BY <1>1, <1>2, <1>4, Types, SaveKeeps
<1>9. RequestsOK'
  BY <1>1, RequestEnds
<1> QED
  BY <1>1, <1>5, <1>7, <1>8, <1>9, Types, StepKeeps

LEMMA FailsKeep ==
  ASSUME MarketInv, (\E t \in Tasks : FetchFails(t)) \/ (\E n \in Names : PreloadFails(n))
  PROVE  MarketInv'
<1>1. told' = {} /\ UNCHANGED <<now, cache, atrCache, faults, restarts>> /\ UNCHANGED disk
  BY DEF FetchFails, PreloadFails, NothingTold
<1>2. RequestOK(Idle)
  BY DEF RequestOK
<1>3. RequestsOK'
  BY <1>1, <1>2, RequestEnds DEF FetchFails, PreloadFails
<1>4. FilesOK' /\ AnswersOK'
  BY <1>1, Types, FilesStay, TellsNothing
<1>5. Dictionary(cache') /\ Len(cache') <= MaxSize
  BY <1>1, Types DEF CacheOK
<1> QED
  BY <1>1, <1>3, <1>4, <1>5, Types, StepKeeps

LEMMA PreloadPriceKeeps ==
  ASSUME MarketInv, NEW n \in Names, PreloadPrice(n)
  PROVE  MarketInv'
<1> DEFINE k == preload[n].key
<1>1. /\ preload[n] # Idle /\ preload' = [preload EXCEPT ![n] = Ask(Key("grid", n))] /\ told' = {}
      /\ UNCHANGED <<now, atrCache, fetch, faults, restarts>> /\ UNCHANGED disk
  BY DEF PreloadPrice, NothingTold
<1>2. Dictionary(cache') /\ Len(cache') <= MaxSize
  <2>1. CASE UNCHANGED cache
    BY <2>1, Types DEF CacheOK
  <2>2. CASE \E data \in preload[n].asked..now : SetEntry(k, data)
    <3>1. PICK data \in preload[n].asked..now : SetEntry(k, data)
      BY <2>2
    <3>2. k \in Keys /\ data \in Nat /\ data <= now /\ now <= data + Timeout
      BY <1>1, Types, AnswerIs DEF RequestsOK
    <3> QED
      BY <3>1, <3>2, Types, SetEntryKeeps
  <2> QED
    BY <2>1, <2>2 DEF PreloadPrice
<1>3. RequestOK(Ask(Key("grid", n)))
  BY KeyIs, AskOK, Types
<1>4. RequestsOK'
  BY <1>1, <1>3, RequestEnds
<1>5. FilesOK' /\ AnswersOK'
  BY <1>1, Types, FilesStay, TellsNothing
<1> QED
  BY <1>1, <1>2, <1>4, <1>5, Types, StepKeeps

LEMMA PreloadCandlesKeeps ==
  ASSUME MarketInv, NEW n \in Names, PreloadCandles(n)
  PROVE  MarketInv'
<1> DEFINE k == preload[n].key
<1>1. /\ k.kind = "grid" /\ preload' = [preload EXCEPT ![n] = Idle] /\ told' = {}
      /\ UNCHANGED <<now, atrCache, fetch, restarts>>
  BY DEF PreloadCandles, NothingTold
<1>2. PICK data \in preload[n].asked..now : SetEntry(k, data) /\ SaveToDisk(k, data)
  BY DEF PreloadCandles
<1>3. preload[n] # Idle
  BY <1>1, CandleRequest
<1>4. k \in Keys /\ data \in Nat /\ data <= now /\ now <= data + Timeout
  BY <1>3, Types, AnswerIs DEF RequestsOK
<1>5. k \in CandleKeys
  BY <1>1, <1>4 DEF CandleKeys
<1>6. Dictionary(cache') /\ Len(cache') <= MaxSize
  BY <1>2, <1>4, Types, SetEntryKeeps
<1>7. FilesOK' /\ faults' \in 0..MaxFaults
  BY <1>1, <1>2, <1>4, <1>5, Types, SaveKeeps
<1>8. RequestOK(Idle)
  BY DEF RequestOK
<1>9. RequestsOK' /\ AnswersOK'
  BY <1>1, <1>8, RequestEnds, TellsNothing
<1> QED
  BY <1>1, <1>6, <1>7, <1>9, Types, StepKeeps

(* Another process starts with the files as they are. *)
LEMMA RebootKeeps ==
  ASSUME MarketInv, Reboots, FilesOK'
  PROVE  MarketInv'
<1>1. /\ cache' = <<>> /\ atrCache' = [n \in Names |-> Never] /\ fetch' = [t \in Tasks |-> Idle]
      /\ preload' = [n \in Names |-> Ask(Key("price", n))] /\ restarts < MaxRestarts
      /\ restarts' = restarts + 1 /\ told' = {} /\ UNCHANGED <<now, faults>>
  BY DEF Reboots, NothingTold
<1>2. Dictionary(cache') /\ Len(cache') <= MaxSize
  BY <1>1, EmptySeq, Constants DEF Dictionary, OneEach
<1>3. atrCache' \in [Names -> Never..now]
  BY <1>1, Types DEF Never
<1>4. RequestsOK'
  <2>1. RequestOK(Idle) /\ \A n \in Names : RequestOK(Ask(Key("price", n)))
    BY KeyIs, AskOK, Types DEF RequestOK
  <2> QED
    BY <1>1, <2>1, Types, RequestsStay
<1>5. AnswersOK' /\ restarts' \in 0..MaxRestarts
  BY <1>1, TellsNothing, Types, Constants
<1> QED
  BY <1>1, <1>2, <1>3, <1>4, <1>5, Types, StepKeeps

LEMMA RestartKeeps ==
  ASSUME MarketInv, Restart
  PROVE  MarketInv'
<1>1. FilesOK'
  BY Types DEF Restart, Reboots, FilesOK, NotOlder
<1> QED
  BY <1>1, RebootKeeps DEF Restart

LEMMA DeathKeeps ==
  ASSUME MarketInv, DiesInSave
  PROVE  MarketInv'
<1>1. PICK r \in {fetch[t] : t \in Tasks} \cup {preload[n] : n \in Names} :
         r.key \in CandleKeys /\ \E data \in r.asked..now : HalfSaved(r.key, data)
  BY DEF DiesInSave
<1>2. PICK data \in r.asked..now : HalfSaved(r.key, data)
  BY <1>1
<1>3. r # Idle /\ RequestOK(r)
  BY <1>1, CandleRequest, Types DEF CandleKeys, RequestsOK
<1>4. data \in Nat /\ data <= now /\ now <= data + Timeout
  BY <1>3, Types, AnswerIs
<1>5. Reboots /\ now' = now /\ meta' = metaFile'
  BY DEF DiesInSave, Reboots
<1>6. FilesOK'
  BY <1>1, <1>2, <1>4, <1>5, Types, HalfSavedKeeps
<1> QED
  BY <1>5, <1>6, RebootKeeps

LEMMA PassKeeps ==
  ASSUME MarketInv, Pass
  PROVE  MarketInv'
<1>1. /\ now < MaxTime /\ now' = now + 1 /\ told' = {}
      /\ UNCHANGED <<cache, meta, metaFile, parquet, atrCache, fetch, preload, faults, restarts>>
  BY DEF Pass, NothingTold, disk
<1>2. now \in Nat /\ now' \in Nat /\ now <= now' /\ now' \in 0..MaxTime
  BY <1>1, Types, Constants
<1>3. CacheOK'
  BY <1>1, <1>2, Types, CacheLater DEF CacheOK
<1>4. \A t \in Tasks : RequestOK(fetch[t])'
  BY <1>1, <1>2, Types, Constants DEF RequestsOK, RequestOK, Pass
<1>5. \A n \in Names : RequestOK(preload[n])'
  BY <1>1, <1>2, Types, Constants DEF RequestsOK, RequestOK, Pass
<1>6. RequestsOK'
  BY <1>1, <1>4, <1>5, Types DEF RequestsOK
<1>7. Never..now \subseteq Never..now' /\ Torn..now \subseteq Torn..now'
  BY <1>2 DEF Never, Torn
<1>8. FilesOK' /\ atrCache' \in [Names -> Never..now']
  BY <1>1, <1>7, Types DEF FilesOK, NotOlder
<1>9. AnswersOK'
  BY <1>1, TellsNothing
<1> QED
  BY <1>1, <1>2, <1>3, <1>6, <1>8, <1>9, Types DEF MarketInv, CountersOK

LEMMA InitKeeps ==
  ASSUME Init
  PROVE  MarketInv
<1>1. /\ now = 0 /\ cache = <<>> /\ meta = NoMeta /\ metaFile = NoMeta
      /\ parquet = [k \in CandleKeys |-> Never] /\ atrCache = [n \in Names |-> Never]
      /\ fetch = [t \in Tasks |-> Idle] /\ preload = [n \in Names |-> Ask(Key("price", n))]
      /\ told = {} /\ faults = 0 /\ restarts = 0
  BY DEF Init
<1>2. CacheOK
  BY <1>1, EmptySeq, Constants DEF CacheOK, Dictionary, OneEach
<1>3. RequestsOK
  BY <1>1, KeyIs, AskOK DEF RequestsOK, RequestOK
<1>4. FilesOK
  BY <1>1 DEF FilesOK, NoMeta, NotOlder, Never, Torn
<1>5. CountersOK
  BY <1>1, Constants DEF CountersOK, Never
<1>6. AnswersOK
  BY <1>1 DEF AnswersOK, AnswersAreFresh, AtrIsFresh
<1> QED
  BY <1>2, <1>3, <1>4, <1>5, <1>6 DEF MarketInv

LEMMA NextKeeps ==
  ASSUME MarketInv, [Next]_vars
  PROVE  MarketInv'
<1>1. CASE Next
  BY <1>1, FromMemoryKeeps, FromDiskKeeps, MissKeeps, PriceArrivesKeeps, CandlesArriveKeeps, FailsKeep,
     PreloadPriceKeeps, PreloadCandlesKeeps, RestartKeeps, DeathKeeps, PassKeeps DEF Next
<1>2. CASE UNCHANGED vars
  BY <1>2 DEF vars, disk, MarketInv, CacheOK, Dictionary, EntryOK, OneEach, RequestsOK, RequestOK, FilesOK,
     NotOlder, CountersOK, AnswersOK, AnswersAreFresh, AtrIsFresh
<1> QED
  BY <1>1, <1>2

(* Type correctness: the dictionary of MarketDataCache never outgrows its  *)
(* max_size and never has a key twice, whatever the order in which the     *)
(* answers arrive, for every size and any number of tasks and symbols.     *)
THEOREM TypeCorrect == Spec => []TypeOK
<1>1. Init => MarketInv
  BY InitKeeps
<1>2. MarketInv /\ [Next]_vars => MarketInv'
  BY NextKeeps
<1>3. MarketInv => TypeOK
  <2> SUFFICES ASSUME MarketInv PROVE TypeOK
    OBVIOUS
  <2>1. \A i \in DOMAIN cache : cache[i] \in Entries /\ EntryOK(cache[i])
    BY Types, Domains DEF Dictionary
  <2>2. \A i \in DOMAIN cache : cache[i].key \in Keys /\ cache[i].stored \in 0..now
    BY <2>1, Types DEF Entries, EntryOK
  <2> QED
    BY <2>2, Types DEF TypeOK, CacheOK, Dictionary, OneEach, FilesOK
<1> QED
  BY <1>1, <1>2, <1>3, PTL DEF Spec

(* No price and no candles that a caller is given are older than the time  *)
(* to live, or the staleness bound, plus the time of a request: for all    *)
(* values of these, through failed writes and a death inside a save.       *)
THEOREM FreshAnswers == Spec => []AnswersAreFresh
<1>1. Init => MarketInv
  BY InitKeeps
<1>2. MarketInv /\ [Next]_vars => MarketInv'
  BY NextKeeps
<1>3. MarketInv => AnswersAreFresh
  BY DEF MarketInv, AnswersOK
<1> QED
  BY <1>1, <1>2, <1>3, PTL DEF Spec

(* Nor is an ATR, which is kept for a bar on top of that: because a bar    *)
(* and the time to live of candles fit into the staleness bound.           *)
THEOREM FreshAtr == Spec => []AtrIsFresh
<1>1. Init => MarketInv
  BY InitKeeps
<1>2. MarketInv /\ [Next]_vars => MarketInv'
  BY NextKeeps
<1>3. MarketInv => AtrIsFresh
  BY DEF MarketInv, AnswersOK
<1> QED
  BY <1>1, <1>2, <1>3, PTL DEF Spec
=============================================================================
