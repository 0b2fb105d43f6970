----------------------------- MODULE PagePool -----------------------------
(***************************************************************************)
(* Physical memory: the page pools of mem.c with their bitmaps (bitmap.c),  *)
(* and the coloured allocation of mmu/mem.c, as functions of a pool.        *)
(*                                                                          *)
(* Addresses count pages.  A bitmap is the set of its bits that are set, a  *)
(* colour map the set of its colours.  "free" is only compared with zero,   *)
(* so that it may be an integer where the code has a size_t that wraps.     *)
(***************************************************************************)
EXTENDS Integers, FiniteSets, Sequences

CONSTANTS
    BITMAP_GRANULE_LEN,   \* bits of a bitmap's word
    BITS_PER_BYTE,        \* bitmaps are allotted in bytes
    PLAT_BITMAP_POOL_SIZE,\* bytes for all bitmaps
    SIZE_MAX,             \* more than any number of pages
    COLOR_NUM,            \* colours of the last-level cache
    COLOR_SIZE,           \* consecutive pages of one colour
    COLORMAP_BITS         \* width of a colour map

ASSUME PoolAssumption ==
    /\ BITMAP_GRANULE_LEN \in Nat \ {0} /\ BITS_PER_BYTE \in Nat \ {0}
    /\ PLAT_BITMAP_POOL_SIZE \in Nat /\ SIZE_MAX \in Nat
    /\ COLOR_NUM \in Nat \ {0} /\ COLOR_SIZE \in Nat \ {0}
    /\ COLORMAP_BITS \in Nat /\ COLORMAP_BITS >= COLOR_NUM

Lesser(a, b) == IF a < b THEN a ELSE b

(* How often "while (P(k)) k++" goes round, at most limit times; "going" is *)
(* the set of the k below limit for which P holds.                          *)
Rounds(going, limit) ==
    CHOOSE k \in 0 .. limit : k \notin going /\ 0 .. k - 1 \subseteq going

Range1(base, n) == base .. base + n - 1

range_in_range(base1, size1, base2, size2) ==
    base1 >= base2 /\ base1 + size1 <= base2 + size2

----------------------------------------------------------------------------
(* bitmap.c                                                                 *)

bitmap_find_nth(map, size, nth, start, set) ==
    LET hits == {i \in start .. size - 1 :
                    /\ (i \in map) = set
                    /\ Cardinality({j \in start .. i : (j \in map) = set}) = nth}
    IN  IF size <= 0 \/ nth <= 0 \/ hits = {} THEN -1 ELSE CHOOSE i \in hits : TRUE

(* Mutant: the bits of the first word are counted without a look at them.   *)
CountSkipsFirstWord(map, size, start, n) ==
    LET first == Lesser(BITMAP_GRANULE_LEN - (start % BITMAP_GRANULE_LEN), n)
        going == {k \in 0 .. size - 1 : /\ start + first + k < size /\ first + k < n
                                       /\ (start + first + k \in map) = (start \in map)}
    IN  IF n <= 1 THEN n ELSE first + Rounds(going, size)

Same(map, i, start) == (i \in map) = (start \in map)

Word(p) == Range1((p \div BITMAP_GRANULE_LEN) * BITMAP_GRANULE_LEN, BITMAP_GRANULE_LEN)

(* The three loops of bitmap_count_consecutive: the bits of the first word, *)
(* whole words, single bits.  "done" bits were counted before.              *)
FirstWord(map, start, first) ==
    IF \A i \in Range1(start, first) : Same(map, i, start) THEN first ELSE 0

FullWords(map, size, start, n, done) ==
    LET At(k) == start + done + k * BITMAP_GRANULE_LEN
        going == {k \in 0 .. size - 1 : At(k) < size /\ At(k) < start + n
                                       /\ \A i \in Word(At(k)) : Same(map, i, start)}
    IN  done + BITMAP_GRANULE_LEN * Rounds(going, size)

SingleBits(map, size, start, n, done) ==
    LET first == start + done
    IN  done + Rounds({k \in 0 .. size - 1 :
                          /\ first + k < size /\ first + k < start + n
                          /\ Same(map, first + k, start)}, size)

(* The length of the run of equal bits at start.  More than n may be        *)
(* returned.                                                                *)
bitmap_count_consecutive(map, size, start, n) ==
    IF n <= 1 THEN n
    ELSE SingleBits(map, size, start, n,
             FullWords(map, size, start, n,
                 FirstWord(map, start, Lesser(BITMAP_GRANULE_LEN - (start % BITMAP_GRANULE_LEN), n))))

(* The first run of n clear bits at or after start, -1 if there is none.    *)
bitmap_find_consec(map, size, start, n) ==
    LET Skip(i) == i + bitmap_count_consecutive(map, size, i, SIZE_MAX)
        Find[i \in Int] ==
            IF i < 0 \/ i >= size THEN -1
            ELSE LET Look(count) == IF count >= n THEN i ELSE Find[Skip(i + count)]
                 IN  Look(bitmap_count_consecutive(map, size, i, n))
    IN  Find[bitmap_find_nth(map, size, 1, start, FALSE)]

(* Reference: the least index at which n bits in a row are clear.           *)
FirstFit(map, size, start, n) ==
    LET fits == {i \in start .. size - n : Range1(i, n) \cap map = {}}
    IN  IF fits = {} THEN -1 ELSE CHOOSE i \in fits : \A j \in fits : i <= j

bitmap_set_consecutive(map, start, n) == map \cup Range1(start, n)

bitmap_clear_consecutive(map, start, n) == map \ Range1(start, n)

----------------------------------------------------------------------------
(* Colours.                                                                 *)

Colors == 0 .. COLOR_NUM - 1

all_clrs(colors) == colors \cap Colors \in {{}, Colors}

pp_next_clr(base, from, colors) ==
    LET clr_offset == base % (COLOR_NUM * COLOR_SIZE)
        last == COLOR_NUM * COLOR_SIZE
    IN  from + Rounds({k \in 0 .. last - 1 :
                          ((from + k + clr_offset) \div COLOR_SIZE) % COLOR_NUM \notin colors},
                      last)

(* The index of the j-th page (from 0) of the colours, at or after from.    *)
NthColored(base, from, colors, j) ==
    LET nth[k \in Nat] == pp_next_clr(base, IF k = 0 THEN from ELSE nth[k - 1] + 1, colors)
    IN  nth[j]

ColoredIndexes(base, from, colors, n) ==
    {NthColored(base, from, colors, j) : j \in 0 .. n - 1}

----------------------------------------------------------------------------
(* A struct ppages, and the pages it stands for.                            *)

NoPages == [base |-> 0, num_pages |-> 0, colors |-> {}]

mem_ppages_get(base, n) == [base |-> base, num_pages |-> n, colors |-> {}]

PagesOf(pp) ==
    IF all_clrs(pp.colors) THEN Range1(pp.base, pp.num_pages)
    ELSE {pp.base + i : i \in ColoredIndexes(pp.base, 0, pp.colors, pp.num_pages)}

(* What an allocation leaves: the pool, and the pages if it succeeded.      *)
Refused(p, colors) == [ok |-> FALSE, pool |-> p, pages |-> [NoPages EXCEPT !.colors = colors]]

Granted(p, map, last, pp) ==
    [ok |-> TRUE, pages |-> pp,
     pool |-> [p EXCEPT !.bitmap = map, !.free = @ - pp.num_pages, !.last = last]]

(* The second search counts only where the first found nothing.             *)
EitherBit(first, second) == IF first >= 0 THEN first ELSE second

TakeRun(p, n, bit) ==
    IF p.free = 0 \/ bit < 0 THEN Refused(p, {})
    ELSE Granted(p, bitmap_set_consecutive(p.bitmap, bit, n), bit + n,
                 mem_ppages_get(p.base + bit, n))

(* Two searches, one from the last known free page and one from the first;  *)
(* a run that is not aligned is left, by its distance from the alignment.   *)
pp_alloc(p, n, aligned) ==
    LET start == IF aligned THEN p.base % n ELSE 0
        curr  == p.last + (IF aligned THEN (p.last + start) % n ELSE 0)
        again == IF aligned THEN (n - (p.base % n)) % n ELSE 0
        Search[from \in Nat] ==
            LET Look(bit) == IF bit < 0 \/ ~aligned \/ (bit + start) % n = 0 THEN bit
                             ELSE Search[bit + ((bit + start) % n)]
            IN  Look(bitmap_find_consec(p.bitmap, p.num_pages, from, n))
    IN  IF n = 0 THEN [ok |-> TRUE, pool |-> p, pages |-> NoPages]
        ELSE TakeRun(p, n, EitherBit(Search[curr], Search[again]))

(* Mutant: the pages are marked in a row.                                   *)
AllocClrMarksRow(p, n, colors) ==
    LET first == pp_next_clr(p.base, p.last, colors)
    IN  Granted(p, p.bitmap \cup Range1(first, n), first + n,
                [base |-> p.base + first, num_pages |-> n, colors |-> colors])

(* The free pages of the colours from index f on, up to n.                  *)
RunOfColors(p, n, colors, f) ==
    Rounds({k \in 0 .. n - 1 :
               LET i == NthColored(p.base, f, colors, k)
               IN  i < p.num_pages /\ i \notin p.bitmap}, n)

(* The first n of them in a row that begin at or after "from", below limit. *)
ScanColors(p, n, colors, from, limit) ==
    LET Next1(i) == pp_next_clr(p.base, i, colors)
        Scan[i \in Nat] ==
            LET Look(run) == IF run = n THEN i ELSE Scan[NthColored(p.base, i, colors, run)]
            IN  IF i >= limit THEN -1
                ELSE IF i \in p.bitmap THEN Scan[Next1(i + 1)]
                ELSE Look(RunOfColors(p, n, colors, i))
    IN  Scan[Next1(from)]

TakeColors(p, n, colors, first) ==
    LET last == IF n = 0 THEN first ELSE NthColored(p.base, first, colors, n - 1) + 1
    IN  IF first < 0 THEN Refused(p, colors)
        ELSE Granted(p, p.bitmap \cup ColoredIndexes(p.base, first, colors, n), last,
                     [base |-> p.base + first, num_pages |-> n, colors |-> colors])

(* The same for pages of some colours only, consecutive among those.        *)
pp_alloc_clr(p, n, colors) ==
    TakeColors(p, n, colors,
        IF n = 0 THEN 0
        ELSE EitherBit(ScanColors(p, n, colors, p.last, p.num_pages),
                       ScanColors(p, n, colors, 0, p.last)))

(* The first pool of the list that can serve the request, if there is one.  *)
FirstServing(pools, tries) ==
    LET able == {i \in DOMAIN pools : tries[i].ok}
        i == CHOOSE i \in able : \A j \in able : i <= j
    IN  IF able = {} THEN [pools |-> pools, pages |-> NoPages]
        ELSE [pools |-> [pools EXCEPT ![i] = tries[i].pool], pages |-> tries[i].pages]

mem_alloc_ppages(pools, colors, n, aligned) ==
    FirstServing(pools, [i \in DOMAIN pools |->
        IF ~all_clrs(colors) /\ ~aligned THEN pp_alloc_clr(pools[i], n, colors)
        ELSE pp_alloc(pools[i], n, aligned)])

mem_free_ppages(pools, pp) ==
    [i \in DOMAIN pools |->
        LET p == pools[i]
            index == pp.base - p.base
        IN  IF ~range_in_range(pp.base, 1, p.base, p.num_pages) THEN p
            ELSE IF all_clrs(pp.colors)
            THEN [p EXCEPT !.bitmap = bitmap_clear_consecutive(@, index, pp.num_pages)]
            ELSE [p EXCEPT !.bitmap =
                    @ \ ColoredIndexes(p.base, index, pp.colors, pp.num_pages)]]

----------------------------------------------------------------------------
(* Reservation of pages at given addresses, during boot.                    *)

mem_ppages_in_pool(p, pp) == range_in_range(pp.base, pp.num_pages, p.base, p.num_pages)

mem_are_ppages_reserved_in_pool(p, pp) ==
    LET pageoff == pp.base - p.base
    IN  /\ mem_ppages_in_pool(p, pp)
        /\ \/ pageoff \in p.bitmap
           \/ bitmap_count_consecutive(p.bitmap, p.num_pages, pageoff, pp.num_pages)
                < pp.num_pages

CanReserve(p, pp) == mem_ppages_in_pool(p, pp) /\ ~mem_are_ppages_reserved_in_pool(p, pp)

mem_reserve_ppool_ppages(p, pp) ==
    IF ~CanReserve(p, pp) THEN p
    ELSE [p EXCEPT !.bitmap = bitmap_set_consecutive(@, pp.base - p.base, pp.num_pages),
                   !.free = @ - pp.num_pages]

(* A pool that is still empty; "used" bytes of bitmaps are taken.           *)
BitmapBytes(pages) == (pages + BITS_PER_BYTE - 1) \div BITS_PER_BYTE

pp_bitmap_alloc(used, pages) == (PLAT_BITMAP_POOL_SIZE - used) * BITS_PER_BYTE >= pages

pp_init(base, pages) ==
    [base |-> base, num_pages |-> pages, free |-> pages, last |-> 0, bitmap |-> {}]

=============================================================================
