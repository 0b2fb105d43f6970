----------------------------- MODULE AddrSpace -----------------------------
(***************************************************************************)
(* Address spaces of a platform with an MMU (mmu/mem.c, page_table.c), as   *)
(* functions of the memory record                                           *)
(*                                                                          *)
(*   m.pools  the page pools            m.as[a]  the address spaces         *)
(*   m.data   what every page holds     m.err    an ERROR or a fault        *)
(*                                                                          *)
(* Virtual addresses count pages too.  A page table is a function of the    *)
(* entries that exist, <<level, index from the start of the space>>: an     *)
(* entry that points to a table has its children in the domain.  All tables *)
(* below the root have ENTRIES entries and fill one page.                   *)
(* A CPU takes the locks of the address space and of the section for the    *)
(* whole of a walk, and the entries it touches are its own; so a walk is    *)
(* one step, and the pools are what the CPUs compete for.                   *)
(***************************************************************************)
EXTENDS PagePool, TLC

CONSTANTS
    LVLS,          \* levels of the page tables
    LVL_TERM,      \* LVL_TERM[lvl]: a level may hold superpages
    ENTRIES,       \* entries of a table below the root
    HYP_ENTRIES,   \* entries of the root tables
    VM_ENTRIES,
    VM_ROOT_PAGES, \* pages of a VM's root table
    Sections       \* the sections of each kind of address space

INVALID_VA == -1
NONE == [none |-> TRUE]      \* a NULL struct ppages*

Lvls == 0 .. LVLS - 1
LastLvl == LVLS - 1

pt_lvlsize(lvl) == ENTRIES ^ (LastLvl - lvl)

pt_nentries(a, lvl) ==
    IF lvl > 0 THEN ENTRIES ELSE IF a.type = "VM" THEN VM_ENTRIES ELSE HYP_ENTRIES

SpaceSize(a) == pt_nentries(a, 0) * pt_lvlsize(0)

Invalid == [t |-> "inv", pa |-> 0, rsv |-> FALSE]
Table(pa) == [Invalid EXCEPT !.t = "tab", !.pa = pa]
Leaf(pa)  == [Invalid EXCEPT !.t = "leaf", !.pa = pa]

Entry(lvl, va) == <<lvl, va \div pt_lvlsize(lvl)>>
VaOf(e) == e[2] * pt_lvlsize(e[1])
Exists(a, lvl, va) == Entry(lvl, va) \in DOMAIN a.pt
Pte(a, lvl, va) == a.pt[Entry(lvl, va)]
LastOfTable(a, lvl, va) == (va \div pt_lvlsize(lvl) + 1) % pt_nentries(a, lvl) = 0

Children(e) == {<<e[1] + 1, k>> : k \in Range1(e[2] * ENTRIES, ENTRIES)}

(* The entries reached through e.                                           *)
Below(pt, e) ==
    {x \in DOMAIN pt : x[1] > e[1] /\ x[2] \div ENTRIES ^ (x[1] - e[1]) = e[2]}

pte_set(pt, e, pte) == [x \in DOMAIN pt \ Below(pt, e) |-> IF x = e THEN pte ELSE pt[x]]

(* ERROR never returns, and neither does the fault of a missing table.      *)
Fail(m) == [m EXCEPT !.err = TRUE]

mem_find_sec(a, va) ==
    {s \in DOMAIN Sections[a.type] :
        va >= Sections[a.type][s].beg /\ va <= Sections[a.type][s].end}

(* mem_translate: the set of the page at va, empty if nothing is mapped.    *)
mem_translate(a, va) ==
    {(a.pt[e].pa \div pt_lvlsize(e[1])) * pt_lvlsize(e[1]) + (va - VaOf(e)) :
        e \in {e \in DOMAIN a.pt : a.pt[e].t = "leaf" /\ e = Entry(e[1], va)}}

Tables(a) == {a.pt[e].pa : e \in {e \in DOMAIN a.pt : a.pt[e].t = "tab"}}

----------------------------------------------------------------------------
(* Tables.                                                                  *)

pte_allocable(lvl, left, addr) ==
    \/ lvl = LastLvl
    \/ LVL_TERM[lvl] /\ pt_lvlsize(lvl) <= left /\ addr % pt_lvlsize(lvl) = 0

SetTable(m, a, e, got) ==
    IF got.pages.num_pages = 0 THEN Fail(m)
    ELSE [m EXCEPT !.pools = got.pools, !.data[got.pages.base] = "table",
                   !.as[a].pt = pte_set(@, e, Table(got.pages.base)) @@
                       [x \in Children(e) |-> [Invalid EXCEPT !.rsv = m.as[a].pt[e].rsv]]]

mem_alloc_pt(m, a, lvl, va) ==
    SetTable(m, a, Entry(lvl, va), mem_alloc_ppages(m.pools, m.as[a].colors, 1, FALSE))

(* A superpage or a free entry becomes a table that maps the same.          *)
Repeat(m, a, e, pte) ==
    IF m.err \/ pte.t = "inv" THEN m
    ELSE [m EXCEPT !.as[a].pt =
             [x \in Children(e) |-> Leaf(pte.pa + (VaOf(x) - VaOf(e)))] @@ @]

mem_expand_pte(m, a, va, lvl) ==
    IF m.err \/ lvl >= LastLvl \/ ~Exists(m.as[a], lvl, va) \/ Pte(m.as[a], lvl, va).t = "tab"
    THEN m
    ELSE Repeat(mem_alloc_pt(m, a, lvl, va), a, Entry(lvl, va), Pte(m.as[a], lvl, va))

(* Every entry of the range becomes a table, down to the last level; an     *)
(* entry is looked for every pt_lvlsize pages from va.                      *)
mem_inflate_pt(m, a, va, n) ==
    LET Steps(lvl) == (n + pt_lvlsize(lvl) - 1) \div pt_lvlsize(lvl)
        Level[lvl \in Nat, k \in Nat] ==      \* k entries of level lvl are done
            IF k > 0 THEN mem_expand_pte(Level[lvl, k - 1], a,
                                         va + (k - 1) * pt_lvlsize(lvl), lvl)
            ELSE IF lvl = 0 THEN m ELSE Level[lvl - 1, Steps(lvl - 1)]
    IN  Level[LastLvl, 0]

----------------------------------------------------------------------------
(* Virtual addresses.                                                       *)

(* The search of mem_alloc_vpage: what it makes of the entry it is at, and  *)
(* where it goes next.                                                      *)
Visit(w, a, at, n) ==
    LET pte == Pte(w.m.as[a], w.lvl, w.addr)
    IN  IF pte.rsv \/ pte.t = "leaf"
        THEN [w EXCEPT !.count = 0, !.vpage = INVALID_VA, !.failed = at # INVALID_VA]
        ELSE IF pte.t # "inv" THEN w
        ELSE IF pte_allocable(w.lvl, n - w.count, w.addr)
        THEN [w EXCEPT !.count = @ + pt_lvlsize(w.lvl),
                       !.vpage = IF w.count = 0 THEN w.addr ELSE @]
        ELSE [w EXCEPT !.m = mem_alloc_pt(@, a, w.lvl, w.addr)]

Onward(w, a) ==
    LET next == [w EXCEPT !.addr = @ + pt_lvlsize(w.lvl), !.fresh = FALSE]
    IN  IF w.failed \/ w.m.err THEN w
        ELSE IF Pte(w.m.as[a], w.lvl, w.addr).t = "tab"
        THEN [w EXCEPT !.lvl = @ + 1, !.fresh = TRUE]
        ELSE IF LastOfTable(w.m.as[a], w.lvl, w.addr)
        THEN [next EXCEPT !.lvl = 0, !.fresh = TRUE]
        ELSE next

(* The space that is left is only looked at when a table is entered.        *)
RECURSIVE FindVpage(_, _, _, _, _)
FindVpage(w, a, top, at, n) ==
    IF w.count >= n \/ w.failed \/ w.m.err THEN w
    ELSE IF w.fresh /\ ~(w.addr = 0 /\ top + 1 = SpaceSize(w.m.as[a])) /\ top + 1 - w.addr < n
    THEN [w EXCEPT !.vpage = INVALID_VA, !.failed = TRUE]
    ELSE FindVpage(Onward(Visit(w, a, at, n), a), a, top, at, n)

Reserve(pt, va, n) ==
    [e \in DOMAIN pt |->
        IF pt[e].t = "inv" /\ VaOf(e) < va + n /\ VaOf(e) + pt_lvlsize(e[1]) > va
        THEN [pt[e] EXCEPT !.rsv = TRUE] ELSE pt[e]]

(* The address at which n pages are now reserved, and the memory.           *)
NoVpage(m) == [m |-> m, va |-> INVALID_VA]

Claim(w, a, n) ==
    IF w.vpage = INVALID_VA \/ w.failed \/ w.m.err THEN NoVpage(w.m)
    ELSE [m |-> [w.m EXCEPT !.as[a].pt = Reserve(@, w.vpage, n)], va |-> w.vpage]

mem_alloc_vpage(m, a, section, at, n) ==
    LET sec == Sections[m.as[a].type][section]
        from == IF at # INVALID_VA THEN at ELSE sec.beg
    IN  IF m.err \/ (at # INVALID_VA /\ section \notin mem_find_sec(m.as[a], at)) \/ from > sec.end
        THEN NoVpage(m)
        ELSE Claim(FindVpage([m |-> m, lvl |-> 0, addr |-> from, count |-> 0,
                              vpage |-> INVALID_VA, failed |-> FALSE, fresh |-> TRUE],
                             a, sec.end, at, n), a, n)

----------------------------------------------------------------------------
(* Mapping.                                                                 *)

(* Mutant: a superpage is made of any pages.                                *)
MappableAnywhere(pte, lvl, left, va, pa) ==
    pte.t = "inv" /\ pt_lvlsize(lvl) <= left /\ va % pt_lvlsize(lvl) = 0

pt_pte_mappable(pte, lvl, left, va, pa) ==
    /\ pte.t = "inv"
    /\ pt_lvlsize(lvl) <= left
    /\ va % pt_lvlsize(lvl) = 0
    /\ pa % pt_lvlsize(lvl) = 0

(* The level at which va can be mapped, with the tables down to there.      *)
RECURSIVE Descend(_, _, _, _, _, _)
Descend(m, a, va, left, pa, lvl) ==
    LET pte == Pte(m.as[a], lvl, va)
    IN  IF m.err \/ lvl = LVLS THEN [m |-> Fail(m), lvl |-> LastLvl]
        ELSE IF ~Exists(m.as[a], lvl, va) THEN [m |-> Fail(m), lvl |-> lvl]
        ELSE IF ~LVL_TERM[lvl] \/ pte.t = "tab" THEN Descend(m, a, va, left, pa, lvl + 1)
        ELSE IF pt_pte_mappable(pte, lvl, left, va, pa) THEN [m |-> m, lvl |-> lvl]
        ELSE IF pte.t = "leaf" THEN [m |-> Fail(m), lvl |-> lvl]
        ELSE Descend(mem_alloc_pt(m, a, lvl, va), a, va, left, pa, lvl + 1)

(* The entries of one table, as long as a whole entry is left.  Pages that  *)
(* are not given (pp = NONE) are allocated; where no superpage can be had   *)
(* the walk starts again one level further down.                            *)
RECURSIVE Fill(_, _, _, _, _, _, _)
RECURSIVE Walk(_, _, _, _, _, _)

Finer(m, a, va, left, pp, lvl) ==
    IF lvl = LastLvl THEN Fail(m)
    ELSE Walk(IF Pte(m.as[a], lvl, va).t = "inv" THEN mem_alloc_pt(m, a, lvl, va) ELSE m,
              a, va, 0, left, pp)

SetEntry(m, a, va, pa, lvl) == [m EXCEPT !.as[a].pt = pte_set(@, Entry(lvl, va), Leaf(pa))]

GoOn(m, a, va, pa, left, pp, lvl) ==
    IF LastOfTable(m.as[a], lvl, va - pt_lvlsize(lvl)) THEN Walk(m, a, va, pa, left, pp)
    ELSE Fill(m, a, va, pa, left, pp, lvl)

FillWith(m, a, va, left, pp, lvl, got, size) ==
    IF got.pages.num_pages < size THEN Finer(m, a, va, left, pp, lvl)
    ELSE GoOn(SetEntry([m EXCEPT !.pools = got.pools], a, va, got.pages.base, lvl),
              a, va + size, got.pages.base + size, left - size, pp, lvl)

Fill(m, a, va, pa, left, pp, lvl) ==
    IF left = 0 THEN m
    ELSE IF left < pt_lvlsize(lvl) THEN Walk(m, a, va, pa, left, pp)
    ELSE FillWith(m, a, va, left, pp, lvl,
             IF pp = NONE THEN mem_alloc_ppages(m.pools, m.as[a].colors, pt_lvlsize(lvl), TRUE)
             ELSE [pools |-> m.pools, pages |-> mem_ppages_get(pa, pt_lvlsize(lvl))],
             pt_lvlsize(lvl))

FillFrom(d, a, va, pa, left, pp) ==
    IF d.m.err THEN d.m ELSE Fill(d.m, a, va, pa, left, pp, d.lvl)

Walk(m, a, va, pa, left, pp) ==
    IF left = 0 \/ m.err THEN m
    ELSE FillFrom(Descend(m, a, va, left, IF pp = NONE THEN 0 ELSE pa, 0), a, va, pa, left, pp)

SetLeaves(m, a, leaves) ==
    IF m.err \/ ~(DOMAIN leaves \subseteq DOMAIN m.as[a].pt) THEN Fail(m)
    ELSE [m EXCEPT !.as[a].pt = leaves @@ @]

LeavesAt(va, page) ==
    [e \in {Entry(LastLvl, va + i) : i \in DOMAIN page} |-> Leaf(page[e[2] - va])]

(* One page after the other, the pages of pp's colours.                     *)
MapColored(m, a, va, pp) ==
    SetLeaves(mem_inflate_pt(m, a, va, pp.num_pages), a,
              LeavesAt(va, [i \in 0 .. pp.num_pages - 1 |->
                               pp.base + NthColored(pp.base, 0, pp.colors, i)]))

MapPages(m, a, va, pp, n) ==
    IF pp # NONE /\ ~all_clrs(pp.colors) THEN MapColored(m, a, va, pp)
    ELSE Walk(m, a, va, IF pp = NONE THEN 0 ELSE pp.base, n, pp)

(* Pages of the address space's colours, when none are given and it has     *)
(* colours.                                                                 *)
MapFresh(m, a, va, n, got) ==
    IF got.pages # NONE /\ got.pages.num_pages < n THEN Fail(m)
    ELSE MapPages([m EXCEPT !.pools = got.pools], a, va, got.pages, n)

InOneSection(a, va, n) ==
    mem_find_sec(a, va) # {} /\ mem_find_sec(a, va) = mem_find_sec(a, va + n - 1)

mem_map(m, a, va, ppages, n) ==
    IF m.err \/ ~InOneSection(m.as[a], va, n) THEN m
    ELSE MapFresh(m, a, va, n,
             IF ppages = NONE /\ ~all_clrs(m.as[a].colors)
             THEN mem_alloc_ppages(m.pools, m.as[a].colors, n, FALSE)
             ELSE [pools |-> m.pools, pages |-> ppages])

MapAt(v, a, ppages, n) ==
    IF v.va = INVALID_VA THEN v ELSE [v EXCEPT !.m = mem_map(@, a, v.va, ppages, n)]

mem_alloc_map(m, a, section, ppages, at, n) ==
    MapAt(mem_alloc_vpage(m, a, section, at, n), a, ppages, n)

(* A table entry that was reached from inside a table is looked at again    *)
(* from the outer loop; leaving a table goes up one level.                  *)
RECURSIVE Unmap(_, _, _, _, _, _, _)
Unmap(m, a, va, top, free, lvl, inner) ==
    LET e == Entry(lvl, va)
        pte == m.as[a].pt[e]
        size == pt_lvlsize(lvl)
        gone == [m EXCEPT !.as[a].pt[e] = Invalid,
                          !.pools = IF free THEN mem_free_ppages(@, mem_ppages_get(pte.pa, size))
                                    ELSE @]
    IN  IF m.err \/ va >= top THEN m
        ELSE IF lvl \notin Lvls \/ e \notin DOMAIN m.as[a].pt THEN Fail(m)
        ELSE IF pte.t = "inv" /\ ~inner THEN Unmap(m, a, va + size, top, free, lvl, FALSE)
        ELSE IF pte.t = "tab" THEN Unmap(m, a, va, top, free, lvl + 1, FALSE)
        ELSE IF va > VaOf(e) \/ top < VaOf(e) + size
        THEN Unmap(mem_expand_pte(m, a, va, lvl), a, va, top, free, lvl + 1, FALSE)
        ELSE IF LastOfTable(m.as[a], lvl, va)
        THEN Unmap(gone, a, va + size, top, free, lvl - 1, FALSE)
        ELSE Unmap(gone, a, va + size, top, free, lvl, TRUE)

mem_unmap(m, a, at, n, free) == Unmap(m, a, at, at + n, free, 0, FALSE)

----------------------------------------------------------------------------
(* Copies between address spaces.                                           *)

(* memcpy through the mappings of address space a.                          *)
Memcpy(m, a, dst, src, n) ==
    LET Page(va) == mem_translate(m.as[a], va)
        To(i) == CHOOSE p \in Page(dst + i) : TRUE
        From(i) == CHOOSE p \in Page(src + i) : TRUE
    IN  IF m.err \/ \E i \in 0 .. n - 1 : Page(dst + i) = {} \/ Page(src + i) = {} THEN Fail(m)
        ELSE [m EXCEPT !.data = [p \in {To(i) : i \in 0 .. n - 1} |->
                                    @[From(CHOOSE i \in 0 .. n - 1 : To(i) = p)]] @@ @]

(* Each leaf of the source is mapped with its own size.                     *)
RECURSIVE CopyLeaves(_, _, _, _, _, _)

(* Mutant: the copy of a leaf begins at the leaf, wherever vas is in it.    *)
CopyFromLeaf(m, from, to, vas, vad, left) ==
    LET as == m.as[from]
        e == CHOOSE e \in DOMAIN as.pt : as.pt[e].t = "leaf" /\ e = Entry(e[1], vas)
        size == Lesser(pt_lvlsize(e[1]), left)
    IN  IF left = 0 \/ m.err THEN m
        ELSE CopyLeaves(mem_map(m, to, vad, mem_ppages_get(as.pt[e].pa, size), size), from, to,
                        vas + size, vad + size, left - size)

CopyLeaves(m, from, to, vas, vad, left) ==
    LET as == m.as[from]
        hits == {e \in DOMAIN as.pt : as.pt[e].t = "leaf" /\ e = Entry(e[1], vas)}
        e == CHOOSE e \in hits : TRUE
        size == Lesser(pt_lvlsize(e[1]), left)
        pages == mem_ppages_get(as.pt[e].pa + (vas - VaOf(e)), size)
    IN  IF left = 0 \/ m.err THEN m
        ELSE IF hits = {} THEN Fail(m)
        ELSE CopyLeaves(mem_map(m, to, vad, pages, size), from, to,
                        vas + size, vad + size, left - size)

CopyAt(v, from, to, vas, n) ==
    IF v.va = INVALID_VA THEN v ELSE [v EXCEPT !.m = CopyLeaves(@, from, to, vas, v.va, n)]

mem_map_cpy(m, from, to, section, vas, vad, n) ==
    CopyAt(mem_alloc_vpage(m, to, section, vad, n), from, to, vas, n)

(* The pages of an image that are not of the address space's colours are    *)
(* copied to pages that are, and freed.                                     *)
HasColor(a, page) == (page \div COLOR_SIZE) % COLOR_NUM \in a.colors

reclrd_num(a, base, n) ==
    (n \div (COLOR_NUM * COLOR_SIZE)) * COLOR_SIZE
        * (COLORMAP_BITS - Cardinality(a.colors \cap Colors))
    + Cardinality({i \in 0 .. (n % (COLOR_NUM * COLOR_SIZE)) - 1 : ~HasColor(a, base + i)})

(* The pages of other colours are copied to the new ones and given back.    *)
GiveBack(m, colors, pp, num, page) ==
    LET old == {i \in DOMAIN page : page[i] # pp.base + i}
    IN  IF m.err THEN m
        ELSE [m EXCEPT
                 !.data = [p \in {page[i] : i \in old} |->
                              @[pp.base + CHOOSE i \in old : page[i] = p]] @@ @,
                 !.pools = mem_free_ppages(@, [base |-> pp.base, num_pages |-> num,
                               colors |-> (0 .. COLORMAP_BITS - 1) \ colors])]

(* The image's own pages of the right colours, and new ones for the others. *)
RecoloredPages(as, pp, new, n) ==
    LET Kept(i) == HasColor(as, pp.base + i)
        Before(i) == Cardinality({j \in 0 .. i - 1 : ~Kept(j)})
    IN  [i \in 0 .. n - 1 |->
            IF Kept(i) THEN pp.base + i
            ELSE new.base + NthColored(new.base, 0, new.colors, Before(i))]

Recolored(m, a, va, pp, num, page) ==
    GiveBack(SetLeaves(m, a, LeavesAt(va, page)), m.as[a].colors, pp, num, page)

Unwindow(m, hyp, new, num, old, n) ==
    mem_unmap(mem_unmap(m, hyp, new, num, FALSE), hyp, old, n, FALSE)

(* Two windows in the CPU's own space: v on the new pages, u on the image.  *)
RecolorFrom(u, v, new, a, hyp, va, pp, n) ==
    IF u.va = INVALID_VA THEN Fail(u.m)
    ELSE Unwindow(Recolored(mem_inflate_pt(mem_map(u.m, hyp, u.va, pp, n), a, va, n),
                            a, va, pp, new.num_pages, RecoloredPages(u.m.as[a], pp, new, n)),
                  hyp, v, new.num_pages, u.va, n)

RecolorTo(v, got, num, a, hyp, va, pp, n) ==
    IF v.va = INVALID_VA \/ got.pages.num_pages < num THEN Fail(v.m)
    ELSE RecolorFrom(mem_alloc_vpage(mem_map([v.m EXCEPT !.pools = got.pools], hyp, v.va,
                                             got.pages, num),
                                     hyp, "HYP_VM", INVALID_VA, n),
                     v.va, got.pages, a, hyp, va, pp, n)

Recolor(v, num, a, hyp, va, pp, n) ==
    RecolorTo(v, mem_alloc_ppages(v.m.pools, v.m.as[a].colors, num, FALSE), num, a, hyp, va, pp, n)

mem_map_reclr(m, a, hyp, va, pp, n) ==
    LET num == reclrd_num(m.as[a], pp.base, n)
    IN  IF m.err THEN m
        ELSE IF all_clrs(m.as[a].colors) \/ num = 0 THEN mem_map(m, a, va, pp, n)
        ELSE Recolor(mem_alloc_vpage(m, hyp, "HYP_VM", INVALID_VA, num), num, a, hyp, va, pp, n)

----------------------------------------------------------------------------
(* New address spaces.                                                      *)

EmptySpace(type, colors) ==
    LET a == [type |-> type, colors |-> colors, pt |-> <<>>]
    IN  [a EXCEPT !.pt = [e \in {<<0, k>> : k \in 0 .. pt_nentries(a, 0) - 1} |-> Invalid]]

(* mem_alloc_page: pages for the hypervisor, mapped for CPU hyp; its        *)
(* callers clear them.                                                      *)
MappedOrFail(v) == IF v.va = INVALID_VA THEN Fail(v.m) ELSE v.m

MapZeroed(m, hyp, n, section, got) ==
    IF m.err \/ got.pages.num_pages # n THEN Fail(m)
    ELSE MappedOrFail(mem_alloc_map(
             [m EXCEPT !.pools = got.pools, !.data = [p \in PagesOf(got.pages) |-> "zero"] @@ @],
             hyp, section, got.pages, INVALID_VA, n))

mem_alloc_page(m, hyp, n, section, aligned) ==
    MapZeroed(m, hyp, n, section, mem_alloc_ppages(m.pools, m.as[hyp].colors, n, aligned))

(* as_init of a VM: its root table is allocated and cleared.                *)
as_init(m, a, hyp, colors) ==
    [mem_alloc_page(m, hyp, VM_ROOT_PAGES, "HYP_VM", TRUE) EXCEPT
        !.as[a] = EmptySpace("VM", colors)]

=============================================================================
