---------------------------- MODULE MCElfLoader ----------------------------
(* Files of up to two headers: segments that end inside a page, on its   *)
(* end, or in the middle of the next page; that meet each other, the       *)
(* driver, the kernel and the stack; and headers that are not segments.    *)
EXTENDS DriverLoader

HeaderAt(va, filesz, memsz) == [load |-> TRUE, va |-> va, filesz |-> filesz, memsz |-> memsz]
MCFirst == {[load |-> FALSE, va |-> 0, filesz |-> 0, memsz |-> 0],
            HeaderAt(8, 4, 4),      \* the driver's
            HeaderAt(12, 1, 2),   \* between two of its segments
            HeaderAt(16, 4, 4), HeaderAt(16, 2, 3), HeaderAt(20, 0, 9),
            HeaderAt(27, 1, 2)}     \* ends in the next page
MCSecond == {HeaderAt(4, 1, 1),     \* the kernel's
             HeaderAt(8, 4, 4), HeaderAt(16, 4, 4), HeaderAt(20, 0, 9), HeaderAt(23, 2, 2)}
MCPrograms == {<<>>, <<HeaderAt(0, 1, 1)>>}   \* (the null page)
              \cup {<<h>> : h \in MCFirst} \cup (MCFirst \X MCSecond)

-----------------------------------------------------------------------------
(* Driver files of one and two segments: in one page, across its end, in   *)
(* each other's way, larger than the memory; .dynamic in a segment, before *)
(* the first one, in none, or missing; each table of relocations or both, with      *)
(* entries in a segment, outside of all, or of an unknown type.            *)
Segment(va, filesz, memsz) == [kind |-> "load", va |-> va, filesz |-> filesz, memsz |-> memsz]
DynamicAt(va) == [kind |-> "dynamic", va |-> va, filesz |-> 1, memsz |-> 1]
Entry(tag, val) == [tag |-> tag, val |-> val]
Rel(type, offset) == [type |-> type, offset |-> offset]

Layouts == {<<Segment(0, 3, 5), DynamicAt(4)>>,
            <<Segment(0, 3, 4), Segment(7, 1, 2), DynamicAt(7)>>,
            <<Segment(0, 3, 5), Segment(6, 1, 2), DynamicAt(4)>>,
            <<Segment(0, 3, 4), Segment(8, 1, 2), DynamicAt(8)>>,
            <<Segment(4, 3, 3), [kind |-> "other", va |-> 0, filesz |-> 0, memsz |-> 0],
              Segment(0, 4, 4), DynamicAt(4)>>,
            <<DynamicAt(0), Segment(0, 4, 8)>>,
            <<Segment(0, 4, 4), DynamicAt(20)>>,
            <<Segment(0, 4, 60), DynamicAt(0)>>,
            <<Segment(0, 4, 4)>>}
\* (Two entries of REL, one of RELA.)
RelTags == <<Entry("rel", 1), Entry("relsz", 16), Entry("relent", 8)>>
RelaTags == <<Entry("rela", 1), Entry("relasz", 12), Entry("relaent", 12)>>
Tags == {RelTags, RelTags \o RelaTags, RelaTags \o <<Entry("null", 0), Entry("needed", 0)>>,
         <<Entry("needed", 0)>> \o RelTags, <<Entry("soname", 0)>>, <<Entry("null", 0)>>,
         <<Entry("rel", 1), Entry("relsz", 16), Entry("relent", 4)>>}
TablePairs == {<< <<>>, <<>> >>, << <<>>, <<Rel("relative", 1)>> >>,
               << <<Rel("relative", 1), Rel("none", 0)>>, <<>> >>,
               << <<Rel("relative", 1), Rel("32", 2)>>, <<Rel("relative", 0)>> >>,
               << <<Rel("32", 2), Rel("pc32", 0)>>, <<>> >>,
               << <<Rel("32", 2), Rel("other", 1)>>, <<>> >>,
               << <<Rel("relative", 1), Rel("relative", 40)>>, <<Rel("other", 2)>> >>}
\* Every table is listed by its tags.
Names(tags, tag) == \E i \in DOMAIN tags : tags[i].tag = tag
Agrees(tags, tables) == /\ tables[1] # <<>> <=> Names(tags, "rel")
                        /\ tables[2] # <<>> <=> Names(tags, "rela")
Good == [type |-> "executable", headers |-> <<Segment(0, 3, 5), DynamicAt(4)>>,
         dynamic |-> RelTags, rel |-> <<Rel("relative", 1), Rel("none", 0)>>, rela |-> <<>>,
         strings |-> TRUE, driver |-> "verified"]
MCDriverFiles ==
  {[Good EXCEPT !.headers = l, !.dynamic = tp[1], !.rel = tp[2][1], !.rela = tp[2][2]] :
      l \in Layouts, tp \in {x \in Tags \X TablePairs : Agrees(x[1], x[2])}}
  \cup {[Good EXCEPT !.type = t] : t \in {"not_elf", "other"}}
  \cup {[Good EXCEPT !.strings = FALSE]}
  \cup {[Good EXCEPT !.driver = d] : d \in {"none", "unverified"}}
=============================================================================
