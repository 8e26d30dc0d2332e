--------------------------- MODULE UmdGraphBinary ---------------------------
(***************************************************************************)
(* MainContext::parse_graph of the user-mode driver: the header checks of  *)
(* parse_graph_header, the descriptors of parse_bss_section, the order of  *)
(* the io tensors and the target check.                                    *)
(*                                                                         *)
(* A loadable graph is not a value of the model: every field the parser    *)
(* reads is chosen when it is read, so a behaviour is one parse of one     *)
(* file, and `file' keeps the sub-section descriptors that were read.      *)
(* Offsets and sizes of the header are in units of the header; the bss     *)
(* section is measured in words, with the descriptors' sizes as constants. *)
(***************************************************************************)
EXTENDS Naturals, Sequences, FiniteSets, SequencesExt

CONSTANTS
    Word,       \* 2^32, scaled: header fields are added modulo Word
    BssWords,   \* words of the bss section in one unit of the header
    SubWords,   \* words of a sub_section_desc_v3
    Bounds      \* the families of files to look at, see bound

\* A field of the header is any uint32_t, however small the file is.
ASSUME BinaryAssumption ==
    /\ {Word, BssWords, SubWords} \subseteq Nat \ {0}
    /\ \A b \in Bounds :
        /\ b.fields \subseteq 0..(Word - 1)
        /\ {b.sections, b.subs, b.ro, b.nodes} \subseteq Nat
        /\ b.ids \subseteq Nat
        /\ b.bypass \in BOOLEAN

HdrSize == 1        \* BIN_HDR_SIZE, the unit
BssHdrWords == 4    \* sizeof(bss_hdr_v3_t)
StaticWords == 4    \* sizeof(static_section_desc_v3_t)
ReuseWords == 3     \* sizeof(reuse_section_desc_v3_t)
NodeWords == 4      \* sizeof(list_node_desc_t)

Kinds == {"static", "reuse"}
IoTypes == {"input", "output", "dump"}   \* dump, profile and printf data
Types == IoTypes \cup {"inter"}

VARIABLES
    bound,      \* the family of the file: the values of the header's offsets and
                \* sizes, the largest counts of section descriptors, sub-sections,
                \* rodata places and list nodes, the tensor ids, and
                \* rt_cfg.bypass_version_check
    pc,         \* the statement of the parser
    ret,        \* what it returns
    hdr,        \* the fields of bin_hdr_t read so far
    cur,        \* desc_load_addr, in words from bss_src
    toread,     \* section descriptors left, per kind
    sec,        \* the section being read: its kind, sub_sections, loops
    info,       \* graph_info_t
    nodes,      \* linked list nodes left
    file        \* history: the sub-section descriptors of the file

parse_vars == <<bound, pc, ret, hdr, cur, toread, sec, info, nodes, file>>
bss == <<cur, toread, sec, info, nodes, file>>

NoSec == [kind |-> "static", subs |-> <<>>, subcnt |-> 0, ro |-> 0]

ParseInit ==
    /\ bound \in Bounds
    /\ pc = "parse" /\ ret = "SUCCESS"
    /\ hdr = [size |-> 0, filesize |-> 0, version |-> 0, flag |-> 0,
              entry |-> 0, text |-> 0, text_size |-> 0,
              rodata |-> 0, rodata_size |-> 0, data |-> 0, data_size |-> 0,
              bss |-> 0, bss_size |-> 0]
    /\ cur = 0 /\ toread = [k \in Kinds |-> 0] /\ sec = NoSec /\ nodes = 0
    /\ info = [static |-> <<>>, reuse |-> <<>>, params |-> <<>>,
               input |-> <<>>, output |-> <<>>, dump |-> <<>>, dcr |-> 0]
    /\ file = <<>>

Goto(l) == pc' = l /\ UNCHANGED ret
Fail(s) == pc' = "done" /\ ret' = s

-----------------------------------------------------------------------------
(* parse_graph and parse_graph_header *)

\* parse_graph: the null test and the size of the file that was mapped
ParseGraph ==
    /\ pc = "parse"
    /\ \/ Fail("NULL_PTR") /\ UNCHANGED hdr
       \/ \E s \in bound.fields :
            /\ hdr' = [hdr EXCEPT !.size = s]
            /\ IF s < HdrSize THEN Fail("INVALID_SIZE") ELSE Goto("ident")
    /\ UNCHANGED <<bound, bss>>

\* ident, filesize, version and hdrsize
CheckIdent ==
    /\ pc = "ident"
    /\ \E magic, sizeok \in BOOLEAN, f \in bound.fields, v \in {3, 4, 5}, ll \in {0, 1} :
        /\ hdr' = [hdr EXCEPT !.filesize = f, !.version = v,
                              !.flag = IF v = 4 THEN ll ELSE 0]
        /\ IF ~magic \/ hdr.size < f THEN Fail("INVALID_GBIN")
           ELSE IF v \notin {3, 4} THEN Fail("GVERSION_UNSUPPORTED")
           ELSE IF ~sizeok THEN Fail("INVALID_GBIN")
           ELSE Goto("text")
    /\ UNCHANGED <<bound, bss>>

\* uint32_t addition
Add(a, b) == (a + b) % Word

\* Mutant: an entry at the end of the text is let through.
CheckTextEntry ==
    /\ pc = "text"
    /\ \E e, o, n, r \in bound.fields :
        /\ hdr' = [hdr EXCEPT !.entry = e, !.text = o, !.text_size = n, !.rodata = r]
        /\ IF e > n \/ o < HdrSize \/ Add(o, n) > r \/ n = 0
           THEN Fail("INVALID_GBIN")
           ELSE Goto("rodata")
    /\ UNCHANGED <<bound, bss>>

\* entry, text
CheckText ==
    /\ pc = "text"
    /\ \E e, o, n, r \in bound.fields :
        /\ hdr' = [hdr EXCEPT !.entry = e, !.text = o, !.text_size = n, !.rodata = r]
        /\ IF e >= n \/ o < HdrSize \/ Add(o, n) > r \/ n = 0
           THEN Fail("INVALID_GBIN")
           ELSE Goto("rodata")
    /\ UNCHANGED <<bound, bss>>

\* rodata
CheckRodata ==
    /\ pc = "rodata"
    /\ \E n, d \in bound.fields :
        /\ hdr' = [hdr EXCEPT !.rodata_size = n, !.data = d]
        /\ IF Add(hdr.rodata, n) > d \/ n = 0
           THEN Fail("INVALID_GBIN")
           ELSE Goto("data")
    /\ UNCHANGED <<bound, bss>>

\* data may be empty.
CheckData ==
    /\ pc = "data"
    /\ \E n, b \in bound.fields :
        /\ hdr' = [hdr EXCEPT !.data_size = n, !.bss = b]
        /\ IF Add(hdr.data, n) > b
           THEN Fail("INVALID_GBIN")
           ELSE Goto("bss")
    /\ UNCHANGED <<bound, bss>>

\* bss; the fields are copied to info.
CheckBss ==
    /\ pc = "bss"
    /\ \E n \in bound.fields :
        /\ hdr' = [hdr EXCEPT !.bss_size = n]
        /\ IF Add(hdr.bss, n) > hdr.filesize \/ n = 0
           THEN Fail("INVALID_GBIN")
           ELSE Goto("bss_hdr")
    /\ UNCHANGED <<bound, bss>>

-----------------------------------------------------------------------------
(* parse_bss_section *)

\* umd_is_valid_ptr(load_lb, load_ub, desc_load_addr, n)
LoadUb == BssHdrWords + hdr.bss_size * BssWords
IsValidPtr(n) == cur + n < LoadUb

\* bss_header; stack size and alignment must not be 0.
BssHeader ==
    /\ pc = "bss_hdr"
    /\ \E stack \in BOOLEAN, s, r \in 0..bound.sections :
        /\ IF ~stack \/ r = 0 THEN Fail("INVALID_GBIN") ELSE Goto("section")
        /\ toread' = [static |-> s, reuse |-> r]
    /\ cur' = BssHdrWords
    /\ UNCHANGED <<bound, hdr, sec, info, nodes, file>>

\* The static descriptors come first.
Kind == IF toread["static"] > 0 THEN "static" ELSE "reuse"
SectionWords(k) == IF k = "static" THEN StaticWords ELSE ReuseWords

\* The head of both loops: read the next section descriptor.
ReadSection ==
    /\ pc = "section"
    /\ toread[Kind] > 0
    /\ IF IsValidPtr(SectionWords(Kind))
       THEN \E n \in 0..bound.subs :
            /\ sec' = [kind |-> Kind, subs |-> <<>>, subcnt |-> n, ro |-> 0]
            /\ toread' = [toread EXCEPT ![Kind] = @ - 1]
            /\ cur' = cur + SectionWords(Kind)
            /\ Goto("sub")
       ELSE Fail("INVALID_GBIN") /\ UNCHANGED <<cur, toread, sec>>
    /\ UNCHANGED <<bound, hdr, info, nodes, file>>

\* ref_section_iter and ref_sub_section_iter, from 0
SecIter == Len(info[sec.kind])
SubIter == Len(sec.subs)

Tensor(d) == [id |-> d.id, sec |-> d.sec, off |-> d.off]

\* fill_io_tensor_desc_inner, for the io types of a reuse section
FillIoTensorDesc(d) ==
    IF d.kind = "reuse" /\ d.type \in IoTypes
    THEN [info EXCEPT ![d.type] = Append(@, Tensor(d))]
    ELSE info

SubsLeft == SubIter < sec.subcnt

\* The inner loop: a sub-section, and how often its address is loaded
ReadSubSection ==
    /\ pc = "sub"
    /\ SubsLeft
    /\ IF IsValidPtr(SubWords)
       THEN \E t \in Types, i \in bound.ids, o \in {0, 1}, n \in 0..bound.ro :
            LET d == [kind |-> sec.kind, sec |-> SecIter, sub |-> SubIter,
                      type |-> t, id |-> i, off |-> o, ro |-> n]
            IN /\ (sec.kind = "static" => t = "inter")
               /\ (t = "inter" => i = 0)
               /\ file' = Append(file, d)
               /\ info' = FillIoTensorDesc(d)
               /\ sec' = [sec EXCEPT !.subs = Append(@, o), !.ro = n]
               /\ cur' = cur + SubWords
               /\ Goto("ro")
       ELSE Fail("INVALID_GBIN") /\ UNCHANGED <<cur, sec, info, file>>
    /\ UNCHANGED <<bound, hdr, toread, nodes>>

\* Mutant: the entry counts the sub-sections from 1.
ParamOneTooFar ==
    [type |-> sec.kind, sec |-> SecIter, sub |-> Len(sec.subs), off |-> Last(sec.subs)]

\* param.init
Param ==
    [type |-> sec.kind, sec |-> SecIter, sub |-> Len(sec.subs) - 1,
     off |-> Last(sec.subs)]

\* One place in rodata for the current sub-section
ReadRoEntry ==
    /\ pc = "ro"
    /\ sec.ro > 0
    /\ IF IsValidPtr(1)
       THEN /\ info' = [info EXCEPT !.params = Append(@, Param)]
            /\ sec' = [sec EXCEPT !.ro = @ - 1]
            /\ cur' = cur + 1
            /\ Goto("ro")
       ELSE Fail("INVALID_GBIN") /\ UNCHANGED <<cur, sec, info>>
    /\ UNCHANGED <<bound, hdr, toread, nodes, file>>

EndSubSection ==
    /\ pc = "ro"
    /\ sec.ro = 0
    /\ Goto("sub")
    /\ UNCHANGED <<bound, hdr, bss>>

\* push_back of section_ir
EndSection ==
    /\ pc = "sub"
    /\ ~SubsLeft
    /\ info' = [info EXCEPT ![sec.kind] = Append(@, sec.subs)]
    /\ Goto("section")
    /\ UNCHANGED <<bound, hdr, cur, toread, sec, nodes, file>>

EndSections ==
    /\ pc = "section"
    /\ toread["static"] = 0 /\ toread["reuse"] = 0
    /\ Goto(IF hdr.version = 4 /\ hdr.flag = 1 THEN "list" ELSE "sort")
    /\ UNCHANGED <<bound, hdr, bss>>

\* The descriptor of the linked list, version 4 only
ReadList ==
    /\ pc = "list"
    /\ IF IsValidPtr(1)
       THEN \E n \in 0..bound.nodes :
            /\ nodes' = n
            /\ cur' = cur + 1
            /\ IF n = 0 THEN Fail("INVALID_GBIN") ELSE Goto("node")
       ELSE Fail("INVALID_GBIN") /\ UNCHANGED <<cur, nodes>>
    /\ UNCHANGED <<bound, hdr, toread, sec, info, file>>

\* The nodes; the code does not test the address here.
ReadNode ==
    /\ pc = "node"
    /\ IF nodes > 0
       THEN /\ info' = [info EXCEPT !.dcr = @ + 1]
            /\ cur' = cur + NodeWords
            /\ nodes' = nodes - 1
            /\ Goto("node")
       ELSE Goto("sort") /\ UNCHANGED <<info, cur, nodes>>
    /\ UNCHANGED <<bound, hdr, toread, sec, file>>

-----------------------------------------------------------------------------
(* sort_io_tensor *)

\* The loop stops at the first id that is too large.
SortSteps(ts) ==
    {i \in DOMAIN ts : \A k \in 1..i : ts[k].id < Len(ts)}

\* Mutant: the tensors are moved without the copy tensors_tmp.
SortInPlace(ts) ==
    FoldLeftDomain(LAMBDA acc, i :
        IF i \in SortSteps(ts) /\ acc[i].id # i - 1
        THEN [acc EXCEPT ![acc[i].id + 1] = acc[i]] ELSE acc, ts, ts)

\* The tensors of tensors_tmp that the loop stores at a place they are not at
StoredAt(ts, p) == {i \in SortSteps(ts) : ts[i].id = p - 1 /\ i # p}

\* What is stored last stays.
Sort(ts) ==
    [p \in DOMAIN ts |->
        IF StoredAt(ts, p) = {} THEN ts[p] ELSE ts[Max(StoredAt(ts, p))]]

SortFails(ts) == SortSteps(ts) # DOMAIN ts

\* The outputs, then the inputs.  What sort_io_tensor returns ends the
\* function and is not assigned to ret.
SortIoTensors ==
    /\ pc = "sort"
    /\ info' = [info EXCEPT !.output = Sort(@),
                            !.input = IF SortFails(info.output) THEN @ ELSE Sort(@)]
    /\ Goto("match")
    /\ UNCHANGED <<bound, hdr, cur, toread, sec, nodes, file>>

\* match_target_dev, or the check is bypassed
MatchTargetDev ==
    /\ pc = "match"
    /\ \E match \in BOOLEAN :
        IF match \/ bound.bypass THEN Goto("done") ELSE Fail("TARGET_NOT_FOUND")
    /\ UNCHANGED <<bound, hdr, bss>>

-----------------------------------------------------------------------------
ParseNext ==
    \/ ParseGraph \/ CheckIdent \/ CheckText \/ CheckRodata \/ CheckData \/ CheckBss
    \/ BssHeader \/ ReadSection \/ ReadSubSection \/ ReadRoEntry
    \/ EndSubSection \/ EndSection \/ EndSections
    \/ ReadList \/ ReadNode \/ SortIoTensors \/ MatchTargetDev

ParseSpec == ParseInit /\ [][ParseNext]_parse_vars

-----------------------------------------------------------------------------
(* Properties *)

Accepted == pc = "done" /\ ret = "SUCCESS"

\* The parts of a graph that is accepted, as intervals
Part(o, n) == o..(o + n - 1)
Sections ==
    <<Part(0, HdrSize), Part(hdr.text, hdr.text_size),
      Part(hdr.rodata, hdr.rodata_size), Part(hdr.data, hdr.data_size),
      Part(hdr.bss, hdr.bss_size)>>

\* What the checks take for granted: the end of every part is a uint32_t.
EndsFit ==
    /\ hdr.text + hdr.text_size < Word /\ hdr.rodata + hdr.rodata_size < Word
    /\ hdr.data + hdr.data_size < Word /\ hdr.bss + hdr.bss_size < Word

\* The header, the text, the rodata, the data and the bss of a graph that
\* passes the header's checks do not overlap, lie in the file that was mapped,
\* and execution starts inside the text, unless one of the sums the checks
\* compare has wrapped: then parse_graph_header lets the graph through.
SectionsInFile ==
    pc = "bss_hdr" /\ EndsFit =>
        /\ \A i, j \in DOMAIN Sections :
            /\ i # j => Sections[i] \cap Sections[j] = {}
            /\ Sections[i] \subseteq 0..(hdr.size - 1)
        /\ hdr.text + hdr.entry \in Part(hdr.text, hdr.text_size)

\* What build_new_job refuses when it is not so, and create_iobuf_info indexes
\* without looking: every entry of the parameter map and every io tensor refers
\* to a section and a sub-section of the graph, with the offset of that
\* sub-section.
RefsInRange == Accepted =>
    /\ \A i \in DOMAIN info.params : LET p == info.params[i] IN
        /\ p.sec < Len(info[p.type])
        /\ p.sub < Len(info[p.type][p.sec + 1])
        /\ p.off = info[p.type][p.sec + 1][p.sub + 1]
    /\ \A t \in IoTypes : \A i \in DOMAIN info[t] :
        info[t][i].sec < Len(info["reuse"])

\* The descriptors of the file's tensors of a type
Described(t) == {k \in DOMAIN file : file[k].kind = "reuse" /\ file[k].type = t}
IdsArePermutation(t) ==
    {file[k].id : k \in Described(t)} = 0..(Cardinality(Described(t)) - 1)

\* The application numbers inputs and outputs by their ids: when the file's
\* ids are 0..n-1, in any order, tensor number i is the one with id i, no
\* tensor is lost and none appears twice.
TensorsById == Accepted => \A t \in {"input", "output"} :
    (IdsArePermutation("output") /\ IdsArePermutation(t)) =>
        /\ Len(info[t]) = Cardinality(Described(t))
        /\ \A i \in DOMAIN info[t] :
            /\ info[t][i].id = i - 1
            /\ \E k \in Described(t) : info[t][i] = Tensor(file[k])
=============================================================================
