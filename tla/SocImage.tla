------------------------------ MODULE SocImage ------------------------------
(***************************************************************************)
(* tools/soc_image.py turns the firmware's ELF file into the images of the  *)
(* two memories: parse_elf reads the section headers one after the other    *)
(* and refuses a file whose sections lie outside the memories or over each  *)
(* other, build_images copies the sections into zeroed images.              *)
(*                                                                         *)
(* The content of a section is abstracted to where it comes from: byte k of *)
(* section i is <<i, k>>.                                                  *)
(***************************************************************************)
EXTENDS Integers, Sequences, Functions

CONSTANTS Headers,                             \* the section headers a file may have
          MaxSections,                         \* bound: headers in a file
          IMEM_LIMIT, DMEM_BASE, DMEM_LIMIT

HeaderFields ==
  [alloc : BOOLEAN,     \* SHF_ALLOC: the section is part of the program
   bits : BOOLEAN,      \* it has content, it is not SHT_NOBITS
   inside : BOOLEAN,    \* the file is long enough for its name and content
   address : Nat, size : Nat]

Addresses == 0 .. IMEM_LIMIT - 1 \union DMEM_BASE .. DMEM_LIMIT - 1

End(h) == h.address + h.size
in_imem(h) == End(h) <= IMEM_LIMIT
in_dmem(h) == DMEM_BASE <= h.address /\ End(h) <= DMEM_LIMIT
Acceptable(h) == h.inside /\ (h.alloc => in_imem(h) \/ in_dmem(h))
Covers(h, a) == h.address <= a /\ a < End(h)
\* Two sections share an address.
Overlap(g, h) == g.address < End(h) /\ h.address < End(g)
NonEmpty(h) == h.alloc /\ h.size > 0

VARIABLES elf,         \* the headers of the file, in its order
          step, at,    \* the loop the tool is in, and its index
          sections,    \* the allocated sections
          ranges,      \* those of them that are not empty
          image        \* what each address of the two memories will hold
vars == <<elf, step, at, sections, ranges, image>>

Zero == << >>

Reject == step' = "rejected" /\ UNCHANGED <<elf, at, sections, ranges, image>>
NextIndex == at' = at + 1 /\ UNCHANGED <<elf, step>>
Enter(loop) == step' = loop /\ at' = 1 /\ UNCHANGED elf

(* for header in headers[1:] *)
ReadHeader ==
  /\ step = "headers" /\ at \in DOMAIN elf
  /\ \/ ~Acceptable(elf[at]) /\ Reject
     \/ /\ Acceptable(elf[at]) /\ ~elf[at].alloc
        /\ NextIndex /\ UNCHANGED <<sections, ranges, image>>
     \/ /\ Acceptable(elf[at]) /\ elf[at].alloc
        /\ sections' = Append(sections, at)
        /\ ranges' = IF elf[at].size > 0 THEN Append(ranges, at) ELSE ranges
        /\ NextIndex /\ UNCHANGED image

(* ranges.sort().  Two ranges with one address overlap in either order.     *)
Ascending(s) == \A i, j \in DOMAIN s : i <= j => elf[s[i]].address <= elf[s[j]].address
Sort ==
  /\ step = "headers" /\ at = Len(elf) + 1
  /\ \E p \in Bijection(DOMAIN ranges, DOMAIN ranges) :
       ranges' = [i \in DOMAIN ranges |-> ranges[p[i]]]
  /\ Ascending(ranges')
  /\ Enter("compare") /\ UNCHANGED <<sections, image>>

\* Fault: only the starts of two neighbours are compared.
CompareStarts ==
  /\ step = "compare" /\ at + 1 \in DOMAIN ranges
  /\ \/ elf[ranges[at + 1]].address = elf[ranges[at]].address /\ Reject
     \/ /\ elf[ranges[at + 1]].address # elf[ranges[at]].address
        /\ NextIndex /\ UNCHANGED <<sections, ranges, image>>

(* Neighbours in the sorted list must not overlap. *)
Compare ==
  /\ step = "compare" /\ at + 1 \in DOMAIN ranges
  /\ \/ elf[ranges[at + 1]].address < End(elf[ranges[at]]) /\ Reject
     \/ /\ elf[ranges[at + 1]].address >= End(elf[ranges[at]])
        /\ NextIndex /\ UNCHANGED <<sections, ranges, image>>

Parsed ==
  /\ step = "compare" /\ at + 1 \notin DOMAIN ranges
  /\ Enter("build") /\ UNCHANGED <<sections, ranges, image>>

(* The capacity check of build_images.  An empty section may start where    *)
(* the instruction memory ends; its offset in the data image is negative.   *)
TooBig(h) ==
  LET offset == h.address - (IF h.address < IMEM_LIMIT THEN 0 ELSE DMEM_BASE)
      capacity == IF h.address < IMEM_LIMIT THEN IMEM_LIMIT ELSE DMEM_LIMIT - DMEM_BASE
  IN  offset > capacity \/ h.size > capacity - offset

(* build_images: the images are as large as the memories, so that the check *)
(* passes (part of the property below).                                    *)
CopySection ==
  /\ step = "build" /\ at \in DOMAIN sections
  /\ image' = LET h == elf[sections[at]]
              IN  [a \in Addresses |-> IF h.bits /\ Covers(h, a)
                                       THEN <<sections[at], a - h.address>> ELSE image[a]]
  /\ NextIndex /\ UNCHANGED <<sections, ranges>>

Built ==
  /\ step = "build" /\ at \notin DOMAIN sections
  /\ Enter("done") /\ UNCHANGED <<sections, ranges, image>>

Init ==
  /\ \E n \in 0 .. MaxSections : elf \in [1 .. n -> Headers]
  /\ step = "headers" /\ at = 1
  /\ sections = << >> /\ ranges = << >>
  /\ image = [a \in Addresses |-> Zero]

Next == ReadHeader \/ Sort \/ Compare \/ Parsed \/ CopySection \/ Built

Spec == Init /\ [][Next]_vars

(***************************************************************************)
(* Properties.                                                             *)
(***************************************************************************)
(* The images hold every byte of every section with content at its address  *)
(* and zeros everywhere else, whatever the order of the sections in the     *)
(* file; a file is refused only for a section that is cut off or outside    *)
(* the memories, or for two sections that share an address; build_images    *)
(* has nothing left to refuse.                                             *)
ImagesAreExact ==
  /\ \A i \in DOMAIN sections : ~TooBig(elf[sections[i]])
  /\ step = "done" =>
       \A a \in Addresses :
         LET there == {i \in DOMAIN elf : elf[i].alloc /\ elf[i].bits /\ Covers(elf[i], a)}
         IN  /\ \A i \in there : image[a] = <<i, a - elf[i].address>>
             /\ there = {} => image[a] = Zero
  /\ step = "rejected" =>
       \/ \E i \in DOMAIN elf : ~Acceptable(elf[i])
       \/ \E i, j \in DOMAIN elf :
            i # j /\ NonEmpty(elf[i]) /\ NonEmpty(elf[j]) /\ Overlap(elf[i], elf[j])
=============================================================================
