------------------------------ MODULE PeImage -------------------------------
(***************************************************************************)
(* What parse_pe and verify_pe (src/refind_forest/loader/verify.py) accept *)
(* of the fields they read in a PE file, and what has to be true of a      *)
(* loader that firmware can load.                                          *)
(***************************************************************************)
EXTENDS Naturals, Sequences, FiniteSets

Flags == {"read", "write", "execute"}

Section ==
    [name: STRING, virtual_address: Nat, virtual_size: Nat, raw_offset: Nat, raw_size: Nat,
     characteristics: SUBSET Flags, data: {"sbat", "other"}]

\* table_end is where the section table ends, length the length of the file.
Image ==
    [machine: {"x86_64", "other"}, optional_header_magic: {"pe32", "pe32_plus", "other"},
     subsystem: {"efi_application", "other"}, entry_point: Nat,
     section_alignment: Nat, file_alignment: Nat, size_of_headers: Nat, size_of_image: Nat,
     security_directory_offset: Nat, security_directory_size: Nat,
     table_end: Nat, length: Nat, sections: Seq(Section)]

-----------------------------------------------------------------------------
(* The layout.                                                             *)

Span(start, size) == [start |-> start, end |-> start + size]

\* Mutant: the bytes of the file that exceed the size in memory are not counted.
MemorySize_Virtual(section) == section.virtual_size

MemorySize(section) ==
    IF section.virtual_size > section.raw_size THEN section.virtual_size ELSE section.raw_size

RawSpan(section) == Span(section.raw_offset, section.raw_size)
MemorySpan(section) == Span(section.virtual_address, MemorySize(section))

\* The order of the sort in _reject_overlaps.
NotAfter(x, y) == x.start < y.start \/ (x.start = y.start /\ x.end <= y.end)

\* _reject_overlaps: in the sorted list, every range starts where its predecessor ended, or
\* after that.  "spans" gives the range of each of the sections in "indices".
NeighboursApart(indices, spans) ==
    \E order \in [1 .. Cardinality(indices) -> indices] :
        /\ \A i \in indices : \E k \in 1 .. Cardinality(indices) : order[k] = i
        /\ \A j, k \in 1 .. Cardinality(indices) :
             j < k => NotAfter(spans[order[j]], spans[order[k]])
        /\ \A k \in 1 .. Cardinality(indices) - 1 :
             spans[order[k + 1]].start >= spans[order[k]].end

\* No odd number but 1 divides it.
IsPowerOfTwo(value) ==
    value > 0 /\ \A d \in 2 .. value : value % d = 0 => d % 2 = 0

AlignmentsValid(image) ==
    /\ IsPowerOfTwo(image.file_alignment) /\ image.file_alignment \in 512 .. 65536
    /\ IsPowerOfTwo(image.section_alignment)
    /\ image.section_alignment >= image.file_alignment
    /\ image.size_of_headers % image.file_alignment = 0
    /\ image.size_of_image % image.section_alignment = 0

SecuritySpan(image) == Span(image.security_directory_offset, image.security_directory_size)

SecurityValid(image) ==
    /\ image.security_directory_offset = 0 <=> image.security_directory_size = 0
    /\ image.security_directory_offset % 8 = 0 /\ image.security_directory_size % 8 = 0
    /\ SecuritySpan(image).end <= image.length

\* One entry of the section table.
SectionValid(image, section) ==
    /\ section.name # ""
    /\ section.raw_offset % image.file_alignment = 0
    /\ section.raw_size % image.file_alignment = 0
    /\ section.virtual_address % image.section_alignment = 0
    /\ section.raw_size > 0 =>
         section.raw_offset >= image.size_of_headers /\ RawSpan(section).end <= image.length
    /\ MemorySize(section) > 0 =>
         /\ section.virtual_address >= image.size_of_headers
         /\ MemorySpan(section).end <= image.size_of_image

Indices(image) == DOMAIN image.sections
InFile(image) == {i \in Indices(image) : image.sections[i].raw_size > 0}
InMemory(image) == {i \in Indices(image) : MemorySize(image.sections[i]) > 0}

SpansApart(image) ==
    /\ NeighboursApart(InFile(image), [i \in InFile(image) |-> RawSpan(image.sections[i])])
    /\ NeighboursApart(InMemory(image), [i \in InMemory(image) |-> MemorySpan(image.sections[i])])

\* The certificate table lies behind the headers and beside the raw data.
SecurityApart(image) ==
    image.security_directory_size > 0 =>
        /\ image.security_directory_offset >= image.size_of_headers
        /\ \A i \in InFile(image) :
             \/ SecuritySpan(image).start >= RawSpan(image.sections[i]).end
             \/ SecuritySpan(image).end <= RawSpan(image.sections[i]).start

\* parse_pe returns.
Parsed(image) ==
    /\ image.optional_header_magic # "other" /\ image.sections # <<>>
    /\ AlignmentsValid(image) /\ SecurityValid(image)
    /\ image.table_end <= image.size_of_headers /\ image.size_of_headers <= image.length
    /\ \A i \in Indices(image) : SectionValid(image, image.sections[i])
    /\ \A i, j \in Indices(image) : image.sections[i].name = image.sections[j].name => i = j
    /\ SpansApart(image) /\ SecurityApart(image)

-----------------------------------------------------------------------------
(* The policy.                                                             *)

EntersCode(image) ==
    \E i \in Indices(image) :
        /\ "execute" \in image.sections[i].characteristics
        /\ MemorySpan(image.sections[i]).start <= image.entry_point
        /\ image.entry_point < MemorySpan(image.sections[i]).end

\* verify_pe returns.
Verified(image) ==
    /\ Parsed(image)
    /\ image.machine = "x86_64" /\ image.optional_header_magic = "pe32_plus"
    /\ image.subsystem = "efi_application"
    /\ EntersCode(image)
    /\ \A i \in Indices(image) : image.sections[i].characteristics # Flags
    /\ {".reloc", ".sbat"} \subseteq {image.sections[i].name : i \in Indices(image)}
    /\ \A i \in Indices(image) :
         image.sections[i].name = ".sbat" => image.sections[i].data = "sbat"

-----------------------------------------------------------------------------
(* What firmware needs of a loader, however verify_pe finds it out.        *)

Apart(x, y) == x.end <= y.start \/ y.end <= x.start
Inside(x, lower, upper) == lower <= x.start /\ x.end <= upper

\* The memory that a section takes: what is copied from the file, and what it asks for.
Loaded(section) ==
    {Span(section.virtual_address, size) :
        size \in {section.virtual_size, section.raw_size} \ {0}}

\* The sections that the entry point is in.
Entered(image) ==
    {i \in Indices(image) : \E x \in Loaded(image.sections[i]) :
        x.start <= image.entry_point /\ image.entry_point < x.end}

\* Nothing is loaded over anything else, no section takes bytes of the headers, of another
\* section or of the certificates, and one section alone has the entry point.
Loadable(image) ==
    /\ \A i \in Indices(image) : \A x \in Loaded(image.sections[i]) :
         /\ Inside(x, image.size_of_headers, image.size_of_image)
         /\ \A j \in Indices(image) \ {i} : \A y \in Loaded(image.sections[j]) : Apart(x, y)
    /\ \A i \in InFile(image) :
         /\ Inside(RawSpan(image.sections[i]), image.size_of_headers, image.length)
         /\ \A j \in InFile(image) \ {i} :
              Apart(RawSpan(image.sections[i]), RawSpan(image.sections[j]))
         /\ image.security_directory_size > 0 =>
              Apart(RawSpan(image.sections[i]), SecuritySpan(image))
    /\ image.security_directory_size > 0 =>
         Inside(SecuritySpan(image), image.size_of_headers, image.length)
    /\ \E i \in Indices(image) :
         /\ Entered(image) = {i}
         /\ "execute" \in image.sections[i].characteristics
         /\ ~({"read", "write"} \subseteq image.sections[i].characteristics)
=============================================================================
