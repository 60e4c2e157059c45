----------------------------- MODULE MCPublish ------------------------------
(* Small instances of PublishProperties for TLC.                            *)
EXTENDS PublishProperties, TLC

Symmetry ==
    Permutations(Builders) \cup Permutations(Signers)

\* One section, in units of 512 bytes.
At512(n, address, virtual, offset, raw, flags) ==
    [name |-> n, virtual_address |-> 512 * address, virtual_size |-> virtual,
     raw_offset |-> 512 * offset, raw_size |-> 512 * raw, characteristics |-> flags,
     data |-> IF n = ".sbat" /\ raw > 0 THEN "sbat" ELSE "other"]

Text == At512(".text", 2, 700, 2, 2, {"read", "execute"})
Reloc == At512(".reloc", 6, 8, 4, 1, {"read"})
Sbat == At512(".sbat", 8, 300, 5, 1, {"read"})

\* A loader that is accepted, signed.
Sample ==
    [machine |-> "x86_64", optional_header_magic |-> "pe32_plus", subsystem |-> "efi_application",
     entry_point |-> 1200, section_alignment |-> 1024, file_alignment |-> 512,
     size_of_headers |-> 1024, size_of_image |-> 5120,
     security_directory_offset |-> 3072, security_directory_size |-> 16,
     table_end |-> 700, length |-> 3088, sections |-> <<Text, Reloc, Sbat>>]

\* Where two sections lie in memory, and how far they reach there and in the file.
MemoryImages ==
    {[Sample EXCEPT !.security_directory_offset = 4608, !.length = 4624, !.sections =
        <<At512(".text", a, v, 6, r, {"read", "execute"}), Reloc, At512(".sbat", b, w, 5, q, {"read"})>>] :
        a \in {0, 1, 2, 4, 6}, v \in {0, 600, 1025}, r \in {0, 1, 3},
        b \in {4, 6, 8}, w \in {0, 1024, 1025}, q \in {0, 1}}

\* Where three sections and the certificates lie in the file, in any order.
FileImages ==
    {[Sample EXCEPT
        !.sections = <<[Text EXCEPT !.raw_offset = o], [Reloc EXCEPT !.raw_offset = p],
                       [Sbat EXCEPT !.raw_offset = q]>>,
        !.security_directory_offset = s, !.security_directory_size = z] :
        o \in {1024, 1536, 2048}, p \in {512, 1024, 1536, 2048, 2304},
        q \in {1024, 2048, 2560, 3072}, s \in {0, 512, 2040, 2560, 3072}, z \in {0, 16, 512}}

\* What the sections may be used for, their names and the entry point.
UseImages ==
    {[Sample EXCEPT !.entry_point = e,
        !.sections = <<[Text EXCEPT !.characteristics = f],
                       [Reloc EXCEPT !.characteristics = g, !.name = n],
                       [Sbat EXCEPT !.data = d]>>] :
        e \in {0, 1023, 1024, 2047, 2048, 3072}, f \in SUBSET Flags, g \in {{"read"}, Flags},
        n \in {".reloc", ".sbat", ".data", ""}, d \in {"sbat", "other"}}

\* What the headers say.
HeaderImages ==
    {[Sample EXCEPT !.file_alignment = fa, !.section_alignment = sa, !.size_of_headers = h,
        !.size_of_image = si, !.table_end = t, !.length = l] :
        fa \in {0, 256, 512, 768, 1024}, sa \in {512, 1024, 1536}, h \in {512, 1000, 1024, 2048},
        si \in {4608, 5000, 5120}, t \in {700, 1025}, l \in {1000, 3000, 3088}} \cup
    {[Sample EXCEPT !.machine = m, !.optional_header_magic = o, !.subsystem = s] :
        m \in {"x86_64", "other"}, o \in {"pe32", "pe32_plus", "other"},
        s \in {"efi_application", "other"}} \cup
    {[Sample EXCEPT !.sections = <<>>]}

SmallImages == MemoryImages \cup FileImages \cup UseImages \cup HeaderImages
=============================================================================
