------------------------- MODULE PublishProperties --------------------------
(***************************************************************************)
(* What building and signing a loader must guarantee, over LoaderPublish.  *)
(***************************************************************************)
EXTENDS LoaderPublish

\* The output never is a build that lacks a file, also while the build that published it,
\* or another one, removes what it failed to publish: directories are emptied only after
\* they were moved into a quarantine (_remove_build_directory).
OutputWhole ==
    dir[Output] \in Builders => content[dir[Output]] = "whole"

\* Whatever build has the output's name, firmware can load its image: the sections lie apart
\* in the file and in memory, and the entry point leads into code that cannot be written,
\* although the audit compares every range only with the next one (_reject_overlaps) and
\* the image is published long after it was audited (_audit_build).
PublishedLoads ==
    dir[Output] \in Builders => dir[Output] \in sound

\* A build that returned loses no file to a later step of anyone: a concurrent build that
\* removes its own publication by name may take this one's directory by mistake, but it
\* finds out before it unlinks anything.
PublishedKept ==
    \A b \in Builders : bpc[b] = "published" => b \in Present /\ content[b] = "whole"

\* The removal got hold of another directory than its own, and its error says so.
TookAnother(b) == bpc[b] \in {"identify", "put_back"} /\ ~IsOwn(b, Quarantine(b))

\* A build that failed has withdrawn its directory from the output and from the name
\* beside it, unless its error is that it could not ("stuck"), that something else had
\* the name when it tried, or that it could not read what has the name ("unread").  That
\* last error stops all cleaning up (_require_build_directory_identity,
\* _recover_build_publication) and leaves the directory where it is; yet at the output only
\* when the move there was made or tried.
FailureRetracts ==
    [][\A b \in Builders :
          /\ bpc[b] # "failed" /\ bpc'[b] = "failed" =>
               \/ dir'[Output] # b /\ dir'[Pending(b)] # b
               \/ TookAnother(b)
          /\ bpc[b] # "unread" /\ bpc'[b] = "unread" /\ dir'[Output] = b =>
               bpc[b] \in {"recover", "confirm"}]_vars

\* A directory of somebody else's that holds something is never destroyed, whatever name
\* it turns up under and whoever moves it (the comparisons of inodes in
\* _recover_build_publication and _remove_build_directory).
ForeignKept ==
    [][Foreigns \cap Present \subseteq Present']_vars

\* No file that somebody published, retained or put in the way is ever destroyed: entries
\* are created exclusively, moved without replacing, and directories that hold something
\* are not removed (_write_public_entry, _quarantine_owned_entry).
FilesKept ==
    [][Files \cap Placed \subseteq Placed']_vars

\* Where a file that signer s made may be other than under its public name: somebody else
\* moved it, or another signer retained it when it took the name for its own.
TakenByOthers(s, n) ==
    \/ Own(s, n) \in faway
    \/ \E other \in Signers \ {s} : kept[other][n] = Own(s, n)

\* A signed image has a public name only beside its whole certificate, also while both
\* are published or retracted and after a kill: the certificate is published first and
\* retracted last.  The exceptions are somebody else's doing, or named in the error.
NoImageAlone ==
    \A s \in Signers, b \in Builders :
        file[b]["image"] = Own(s, "image") =>
            \/ file[b]["certificate"] = Own(s, "certificate") /\ data[s]["certificate"] = "whole"
            \/ TakenByOthers(s, "certificate")
            \/ "image" \in unable[s]

\* A sign that returned left both files whole where it published them; one that failed
\* left nothing under a public name that its error does not name: each file it made is
\* retained and reported, or said to be beyond it, or somebody else moved it.
SignReports ==
    \A s \in Signers, n \in Names :
        /\ spc[s] = "signed" =>
             /\ data[s][n] = "whole"
             /\ Entry(s, n) = Own(s, n) \/ TakenByOthers(s, n)
        /\ spc[s] = "failed" /\ data[s][n] # "none" =>
             kept[s][n] = Own(s, n) \/ n \in unable[s] \/ TakenByOthers(s, n)
=============================================================================
