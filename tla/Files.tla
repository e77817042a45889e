--------------------------------- MODULE Files ---------------------------------
(***************************************************************************)
(* Uploaded files, the pictures made of them, and identity documents.      *)
(*                                                                         *)
(* Files go to the storage under an id of their own and are never changed. *)
(* A picture is served re-encoded in a format the client's Accept header   *)
(* names, at an allowed width; what was encoded is kept in a directory of  *)
(* the server (disk), and the answers in shared caches on the way (edge).  *)
(* Encoding runs on a thread, so requests interleave there; the write that *)
(* follows it does not, but the process may die in it.                     *)
(*                                                                         *)
(* Identity documents are stored encrypted, front first and then back, and *)
(* an administrator who looked at them approves the organization.          *)
(* Who may upload what, and size limits, only refuse and are left out.     *)
(***************************************************************************)
EXTENDS Naturals, Sequences, FiniteSets, SequencesExt, FiniteSetsExt

CONSTANTS
    Clients,    \* Accept headers, each the set of formats it names
    Pictures,   \* what may be uploaded: [ext, format, width, legible]
    Widths,     \* ?w= (0: none, or not a number)
    Qualities,  \* ?q= (0: none)
    Tabs,       \* browser tabs of the owner with the document form
    MaxFiles    \* bound on uploads

ALLOWED_WIDTHS == {64, 128, 256, 400, 640, 960, 1280, 1920}
TRANSCODABLE == {"jpg", "jpeg", "png", "webp", "avif"}
Idle == [op |-> "idle"]
Nothing == [body |-> "nothing"]
Sealed == [body |-> "ciphertext"]
Half == [body |-> "half a file"]
Anyone == {"any"}   \* the name of an answer that does not vary

VARIABLES
    stored,     \* the storage: files by id
    image,      \* logo_url, avatar_url: ids, 0 for none
    disk,       \* the image cache: [name, body]
    edge,       \* shared caches: [url, accept, body]
    encoding,   \* requests whose picture is being encoded, by client
    shown,      \* the last answer of each client
    papers,     \* kyc_document_front, kyc_document_back: ids
    upload,     \* document uploads in progress, by tab
    seen,       \* the papers the administrator has opened
    review      \* is_verified, rejection_reason, and the papers approved

filesVars == <<stored, image, disk, edge, encoding, shown, papers, upload, seen, review>>
pictureVars == <<disk, edge, encoding, shown>>
paperVars == <<papers, upload, seen, review>>

Ids == 1..Len(stored)
NoPapers == [front |-> 0, back |-> 0]

TypeOK ==
    /\ Len(stored) <= MaxFiles
    /\ image \in [{"logo", "avatar"} -> 0..MaxFiles]
    /\ \A d \in disk : d.name[2] \in {"tmp", "cached"}
    /\ \A e \in edge : e.accept \in Clients \cup {Anyone}
    /\ papers \in [front : 0..MaxFiles, back : 0..MaxFiles]
    /\ review.is_verified \in BOOLEAN /\ review.rejection_reason \in BOOLEAN

Init ==
    /\ stored = <<>>
    /\ image = [s \in {"logo", "avatar"} |-> 0]
    /\ disk = {} /\ edge = {}
    /\ encoding = [c \in Clients |-> Idle]
    /\ shown = [c \in Clients |-> Nothing]
    /\ papers = NoPapers
    /\ upload = [t \in Tabs |-> Idle]
    /\ seen = NoPapers
    /\ review = [is_verified |-> FALSE, rejection_reason |-> FALSE, papers |-> NoPapers]

-----------------------------------------------------------------------------
(* Uploads *)

upload_full(file) == Len(stored) < MaxFiles /\ stored' = Append(stored, file)
clear(p) == [ext |-> p.ext, picture |-> p, sealed |-> FALSE, with |-> 0]
encrypted(p, front) == [ext |-> p.ext, picture |-> p, sealed |-> TRUE, with |-> front]

IsImage(p) == p.ext \in {"jpg", "jpeg", "png", "webp"}

\* Any file; its address is returned and not kept.
upload_file == \E p \in Pictures : upload_full(clear(p)) /\ UNCHANGED <<image, pictureVars, paperVars>>

\* Banners and candidates' photos: the address comes back in a later request.
upload_event_banner == \E p \in Pictures : IsImage(p) /\ upload_full(clear(p)) /\ UNCHANGED <<image, pictureVars, paperVars>>
upload_event_candidate_image == upload_event_banner
upload_candidate_image == upload_event_banner
upload_election_banner == upload_event_banner

\* A nomination's photo is decoded and encoded anew: it can be read.
validate_and_sanitise(p) == p.legible /\ p.ext \in {"jpg", "png", "webp"}
upload_nomination_photo ==
    \E p \in Pictures : validate_and_sanitise(p) /\ upload_full(clear(p)) /\ UNCHANGED <<image, pictureVars, paperVars>>

save_image(slot) ==
    \E p \in Pictures :
        /\ IsImage(p)
        /\ upload_full(clear(p))
        /\ image' = [image EXCEPT ![slot] = Len(stored')]
        /\ UNCHANGED <<pictureVars, paperVars>>

upload_organization_logo == save_image("logo")
upload_data_uri == save_image("logo")
upload_avatar == save_image("avatar")

\* The file itself stays.
remove_avatar ==
    /\ image["avatar"] # 0
    /\ image' = [image EXCEPT !["avatar"] = 0]
    /\ UNCHANGED <<stored, pictureVars, paperVars>>

-----------------------------------------------------------------------------
(* Pictures *)

\* Only a format that is named counts: "*/*" gets the original's kind.
negotiate_format(accept, ext) ==
    CASE "avif" \in accept -> "avif"
      [] "avif" \notin accept /\ "webp" \in accept -> "webp"
      [] OTHER -> IF ext = "png" THEN "png" ELSE "jpeg"

normalise_width(w) ==
    IF w = 0 THEN 0
    ELSE LET enough == {a \in ALLOWED_WIDTHS : w <= a}
         IN  IF enough = {} THEN Max(ALLOWED_WIDTHS) ELSE Min(enough)

normalise_quality(q) == IF q = 0 THEN 78 ELSE Max({40, Min({95, q})})

\* Never enlarged.
transcode(f, format, width, quality) ==
    LET own == stored[f].picture.width
    IN  [body |-> "variant", of |-> f, format |-> format,
         width |-> IF width # 0 /\ width < own THEN width ELSE own, quality |-> quality]

legible(f) == stored[f].picture.legible /\ ~stored[f].sealed
original(f) ==
    IF stored[f].sealed THEN Sealed ELSE [body |-> "original", of |-> f, format |-> stored[f].picture.format]

cache_key(f, format, width, quality) == <<f, format, width, quality>>
cached_path(key) == <<key, "cached">>
tmp_in_place(key) == <<key, "cached">>    \* mutant
tmp_path(key) == <<key, "tmp">>
on_disk(name) == {d \in disk : d.name = name}

varies(f) == stored[f].ext \in TRANSCODABLE
one_cache_name(c, f) == Anyone    \* mutant: no Vary header
cache_name(c, f) == IF varies(f) THEN c ELSE Anyone

\* Immutable for a year: every cache on the way keeps it.
file_response(c, url, body) ==
    /\ shown' = [shown EXCEPT ![c] = [body |-> body, url |-> url]]
    /\ edge' = edge \cup {[url |-> url, accept |-> cache_name(c, url.file), body |-> body]}

key_of(c, url) ==
    cache_key(url.file, negotiate_format(c, stored[url.file].ext), normalise_width(url.w), normalise_quality(url.q))

from_edge(c, url) ==
    \E e \in edge :
        /\ e.url = url /\ e.accept = cache_name(c, url.file)
        /\ shown' = [shown EXCEPT ![c] = [body |-> e.body, url |-> url]]
        /\ UNCHANGED <<edge, encoding>>

at_edge(c, url) == \E e \in edge : e.url = url /\ e.accept = cache_name(c, url.file)

unchanged(c, url) ==
    /\ ~varies(url.file)
    /\ file_response(c, url, original(url.file))
    /\ UNCHANGED encoding

variant_hit(c, url) ==
    /\ varies(url.file)
    /\ \E d \in on_disk(cached_path(key_of(c, url))) : file_response(c, url, d.body)
    /\ UNCHANGED encoding

variant_miss(c, url) ==
    /\ varies(url.file)
    /\ on_disk(cached_path(key_of(c, url))) = {}
    /\ encoding' = [encoding EXCEPT ![c] = [op |-> "encode", url |-> url]]
    /\ UNCHANGED <<edge, shown>>

download_file(c) ==
    \E f \in Ids, w \in Widths, q \in Qualities :
        LET url == [file |-> f, w |-> w, q |-> q]
        IN  /\ encoding[c] = Idle
            /\ \/ from_edge(c, url)
               \/ ~at_edge(c, url) /\ (unchanged(c, url) \/ variant_hit(c, url) \/ variant_miss(c, url))
            /\ UNCHANGED <<stored, image, disk, paperVars>>

write(entry) == disk' = {d \in disk : d.name # entry.name} \cup {entry}

encoded(c) ==
    LET url == encoding[c].url
        key == key_of(c, url)
    IN  transcode(url.file, key[2], key[3], key[4])

\* Encoded, written beside its place and renamed into it; or the directory
\* cannot be written.  A file Pillow cannot read is served as it is.
variant(c) ==
    /\ encoding[c] # Idle
    /\ LET url == encoding[c].url
           key == key_of(c, url)
       IN  \/ /\ legible(url.file)
              /\ file_response(c, url, encoded(c))
              /\ \/ disk' = {d \in disk : d.name \notin {tmp_path(key), cached_path(key)}}
                            \cup {[name |-> cached_path(key), body |-> encoded(c)]}
                 \/ UNCHANGED disk
           \/ ~legible(url.file) /\ file_response(c, url, original(url.file)) /\ UNCHANGED disk
    /\ encoding' = [encoding EXCEPT ![c] = Idle]
    /\ UNCHANGED <<stored, image, paperVars>>

\* The process dies while a variant is written; every request in it is lost.
crash(c) ==
    /\ encoding[c] # Idle /\ legible(encoding[c].url.file)
    /\ write([name |-> tmp_path(key_of(c, encoding[c].url)), body |-> Half])
    /\ encoding' = [x \in Clients |-> Idle]
    /\ upload' = [t \in Tabs |-> Idle]
    /\ UNCHANGED <<stored, image, edge, shown, papers, seen, review>>

-----------------------------------------------------------------------------
(* Identity documents *)

upload_front(t) ==
    /\ upload[t] = Idle
    /\ \E p \in Pictures : upload_full(encrypted(p, 0))
    /\ upload' = [upload EXCEPT ![t] = [op |-> "front", front |-> Len(stored')]]
    /\ UNCHANGED <<image, pictureVars, papers, seen, review>>

\* mutant: each document is saved when it is uploaded
save_each(t) ==
    /\ upload[t].op = "front"
    /\ \E p \in Pictures : upload_full(encrypted(p, upload[t].front))
    /\ papers' = [papers EXCEPT !.back = Len(stored')]
    /\ upload' = [upload EXCEPT ![t] = [op |-> "back", front |-> @.front, back |-> Len(stored')]]
    /\ UNCHANGED <<image, pictureVars, seen, review>>
upload_back(t) ==
    /\ upload[t].op = "front"
    /\ \/ /\ \E p \in Pictures : upload_full(encrypted(p, upload[t].front))
          /\ upload' = [upload EXCEPT ![t] = [op |-> "back", front |-> @.front, back |-> Len(stored')]]
       \* The back is refused or the storage fails: the front stays stored.
       \/ upload' = [upload EXCEPT ![t] = Idle] /\ UNCHANGED stored
    /\ UNCHANGED <<image, pictureVars, papers, seen, review>>

upload_kyc_documents(t) ==
    /\ upload[t].op = "back"
    /\ papers' = [front |-> upload[t].front, back |-> upload[t].back]
    /\ upload' = [upload EXCEPT ![t] = Idle]
    /\ UNCHANGED <<stored, image, pictureVars, seen, review>>

\* The administrator opens the documents on record, decrypted.
download_private_file ==
    /\ papers # NoPapers
    /\ seen' = papers
    /\ UNCHANGED <<stored, image, pictureVars, papers, upload, review>>

\* The repository's update writes no None: approving clears no reason.
verify_organization(approve) ==
    /\ seen # NoPapers
    /\ \/ /\ approve
          /\ review' = [review EXCEPT !.is_verified = TRUE, !.papers = papers]
       \/ /\ ~approve
          /\ \E reason \in BOOLEAN :
                review' = [review EXCEPT !.is_verified = FALSE, !.rejection_reason = @ \/ reason]
    /\ UNCHANGED <<stored, image, pictureVars, papers, upload, seen>>

-----------------------------------------------------------------------------
uploadStep ==
    \/ upload_file \/ upload_event_banner \/ upload_event_candidate_image \/ upload_candidate_image
    \/ upload_election_banner \/ upload_nomination_photo \/ upload_organization_logo \/ upload_data_uri
    \/ upload_avatar \/ remove_avatar
pictureStep == \E c \in Clients : download_file(c) \/ variant(c) \/ crash(c)
paperStep ==
    \/ \E t \in Tabs : upload_front(t) \/ upload_back(t) \/ upload_kyc_documents(t)
    \/ download_private_file
    \/ \E approve \in BOOLEAN : verify_organization(approve)
Next == uploadStep \/ pictureStep \/ paperStep
Spec == Init /\ [][Next]_filesVars

-----------------------------------------------------------------------------
(* Properties *)

\* A client is only handed AVIF or WebP it asked for, whichever client the
\* shared caches met first; only a file that cannot be read is served as it
\* was uploaded (negotiate_format and the Vary header of _file_response).
DecodableByItsClient ==
    \A c \in Clients :
        (shown[c] # Nothing /\ shown[c].body.body = "variant") =>
            shown[c].body.format \notin {"avif", "webp"} \ c

\* What is served of a picture is the whole variant that was asked for: of
\* that file, at that width and quality, encoded for that client, however
\* many requests and restarts the caches have seen (_variant, cache_key).
ServedAsAsked ==
    \A c \in Clients :
        LET answer == shown[c]
            f == answer.url.file
            key == key_of(c, answer.url)
        IN  (answer # Nothing /\ varies(f)) =>
                answer.body = IF legible(f) THEN transcode(f, key[2], key[3], key[4]) ELSE original(f)

\* The documents on record were uploaded together, and are stored encrypted.
DocumentsArePaired ==
    papers # NoPapers =>
        /\ stored[papers.back].with = papers.front
        /\ stored[papers.front].sealed /\ stored[papers.back].sealed

\* An organization is approved on the documents the administrator opened.
ApprovedAsSeen == [][~review.is_verified /\ review'.is_verified => review'.papers = seen]_filesVars

\* An organization that is approved carries no reason for a rejection.
ApprovalClearsTheReason == review.is_verified => ~review.rejection_reason

\* An approval stands on the documents on record.
ApprovedOnItsPapers == review.is_verified => review.papers = papers

\* Nothing is stored that no record or request points to.
NothingIsOrphaned ==
    \A f \in Ids :
        \/ f \in {image["logo"], image["avatar"], papers.front, papers.back}
        \/ \E t \in Tabs : upload[t] # Idle /\ f \in {upload[t].front, upload[t].front + 1}
================================================================================
