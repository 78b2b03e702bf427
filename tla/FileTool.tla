------------------------------- MODULE FileTool -------------------------------
(* The tools that read and write files of the workspace: tools/src/read.rs    *)
(* and write.rs.                                                              *)
(*                                                                            *)
(* A call reads, checks what it has read against the hash it was given,       *)
(* writes a temporary file and renames it.  Others write the same files, the  *)
(* user cancels and operations fail between any two of these steps.           *)
(*                                                                            *)
(* Abstractions.  The workspace holds a file and a link: its entry is a text, *)
(* a directory, absent, or for the link ToFile.  A text is a sequence of      *)
(* characters, and its hash stands for it; "s" names a sensitive path, which  *)
(* no output may, and "0" is a NUL.  A file is read at one instant.           *)
EXTENDS ToolPolicy, SequencesExt

CONSTANTS Texts,        \* the texts a person writes
          MaxBytes,     \* the size limit of a file
          MaxEntries,   \* the limit of a listing
          MaxEdits      \* bound: edits of other writers
Alphabet == {"a", "b", "s", "0"}
ASSUME FileAssumption ==
  /\ Texts \subseteq Seq(Alphabet)
  /\ {MaxBytes, MaxEntries, MaxEdits} \subseteq Nat

VARIABLES entries,   \* what each name of the workspace is
          hidden,    \* the workspace has a protected directory too
          temp,      \* the temporary file of the call, or NoText
          file,      \* the call under way
          cancelled, \* the token of the turn has been used
          edits      \* edits of others so far

fileVars == <<entries, hidden, temp, file, cancelled, edits>>

Names == {"file", "link"}
Absent == <<"absent">>
Directory == <<"directory">>
ToFile == <<"link">>
NoText == <<"none">>
Odd == {Absent, Directory, ToFile}

(* What opening a name finds, and the entry it stands for. *)
Target(n) == IF entries[n] = ToFile THEN "file" ELSE n
Seen(n) == entries[Target(n)]
IsText(x) == x \notin Odd

Has(text, c) == \E i \in DOMAIN text : text[i] = c
Safe(text) == SafeOutput(Len(text) > MaxBytes, Has(text, "0"), Has(text, "s"))

(* A call of these tools, or of one there is none of: its values have their    *)
(* types, and a hash stands for a text.                                        *)
Edits == [old : Seq(Alphabet), new : Seq(Alphabet), times : Nat]
FileCall(inv) ==
  /\ inv.tool \notin {"git_status", "git_diff", "npm_diagnostic", "run_diagnostic"}
  /\ "path" \in DOMAIN inv.args => inv.args.path \in Paths
  /\ "content" \in DOMAIN inv.args => inv.args.content \in Seq(Alphabet)
  /\ "expected_sha256" \in DOMAIN inv.args => inv.args.expected_sha256 \in Seq(Alphabet)
  /\ "edits" \in DOMAIN inv.args => inv.args.edits \in Seq(Edits)

NoCall == [at |-> "idle", inv |-> Invocation("none", "none", <<>>, "fit", FALSE), left |-> <<>>,
           place |-> "none", text |-> NoText, saw |-> NoText, wrote |-> FALSE,
           result |-> Passed, output |-> NoText]

FileInit ==
  /\ entries \in [Names -> Texts \cup {Absent}] \cup {[file |-> x, link |-> ToFile] : x \in Texts \cup {Directory}}
  /\ hidden \in BOOLEAN
  /\ temp = NoText /\ file = NoCall /\ cancelled = FALSE /\ edits = 0

Arg(name) == file.inv.args[name]
At(step) == file.at = step /\ UNCHANGED <<edits, cancelled, hidden>>
Return(result) == file' = [file EXCEPT !.at = "done", !.result = result]
Give(output) == file' = [file EXCEPT !.at = "done", !.result = Passed, !.output = output]
-----------------------------------------------------------------------------
(* read_file, list_directory, apply_patch and write_file begin alike.         *)
Call(inv) ==
  /\ file.at = "idle" /\ UNCHANGED <<entries, temp, edits, cancelled, hidden>>
  /\ LET checked == Preflight(inv, "Confirm", "Restricted", cancelled) IN
     file' = [file EXCEPT !.inv = inv, !.result = checked,
                          !.at = IF checked = Passed THEN inv.tool ELSE "done"]

Path == Arg("path")
Named == Path.to \in Names   \* and not the workspace itself
Reach == ResolveExisting(Path, Path.to = "nowhere" \/ (Named /\ Seen(Path.to) = Absent),
                         Path.to = "outside")
Found == IF Named THEN Seen(Path.to) ELSE Directory

(* read_editable_file, and the reading of read_file, which cancels on the way. *)
Editable(x) ==
  Outcome(<< <<~IsText(x), Rejected("wrong_file_type")>>,
             <<IsText(x) /\ Len(x) > MaxBytes, Rejected("input_limit")>>,
             <<IsText(x) /\ Has(x, "0"), Rejected("binary_file")>>,
             <<IsText(x) /\ Safe(x) # Passed, Safe(x)>> >>)

Read ==
  /\ At("read_file") /\ UNCHANGED <<entries, temp>>
  /\ LET checked == Outcome(<< <<Reach # Passed, Reach>>, <<cancelled, CancelledResult>> >>) IN
     IF checked # Passed THEN Return(checked)
     ELSE LET x == Found IN
          IF Editable(x) # Passed THEN Return(Editable(x))
          ELSE \/ Give(x)
               \/ Len(x) = MaxBytes /\ Return(Failed("output_limit"))   \* with its receipt

(* The entries come in any order; the first that is one too many, or has a    *)
(* protected name, ends the listing.                                          *)
List ==
  /\ At("list_directory") /\ UNCHANGED <<entries, temp>>
  /\ LET root == Path.to = "root"
         found == {n \in Names : root /\ entries[n] # Absent}
         protected == root /\ hidden
         checked == Outcome(<< <<Reach # Passed, Reach>>,
                               <<Found # Directory, Rejected("wrong_file_type")>>,
                               <<cancelled /\ (found # {} \/ protected), CancelledResult>>,
                               <<protected, Rejected("protected_path")>>,
                               <<Cardinality(found) > MaxEntries, Rejected("entry_limit")>> >>)
     IN \/ checked # Passed /\ Return(checked)
        \/ checked = Passed /\ Give(SelectSeq(<<"file", "link">>, LAMBDA n : n \in found))
        \/ /\ checked = Rejected("protected_path") /\ Cardinality(found) >= MaxEntries
           /\ Return(Rejected("entry_limit"))
-----------------------------------------------------------------------------
Matches(text, old) == {i \in 1..Len(text) : IsPrefix(old, SubSeq(text, i, Len(text)))}
Replaced(text, i, edit) ==
  SubSeq(text, 1, i - 1) \o edit.new \o SubSeq(text, i + Len(edit.old), Len(text))

(* apply_exact_edit: the last match is replaced first, so that the positions  *)
(* of the others stay what they are.                                          *)
Applied(text, edit) ==
  LET at == Matches(text, edit.old)
      down[i \in 1..(Len(text) + 1)] ==   \* the matches from i on are replaced
        IF i > Len(text) THEN text
        ELSE IF i \in at THEN Replaced(down[i + 1], i, edit) ELSE down[i + 1]
  IN down[1]
EditCheck(text, edit) ==
  LET at == Matches(text, edit.old) IN
  Outcome(<< <<edit.old = <<>> \/ edit.times = 0, Rejected("invalid_arguments")>>,
             <<\E i, j \in at : i < j /\ j < i + Len(edit.old), Failed("overlapping_matches")>>,
             <<Cardinality(at) # edit.times, Failed("occurrence_conflict")>>,
             <<Len(Applied(text, edit)) > MaxBytes, Rejected("input_limit")>> >>)

PatchOpen ==
  /\ At("apply_patch") /\ UNCHANGED <<entries, temp>>
  /\ LET x == Found
         checked == Outcome(<< <<Arg("edits") = <<>>, Rejected("invalid_arguments")>>,
                               <<Reach # Passed, Reach>> >>)
     IN IF checked # Passed THEN Return(checked)
        ELSE IF Editable(x) # Passed THEN Return(Editable(x))
        ELSE IF x # Arg("expected_sha256") THEN Return(Failed("hash_conflict"))
        ELSE file' = [file EXCEPT !.at = "edit", !.text = x, !.left = Arg("edits"), !.place = Target(Path.to)]

PatchEdit ==
  /\ At("edit") /\ file.left # <<>> /\ UNCHANGED <<entries, temp>>
  /\ LET edit == Head(file.left)
         checked == IF cancelled THEN CancelledResult ELSE EditCheck(file.text, edit)
     IN IF checked # Passed THEN Return(checked)
        ELSE file' = [file EXCEPT !.text = Applied(@, edit), !.left = Tail(@)]

PatchReady ==
  /\ At("edit") /\ file.left = <<>> /\ UNCHANGED <<entries, temp>>
  /\ IF Safe(file.text) # Passed THEN Return(Safe(file.text))
     ELSE file' = [file EXCEPT !.at = "prepare"]

HasHash == "expected_sha256" \in DOMAIN file.inv.args
Content == Arg("content")
Create == Arg("mode") = "create"
WriteOpen ==
  /\ At("write_file") /\ UNCHANGED <<entries, temp>>
  /\ LET exists == Path.to = "root" \/ (Named /\ Seen(Path.to) # Absent)
         resolved == ResolveWrite(Path, Path.to = "outside")
         body == Outcome(<< <<Len(Content) > MaxBytes, Rejected("input_limit")>>,
                            <<Has(Content, "0"), Rejected("binary_file")>>,
                            <<Safe(Content) # Passed, Safe(Content)>>,
                            <<resolved # Passed, resolved>> >>)
         mode == IF Create
                 THEN Outcome(<< <<HasHash, Rejected("invalid_arguments")>>,
                                 <<exists, Failed("already_exists")>> >>)
                 ELSE IF ~HasHash THEN Rejected("invalid_arguments")
                 ELSE IF Reach # Passed THEN Reach
                 ELSE LET x == Found IN
                      Outcome(<< <<Editable(x) # Passed, Editable(x)>>,
                                 <<x # Arg("expected_sha256"), Failed("hash_conflict")>> >>)
     IN IF body # Passed THEN Return(body)
        ELSE IF mode # Passed THEN Return(mode)
        ELSE file' = [file EXCEPT !.at = "prepare", !.text = Content, !.place = Path.to]
-----------------------------------------------------------------------------
(* atomic_persist.  It renames to a place kept since the call was opened:     *)
(* apply_patch has followed the link then, write_file has not.                *)
(* The temporary file, with its bytes durable; dropped by every early return. *)
Prepare ==
  /\ At("prepare") /\ UNCHANGED entries
  /\ IF cancelled THEN Return(CancelledResult) /\ UNCHANGED temp
     ELSE IF ~Named THEN Return(Rejected("path_not_found")) /\ UNCHANGED temp
     ELSE \/ temp' = file.text /\ file' = [file EXCEPT !.at = "validate"]
          \/ Return(Failed("io_failed")) /\ UNCHANGED temp

(* revalidate_replace_target *)
FaultyUnchanged == TRUE
Unchanged == HasHash => Seen(file.place) = Arg("expected_sha256")
Validate ==
  /\ At("validate") /\ UNCHANGED entries
  /\ LET checked == Outcome(<< <<cancelled, CancelledResult>>,
                               <<~Unchanged, Failed("hash_conflict")>> >>)
     IN IF checked = Passed
        THEN file' = [file EXCEPT !.at = "rename", !.saw = Seen(file.place)] /\ UNCHANGED temp
        ELSE Return(checked) /\ temp' = NoText

Rename ==
  /\ At("rename") /\ temp' = NoText
  /\ IF ~HasHash /\ entries[file.place] # Absent THEN Return(Failed("already_exists")) /\ UNCHANGED entries
     ELSE IF entries[file.place] = Directory THEN Return(Failed("io_failed")) /\ UNCHANGED entries
     ELSE \/ /\ entries' = [entries EXCEPT ![file.place] = temp]
             /\ file' = [file EXCEPT !.at = "sync", !.wrote = TRUE]
          \/ Return(Failed("io_failed")) /\ UNCHANGED entries

(* sync_directory and the receipt: what fails here fails after the write.     *)
Finish ==
  /\ At("sync") /\ UNCHANGED <<entries, temp>>
  /\ \/ Give(file.text)
     \/ Return(Failed("io_failed"))
     \/ Return(Rejected("secret_content"))   \* a path that only looks like a secret
-----------------------------------------------------------------------------
Cancel ==
  /\ ~cancelled /\ cancelled' = TRUE /\ file.at # "done"
  /\ UNCHANGED <<entries, temp, file, edits, hidden>>

(* Another program writes, makes or removes an entry.                         *)
OtherWrites(n, x) ==
  /\ edits < MaxEdits /\ edits' = edits + 1
  /\ file.at # "done" /\ entries[n] # x /\ entries' = [entries EXCEPT ![n] = x]
  /\ UNCHANGED <<temp, file, cancelled, hidden>>

FileNext(invocations) ==
  \/ \E inv \in invocations : Call(inv)
  \/ Read \/ List \/ PatchOpen \/ PatchEdit \/ PatchReady \/ WriteOpen
  \/ Prepare \/ Validate \/ Rename \/ Finish
  \/ Cancel \/ \E n \in Names, x \in Texts \cup {Absent} : OtherWrites(n, x)
-----------------------------------------------------------------------------
FileTypeOK ==
  /\ \A n \in Names : IsText(entries[n]) => entries[n] \in Seq(Alphabet)
  /\ {hidden, cancelled, file.wrote} \subseteq BOOLEAN /\ edits \in 0..MaxEdits
  /\ temp # NoText => file.at \in {"validate", "rename"} /\ temp = file.text
  /\ file.at \in {"idle", "read_file", "list_directory", "apply_patch", "write_file",
                  "edit", "prepare", "validate", "rename", "sync", "done"}
  /\ file.result \in Results

(* The text a sequence of edits describes: from left to right, every match of *)
(* an edit in turn, with no positions to keep.                                *)
LeftToRight(text, edit) ==
  LET from[i \in 1..(Len(text) + 1)] ==
        IF i > Len(text) THEN <<>>
        ELSE IF i \in Matches(text, edit.old) THEN edit.new \o from[i + Len(edit.old)]
        ELSE <<text[i]>> \o from[i + 1]
  IN from[1]
Described(text, list) ==
  LET after[k \in 0..Len(list)] == IF k = 0 THEN text ELSE LeftToRight(after[k - 1], list[k])
  IN after[Len(list)]

(* A tool changes only the entry its call names, or has led to, and only from *)
(* the content whose hash the call gives, or from nothing: an edit another    *)
(* program makes is overwritten only when it comes between the last check and *)
(* the rename.  What it writes is the whole of what the call describes, and   *)
(* safe to show.                                                              *)
WriteIsAsked ==
  edits' = edits /\ entries' # entries =>
    LET asked == IF file.inv.tool = "write_file" THEN Content
                 ELSE Described(Arg("expected_sha256"), Arg("edits"))
    IN /\ file.inv.tool \in {"apply_patch", "write_file"}
       /\ file.place \in {Path.to, "file"}
       /\ entries' = [entries EXCEPT ![file.place] = asked]
       /\ Safe(asked) = Passed
       /\ IF HasHash THEN file.saw = Arg("expected_sha256") ELSE entries[file.place] = Absent
WritesWhatIsAsked == [][WriteIsAsked]_fileVars

(* What a result says of the file is so: a success of a writing tool, and two *)
(* late failures, mean it was written; every other result that it was not;    *)
(* and what a reading tool gives away is free of secrets.  No temporary file  *)
(* outlives its call.                                                         *)
FileResultTruthful ==
  file.at = "done" =>
    /\ temp = NoText
    /\ file.inv.tool \in {"apply_patch", "write_file"} =>
         /\ file.result = Passed => file.wrote
         /\ file.wrote => file.result \in {Passed, Failed("io_failed"), Rejected("secret_content")}
    /\ file.inv.tool = "read_file" /\ file.result = Passed => Safe(file.output) = Passed

FileHonest == WritesWhatIsAsked /\ []FileResultTruthful
=============================================================================
