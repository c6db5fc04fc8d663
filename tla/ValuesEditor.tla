----------------------------- MODULE ValuesEditor -----------------------------
(***************************************************************************)
(* The editor of the values of a template                                  *)
(* (template-data-editor.component.ts): one JSON object, edited as rows or *)
(* as text, with rows that the template asks for, which count only once    *)
(* they were filled in, and roots that the rows leave alone.  The text is  *)
(* {} when it is not an object, {f} when it is; of the types of a row,     *)
(* "json" stands for those that some texts do not suit.                    *)
(***************************************************************************)
EXTENDS Integers, SequencesExt, Functions

CONSTANTS
  Names,      \* names of values
  Roots,      \* preserveRoots
  Suggestions,\* what the templates ask for: sets of names
  Written,    \* values the form writes first: functions from names
  MaxRows     \* bound: rows of the editor

VARIABLES
  raw, rows,
  preserved,  \* the roots of the object
  advanced,   \* edited as text
  problem,    \* error: "", "missing" or "wrong"
  missingOnly, suggested,
  valid       \* the validity the form last computed

editorVars == <<raw, rows, preserved, advanced, problem, missingOnly, suggested, valid>>

Texts == {"", "{}"}
Types == {"text", "null", "json"}
ValueKinds == Texts \cup {"null", "object"}

\* Objects with some of the names.
Objects == UNION {[D -> ValueKinds] : D \in SUBSET Names}

ASSUME EditorAssumption ==
  /\ IsFiniteSet(Names) /\ "" \notin Names
  /\ \A s \in Suggestions : s \subseteq Names
  /\ Written \subseteq Objects

NewRow(name, type, text) == [name |-> name, type |-> type, text |-> text, pending |-> FALSE, asked |-> FALSE]

(***************************************************************************)
(* Rows and values                                                         *)
(***************************************************************************)
\* A row as loadFields writes a value.
RowOf(name, value) == CASE value = "null" -> NewRow(name, "null", "")
                        [] value = "object" -> NewRow(name, "json", "{}")
                        [] OTHER -> NewRow(name, "text", value)

Readable(row) == row.type = "json" => row.text = "{}"

ValueOf(row) == CASE row.type = "null" -> "null" [] row.type = "json" -> "object" [] OTHER -> row.text

\* emitFields stops at such a row.
Wrong(rs) == \E i \in DOMAIN rs :
  \/ rs[i].name = "" \/ rs[i].name \in DOMAIN preserved
  \/ \E j \in 1..(i - 1) : rs[j].name = rs[i].name
  \/ ~rs[i].pending /\ ~Readable(rs[i])

Filled(rs) == {i \in DOMAIN rs : ~rs[i].pending}

\* The object the rows stand for, next to the roots.
Object(rs) == [n \in {rs[i].name : i \in Filled(rs)} \cup DOMAIN preserved |->
  IF n \in DOMAIN preserved THEN preserved[n]
  ELSE ValueOf(rs[CHOOSE i \in Filled(rs) : rs[i].name = n])]

\* ensureSuggestions: the first row of a name that is asked for, or a new one, still pending.
Ensure(rs, s) ==
  LET marked == [i \in DOMAIN rs |-> [rs[i] EXCEPT !.asked =
                   rs[i].name \in s /\ \A j \in 1..(i - 1) : rs[j].name # rs[i].name]]
      absent == SetToSeq(s \ {rs[i].name : i \in DOMAIN rs})
  IN  marked \o [i \in DOMAIN absent |-> [NewRow(absent[i], "text", "") EXCEPT !.pending = TRUE, !.asked = TRUE]]

(***************************************************************************)
(* Validity                                                                *)
(***************************************************************************)
HasAll(r, s) == \E f \in r : s \subseteq DOMAIN f

\* validate()
Validate(r, e, s) == e = "" /\ HasAll(r, s)

IsMissing(rs) == \E i \in DOMAIN rs : rs[i].asked /\ rs[i].pending

\* checkMissing, after an error e that may be the one of a missing value.
CheckMissing(rs, e, only) ==
  /\ problem' = IF IsMissing(rs) /\ (e = "" \/ only) THEN "missing" ELSE IF ~IsMissing(rs) /\ only THEN "" ELSE e
  /\ missingOnly' = (IsMissing(rs) /\ (e = "" \/ only))

(***************************************************************************)
(* Rows                                                                    *)
(***************************************************************************)
\* Mutant: the text is written without the rows' own check.
EmitFieldsAnyway(rs) ==
  /\ rows' = rs
  /\ raw' = {Object(rs)}
  /\ CheckMissing(rs, "", FALSE)
  /\ valid' = Validate(raw', problem', suggested)
  /\ UNCHANGED <<preserved, advanced, suggested>>

EmitFields(rs) ==
  /\ rows' = rs
  /\ raw' = IF Wrong(rs) THEN raw ELSE {Object(rs)}
  /\ CheckMissing(rs, IF Wrong(rs) THEN "wrong" ELSE "", FALSE)
  /\ valid' = Validate(raw', problem', suggested)
  /\ UNCHANGED <<preserved, advanced, suggested>>

AddField == ~advanced /\ Len(rows) < MaxRows /\ EmitFields(Append(rows, NewRow("", "text", "")))

\* A row that the template asks for has no button for it.
RemoveField == ~advanced /\ \E i \in DOMAIN rows : ~rows[i].asked /\ EmitFields(RemoveAt(rows, i))

\* The name of a row that the template asks for is read only; any change fills the row in.
EditField ==
  /\ ~advanced
  /\ \E i \in DOMAIN rows, n \in Names \cup {""}, t \in Types, x \in Texts :
       /\ rows[i].asked => n = rows[i].name
       /\ EmitFields([rows EXCEPT ![i] = [@ EXCEPT !.name = n, !.type = t, !.text = x, !.pending = FALSE]])

(***************************************************************************)
(* Text, modes and templates                                               *)
(***************************************************************************)
\* loadFields shows no object as rows, except where the template asks for one.
Loadable(f) == \A n \in DOMAIN f \ Roots : f[n] = "object" => n \in suggested

Loaded(f) == Ensure([i \in 1..Len(SetToSeq(DOMAIN f \ Roots)) |->
                       RowOf(SetToSeq(DOMAIN f \ Roots)[i], f[SetToSeq(DOMAIN f \ Roots)[i]])], suggested)

\* Mutant: the rows of the text are shown after those there were.
LoadFieldsAfter(f) == rows' = rows \o Loaded(f) /\ preserved' = Restrict(f, DOMAIN f \cap Roots)

LoadFields(f) == rows' = Loaded(f) /\ preserved' = Restrict(f, DOMAIN f \cap Roots)

\* Texts the user may type; a text that is not an object has its own error.
UpdateRaw ==
  /\ advanced
  /\ raw' \in {{}} \cup {{f} : f \in Objects}
  /\ problem' = IF raw' = {} THEN "wrong" ELSE IF HasAll(raw', suggested) THEN "" ELSE "missing"
  /\ missingOnly' = FALSE
  /\ valid' = Validate(raw', problem', suggested)
  /\ UNCHANGED <<rows, preserved, advanced, suggested>>

\* toggleMode from the text: parse() forgets the error even when the rows are refused, and
\* nothing computes the validity again then.
ToFields ==
  /\ advanced /\ raw # {}
  /\ \E f \in raw :
       \/ /\ Loadable(f)
          /\ advanced' = FALSE
          /\ LoadFields(f)
          /\ CheckMissing(Loaded(f), "", FALSE)
          /\ valid' = Validate(raw, problem', suggested)
       \/ /\ ~Loadable(f)
          /\ problem' = "" /\ missingOnly' = FALSE
          /\ UNCHANGED <<rows, preserved, advanced, valid>>
  /\ UNCHANGED <<raw, suggested>>

\* Mutant: the rows are left with an error.
MayLeaveFieldsAlways == TRUE

MayLeaveFields == problem = "" \/ missingOnly

ToText ==
  /\ ~advanced /\ MayLeaveFields
  /\ advanced' = TRUE
  /\ problem' = IF HasAll(raw, suggested) THEN "" ELSE "missing"
  /\ missingOnly' = ~HasAll(raw, suggested)
  /\ valid' = Validate(raw, problem', suggested)
  /\ UNCHANGED <<raw, rows, preserved, suggested>>

\* Another template: the form validates with what it asks for, next to the editor, which
\* then brings its rows up to date, or keeps the error of the text.
Suggest ==
  \E s \in Suggestions \ {suggested} :
    /\ suggested' = s
    /\ \/ /\ advanced
          /\ valid' = (Validate(raw, problem, suggested) /\ HasAll(raw, s))
          /\ UNCHANGED <<rows, problem, missingOnly>>
       \/ /\ ~advanced /\ Len(Ensure(rows, s)) <= MaxRows
          /\ rows' = Ensure(rows, s)
          /\ CheckMissing(rows', problem, missingOnly)
          /\ valid' = Validate(raw, problem', s)
    /\ UNCHANGED <<raw, preserved, advanced>>

\* writeValue of the value the form begins with.
EditorInit ==
  \E f \in Written, s \in Suggestions :
    /\ raw = {f} /\ suggested = s
    /\ advanced = (\E n \in DOMAIN f \ Roots : f[n] = "object" /\ n \notin s)
    /\ preserved = Restrict(f, DOMAIN f \cap Roots)
    /\ rows = IF advanced THEN <<>> ELSE
         Ensure([i \in 1..Len(SetToSeq(DOMAIN f \ Roots)) |->
           RowOf(SetToSeq(DOMAIN f \ Roots)[i], f[SetToSeq(DOMAIN f \ Roots)[i]])], s)
    /\ problem = IF s \subseteq DOMAIN f THEN "" ELSE "missing"
    /\ missingOnly = (~advanced /\ ~(s \subseteq DOMAIN f))
    /\ valid = (s \subseteq DOMAIN f)

EditorNext == AddField \/ RemoveField \/ EditField \/ UpdateRaw \/ ToFields \/ ToText \/ Suggest

(***************************************************************************)
(* Properties                                                              *)
(***************************************************************************)
\* The object a value is made of, told from the rows alone: nobody who reads the page may
\* see other values than the message will have.
Says(r, rs, kept) == \E f \in r :
  /\ DOMAIN f = DOMAIN kept \cup {rs[i].name : i \in Filled(rs)}
  /\ \A n \in DOMAIN kept : f[n] = kept[n]
  /\ \A i \in Filled(rs) : f[rs[i].name] = ValueOf(rs[i])

\* A form that may be sent holds an object with every value its template asks for, and the
\* object is the one the rows show, whatever was typed, removed or read back before.
ValuesAreAsShown ==
  valid => /\ HasAll(raw, suggested)
           /\ ~advanced => Says(raw, rows, preserved)

\* A change of mode loses nothing: "ses valeurs sont conservées"
\* (template-data-editor.component.ts:229).
ModesKeepValues ==
  advanced' # advanced => /\ raw' = raw
                          /\ IF advanced THEN Says(raw', rows', preserved') ELSE Says(raw, rows, preserved)
==============================================================================
