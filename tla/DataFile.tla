------------------------------ MODULE DataFile ------------------------------
(***************************************************************************)
(* The file of a thing is saved and loaded: how the cursor of MooDataFile  *)
(* walks through it (data.cpp) to make the thing, its hashes and the       *)
(* values in them again (object.cpp, thing.cpp, hash.cpp and the           *)
(* read_entry() of each type).  One action for every entry read, every     *)
(* step of the cursor and every return.                                    *)
(*                                                                         *)
(* For the external XML library one control character makes a file         *)
(* unreadable.                                                             *)
(***************************************************************************)
EXTENDS SavedThing

CONSTANTS
  Things,       (* the things there are at first                            *)
  Existing,     (* the identifiers that lookup() finds                      *)
  StringSize,   (* the size of the buffers that texts are read into         *)
  MaxSaves      (* bound: how often the thing is saved                      *)

Nothing == <<>>   \* no thing, no file, no value

VARIABLES
  thing,    (* the thing in memory                                          *)
  file,     (* its file, as a tree                                          *)
  current,  (* the cursor: the way from the root to a node                  *)
  reading,  (* the calls of read_data() under way, innermost last           *)
  step,     (* what the innermost does next: "entry", "next" or "return";   *)
            (* "running" with the thing in memory, "stopped" without        *)
  saved,    (* the thing as it was when it was saved                        *)
  saves     (* how often it was saved                                       *)

fileVars == <<thing, file, current, reading, step, saved, saves>>

-----------------------------------------------------------------------------
(* Reading.                                                                 *)

NodeAt(node, path) ==
  LET at[n \in 0..Len(path)] == IF n = 0 THEN node ELSE at[n - 1].kids[path[n]]
  IN at[Len(path)]

Current == NodeAt(file, current)
FirstChild == Append(current, 1)
(* Mutant: the cursor stays where it is.                                    *)
SiblingNone == current
Sibling == Append(Front(current), Last(current) + 1)
HasNext == Last(current) < Len(NodeAt(file, Front(current)).kids)
(* read_parent(): never up to the root.                                     *)
Parent(path) == IF Len(path) > 1 THEN Front(path) ELSE path

(* xmlNodeListGetString: the text of the given nodes.                       *)
TextOf(nodes) == FlattenSeq([i \in DOMAIN nodes |-> nodes[i].text])

(* What read_integer() and read_string() see from a node on.                *)
TextFrom(path) ==
  LET siblings == NodeAt(file, Front(path)).kids
  IN TextOf(SubSeq(siblings, Last(path), Len(siblings)))

(* strtol(): the number a text begins with; hexadecimal is left out.        *)
IntegerOf(text) ==
  LET from   == FirstNotIn(text, 1, Whitespace)
      digits == IF CharAt(text, from) = "-" THEN from + 1 ELSE from
      number == SubSeq(text, from, FirstNotIn(text, digits, Digit) - 1)
  IN IF IsNumber(number) THEN NumberOf(number).p ELSE 0

(* read_raw_string_entry: as much of a text as the buffer takes.            *)
Raw(text) == IF Len(text) < StringSize THEN text ELSE SubSeq(text, 1, StringSize - 1)

(* moo_data_strip_copy: one space between words and none around them, as    *)
(* much of it as the buffer takes.                                          *)
Stripped(text) ==
  LET spaced[n \in 0..Len(text)] ==
        IF n = 0 THEN <<>>
        ELSE LET t == spaced[n - 1]
             IN IF text[n] \notin Whitespace THEN Append(t, text[n])
                ELSE IF t = <<>> \/ Last(t) = "sp" THEN t ELSE Append(t, "sp")
      all   == spaced[Len(text)]
      ended == IF all # <<>> /\ Last(all) = "sp" THEN Front(all) ELSE all
  IN Raw(ended)

(* write_data() has room for the programs of a value, with the null byte.   *)
Fits(v) == \A what \in ProgramsOf(v.type) : Len(ProgramText(v, what)) < StringSize

(* The parser reads the programs of a value as they were generated, and the *)
(* buffer takes them.  A string with a quotation mark or a backslash is     *)
(* read as something else, and of a long program the end is missing.        *)
Readable(v) ==
  LET Buffered(what) ==
        IF what = "code" THEN Raw(ProgramText(v, what)) ELSE Stripped(ProgramText(v, what))
  IN \A what \in ProgramsOf(v.type) :
       LET parsed == ParseProgram(Buffered(what)) IN parsed.how = "exprs" /\ parsed.exprs = v[what]

ASSUME FileAssumption ==
  /\ StringSize \in Nat \ {0} /\ MaxSaves \in Nat
  /\ DefaultMode <= MaxInt
  /\ \A t \in Things : IsThing(t)

(* A boolean is looked for in the white space before it.                    *)
BooleanLoaded(node) ==
  LET text == Stripped(TextOf(node.kids))
  IN IF text \in {<<"#", "t">>, <<"#", "f">>}
     THEN [Val("boolean") EXCEPT !.text = text] ELSE Nothing

(* What has the identifier in the text at a node, or nil.  For an array or  *)
(* a hash that a thing holds this is the entry itself, without a number.    *)
Referred(at) ==
  LET id == IntegerOf(TextFrom(at)) IN IF id \in Existing THEN ThingVal(id) ELSE Nil

LoadedAtOnce(type, at) ==
  CASE type = "nil"     -> Nil
    [] type = "boolean" -> BooleanLoaded(NodeAt(file, at))
    [] OTHER            -> Referred(at)

(* read_entry() of the other types, whose objects begin empty: the object   *)
(* after it, or Nothing when it throws.                                     *)
StringRead(v, node) ==
  IF node.name = "value" THEN [v EXCEPT !.text = Stripped(TextOf(node.kids))] ELSE v

(* It wants the format that is never written,                               *)
NumberRead(v, node) ==
  IF node.name # "value" THEN v
  ELSE IF "format" \notin DOMAIN node.attrs THEN Nothing
  ELSE [v EXCEPT !.num = NumberOf(Stripped(TextOf(node.kids)))]

(* and this one the name of a function, which is not there either.          *)
FuncPtrRead(v, node) == IF node.name = "funcptr" THEN Nothing ELSE v

ServerRead(v, node) ==
  LET n == IntegerOf(TextOf(node.kids))
  IN CASE node.name = "port"   -> [v EXCEPT !.num = Whole(n)]
       [] node.name = "object" -> [v EXCEPT !.id = IF n \in Existing THEN n ELSE -1]
       [] node.name = "method" -> [v EXCEPT !.text = Stripped(TextOf(node.kids))]
       [] OTHER -> v

EntryRead(v, node) ==
  CASE v.type = "string"    -> StringRead(v, node)
    [] v.type = "number"    -> NumberRead(v, node)
    [] v.type = "funcptr"   -> FuncPtrRead(v, node)
    [] v.type = "server"    -> ServerRead(v, node)
    [] OTHER -> v

(* Mutant: the code is read as the parameters are.                          *)
BufferedStripped(node) == Stripped(TextOf(node.kids))

(* The text of a program that is parsed: the code as it stands, the         *)
(* parameters not.                                                          *)
Buffered(node) ==
  IF node.name = "code" THEN Raw(TextOf(node.kids)) ELSE Stripped(TextOf(node.kids))

(* The buffer has null bytes behind a code that does not fill it.           *)
EndsInNulls(node) == node.name = "code" /\ Len(Buffered(node)) < StringSize - 1

(* The fields of a thing that are read from an element of their own.        *)
FieldRead(t, node) ==
  LET n == IntegerOf(TextOf(node.kids))
  IN CASE node.name \in {"id", "parent", "owner", "mode"} -> [t EXCEPT ![node.name] = n]
       [] node.name = "bits" -> [t EXCEPT !.wizard = @ \/ n % 2 = 1]
       [] OTHER -> t

-----------------------------------------------------------------------------
(* The calls of read_data() under way.                                      *)

(* What is read ("thing", a section of it or "value"), into which value, and*)
(* for a value the attributes of its entry and whether read_object() went   *)
(* down to the children of that entry.                                      *)
ReadCall(of, value, attrs, down) == [of |-> of, value |-> value, attrs |-> attrs, down |-> down]
Reader == Last(reading)

NothingSaved ==
  /\ file = Nothing /\ saved = Nothing /\ saves = 0
  /\ current = <<>> /\ reading = <<>> /\ step = "running"

FileInit == thing \in Things /\ NothingSaved

(* MooMutable::save_object, and the server ends.                            *)
SaveObject ==
  /\ step = "running" /\ thing # Nothing /\ saves < MaxSaves
  /\ \E order \in Orders(thing) : file' = Document(thing, order)
  /\ saved' = thing /\ saves' = saves + 1
  /\ thing' = Nothing /\ step' = "stopped"
  /\ UNCHANGED <<current, reading>>

(* A program is written beyond the end of the buffer, and the process ends  *)
(* before the file is opened; the next one finds what was there.  Where it  *)
(* does not end, the file holds the program, of which the reader takes what *)
(* its own buffer holds.                                                    *)
SaveOverruns ==
  /\ step = "running" /\ thing # Nothing /\ saves < MaxSaves
  /\ \E section \in Sections : \E k \in DOMAIN thing[section] : ~Fits(thing[section][k].value)
  /\ thing' = Nothing /\ step' = IF saves = 0 THEN "running" ELSE "stopped"
  /\ UNCHANGED <<file, current, reading, saved, saves>>

(* The nodes on a level of a document, which has four below its root.       *)
Level(document, depth) ==
  LET level[n \in 0..depth] ==
        IF n = 0 THEN <<document>>
        ELSE LET above == level[n - 1]
             IN FlattenSeq([i \in DOMAIN above |-> above[i].kids])
  IN level[depth]

WellFormed(document) ==
  \A depth \in 0..4 :
    LET nodes == Level(document, depth)
    IN \A i \in DOMAIN nodes : ~Contains(nodes[i].text, "esc")

(* MooMutable::load_object: a new thing reads the children of the root.     *)
LoadObject ==
  /\ step = "stopped"
  /\ IF WellFormed(file)
     THEN /\ thing' = NewThing /\ step' = "entry"
          /\ reading' = <<ReadCall("thing", Nothing, NoAttrs, TRUE)>> /\ current' = <<1>>
     ELSE step' = "running" /\ UNCHANGED <<thing, reading, current>>
  /\ UNCHANGED <<file, saved, saves>>

Reads(of) ==
  /\ step = "entry" /\ reading # <<>> /\ Reader.of \in of
  /\ UNCHANGED <<file, saved, saves>>

(* MooThing::read_entry: a section, whose entries its hash reads,           *)
ReadSection ==
  /\ Reads({"thing"}) /\ Current.name \in Sections /\ Current.kids # <<>>
  /\ reading' = Append(reading, ReadCall(Current.name, Nothing, NoAttrs, TRUE))
  /\ current' = FirstChild
  /\ UNCHANGED <<thing, step>>

(* or a field, or nothing of its own.                                       *)
ReadField ==
  /\ Reads({"thing"}) /\ Current.name \notin Sections
  /\ thing' = FieldRead(thing, Current) /\ step' = "next"
  /\ UNCHANGED <<current, reading>>

(* MooHash::set, with the owner and the mode of the entry.                  *)
Put(section, value, attrs) ==
  LET hash == thing[section]
  IN thing' = [thing EXCEPT ![section] =
       [k \in DOMAIN hash \cup {attrs.key} |->
          IF k # attrs.key THEN hash[k]
          ELSE [value |-> value, owner |-> IntegerOf(attrs.owner), mode |-> IntegerOf(attrs.mode)]]]

(* MooObjectHash::read_entry of an entry whose value is loaded at once,     *)
Down == Current.kids # <<>>
At   == IF Down THEN FirstChild ELSE current

ReadValueAtOnce ==
  /\ Reads(Sections) /\ Current.name = "entry" /\ Current.attrs.type \in AtOnce
  /\ LET value == LoadedAtOnce(Current.attrs.type, At)
     IN IF value = Nothing THEN UNCHANGED thing ELSE Put(Reader.of, value, Current.attrs)
  /\ step' = "next" /\ UNCHANGED <<current, reading>>

(* or reads its own entries,                                                *)
BeginValue ==
  /\ Reads(Sections) /\ Current.name = "entry" /\ Current.attrs.type \notin AtOnce
  /\ reading' = Append(reading, ReadCall("value", Val(Current.attrs.type), Current.attrs, Down))
  /\ current' = At
  /\ UNCHANGED <<thing, step>>

(* and of the identifier of the hash, -1, and the white space.              *)
ReadNothing ==
  /\ Reads(Sections) /\ Current.name # "entry"
  /\ step' = "next" /\ UNCHANGED <<thing, current, reading>>

(* read_entry of a value.  What it throws ends its read_data(),             *)
ReadsProgram == Current.name \in ProgramsOf(Reader.value.type)
Throws   == step' = "return" /\ UNCHANGED <<thing, current, reading>>
Takes(v) ==
  /\ step' = "next" /\ reading' = [reading EXCEPT ![Len(reading)].value = v]
  /\ UNCHANGED <<thing, current>>

ReadValue ==
  /\ Reads({"value"}) /\ ~ReadsProgram
  /\ LET v == EntryRead(Reader.value, Current) IN IF v = Nothing THEN Throws ELSE Takes(v)

(* as does what is no program.  Behind a text that ends in a comment or     *)
(* with a backslash the parser reads on: nothing if it finds a null byte,   *)
(* otherwise what it throws at, or what it may not read, where the process  *)
(* ends, now and at every start again.  So it does where there is no        *)
(* expression that an expression could become.                              *)
ReadProgram ==
  /\ Reads({"value"}) /\ ReadsProgram
  /\ \E program \in {ParseProgram(Buffered(Current))} :
       LET Undefined == program.how = "beyond" /\ ~EndsInNulls(Current)
           Empty     == program.exprs = <<>> /\ Reader.value.type = "expr"
       IN \/ /\ program.how # "error" /\ ~Empty
             /\ Takes([Reader.value EXCEPT ![Current.name] = program.exprs])
          \/ (program.how = "error" \/ Undefined) /\ Throws
          \/ /\ Undefined \/ (program.how # "error" /\ Empty)
             /\ thing' = Nothing /\ current' = <<>> /\ reading' = <<>> /\ step' = "running"

(* read_next().                                                             *)
NextEntry ==
  /\ step = "next"
  /\ IF HasNext THEN current' = Sibling /\ step' = "entry"
                ELSE step' = "return" /\ UNCHANGED current
  /\ UNCHANGED <<thing, file, reading, saved, saves>>

Returns(of) ==
  /\ step = "return" /\ Reader.of \in of
  /\ reading' = Front(reading) /\ UNCHANGED <<file, saved, saves>>

(* read_object() goes back up if it went down.                              *)
AfterValue(down) == IF down THEN Parent(current) ELSE current

ReturnValue ==
  /\ Returns({"value"})
  /\ Put(reading[Len(reading) - 1].of, Reader.value, Reader.attrs)
  /\ current' = AfterValue(Reader.down) /\ step' = "next"

ReturnSection ==
  /\ Returns(Sections)
  /\ current' = Parent(current) /\ step' = "next" /\ UNCHANGED thing

ReturnThing ==
  /\ Returns({"thing"})
  /\ current' = <<>> /\ step' = "running" /\ UNCHANGED thing

Reload ==
  \/ LoadObject
  \/ ReadSection \/ ReadField
  \/ ReadValueAtOnce \/ BeginValue \/ ReadNothing \/ ReadValue \/ ReadProgram
  \/ NextEntry
  \/ ReturnValue \/ ReturnSection \/ ReturnThing

FileNext == SaveObject \/ SaveOverruns \/ Reload

FileSpec == FileInit /\ [][FileNext]_fileVars

-----------------------------------------------------------------------------
(* Properties.                                                              *)

IsPath(node, path) ==
  \A n \in DOMAIN path : path[n] \in DOMAIN NodeAt(node, SubSeq(path, 1, n - 1)).kids

(* The thing is a thing, the cursor is on a node of the file, and what is   *)
(* being read nests as the file does: a thing, one of its hashes, a value.  *)
FileTypeOK ==
  /\ thing # Nothing => IsThing(thing)
  /\ saves \in 0..MaxSaves /\ (saved = Nothing) = (saves = 0)
  /\ step \in {"entry", "next", "return", "running", "stopped"}
  /\ (reading = <<>>) = (step \in {"running", "stopped"})
  /\ reading # <<>> => /\ IsPath(file, current) /\ current # <<>>
                       /\ Len(reading) \in 1..3 /\ reading[1].of = "thing"
                       /\ Len(reading) > 1 => reading[2].of \in Sections
                       /\ Len(reading) > 2 => reading[3].of = "value"

Reloaded == step = "running" /\ saves > 0 /\ thing # Nothing

(* Behind a connection, of which nothing is written, nothing of the hash is *)
(* read: the connection takes the entries for its own.                      *)
Hidden(section, key) ==
  LET nodes == (CHOOSE n \in ToSet(file.kids) : n.name = section).kids
      IsEntry(i) == nodes[i].name = "entry"
  IN \E i, j \in DOMAIN nodes :
       /\ i < j /\ IsEntry(i) /\ IsEntry(j)
       /\ nodes[i].attrs.type = "tcp" /\ nodes[j].attrs.key = key

SpacedOnce(text) ==
  /\ Len(text) < StringSize
  /\ text # <<>> => text[1] \notin Whitespace /\ Last(text) \notin Whitespace
  /\ \A i \in DOMAIN text : text[i] \in Whitespace => text[i] = "sp" /\ text[i + 1] # "sp"

(* The values a file can hold.  A number, a boolean, an array, a hash, a    *)
(* function of the server and a connection are lost.                        *)
Kept(v) ==
  \/ v.type = "nil"
  \/ v.type \in {"moolambda", "expr"} /\ Readable(v)
  \/ v.type \in {"thing", "server"} /\ v.id \in Existing /\ SpacedOnce(v.text)
  \/ v.type = "string" /\ SpacedOnce(v.text)

(* What a file can hold comes back: every field of a thing but one, and     *)
(* every entry with its owner and mode, whatever entries that cannot be read*)
(* stand beside it, and nothing that was not there (data.cpp:153-191,       *)
(* object.cpp:101-150).  The one is the wizard bit: read_entry() looks for  *)
(* it, but write_object() never writes it (mutable.cpp:187-190, 209-213), so*)
(* that no thing that was loaded is a wizard.                               *)
ComesBack ==
  Reloaded =>
    /\ \A field \in {"id", "parent", "owner", "mode"} : thing[field] = saved[field]
    /\ ~thing.wizard
    /\ \A section \in Sections :
         /\ DOMAIN thing[section] \subseteq DOMAIN saved[section]
         /\ \A k \in DOMAIN saved[section] :
              Kept(saved[section][k].value) /\ ~Hidden(section, k) =>
                k \in DOMAIN thing[section] /\ thing[section][k] = saved[section][k]

(* Saving and loading again and again changes nothing any more after the    *)
(* second time (the first may cut a text behind a space that the second     *)
(* drops), unless the thing holds a connection; only a program that is not  *)
(* read as it was written may be another each time, as a string in it loses *)
(* backslashes (number.cpp, string.cpp, hash.cpp:81-91, parser.cpp:257-281).*)
Settles ==
  Reloaded /\ saves > 2
    /\ (\A section \in Sections :
          \A k \in DOMAIN saved[section] : saved[section][k].value.type # "tcp")
    => /\ \A field \in {"id", "parent", "owner", "mode", "wizard"} : thing[field] = saved[field]
       /\ \A section \in Sections :
            /\ DOMAIN thing[section] = DOMAIN saved[section]
            /\ \A k \in DOMAIN saved[section] :
                 /\ thing[section][k] = [saved[section][k] EXCEPT !.value = thing[section][k].value]
                 /\ Readable(saved[section][k].value) => thing[section][k] = saved[section][k]

Before(p, q) ==   \* in the order of the file
  \/ IsStrictPrefix(p, q)
  \/ \E n \in 1..Min({Len(p), Len(q)}) : p[n] < q[n] /\ \A o \in 1..(n - 1) : p[o] = q[o]

(* The walk only goes on: what is read next is always behind what was read  *)
(* before, however values end, so that loading ends (object.cpp:107-148).   *)
(* Only a connection begins with the entry that the hash is reading.        *)
OnlyForward ==
  [][step' = "entry" /\ reading # <<>> =>
       Before(current, current') \/ (current' = current /\ Len(reading') > Len(reading))]_fileVars

(* A number is the same after it was saved and loaded, as "Write all data   *)
(* for the object" and "load the information into the object"               *)
(* (objs/object.h:56, 63) say.  It is not.                                  *)
NumbersKept ==
  Reloaded =>
    \A k \in DOMAIN saved.properties \cap DOMAIN thing.properties :
      saved.properties[k].value.type = "number" => thing.properties[k] = saved.properties[k]

=============================================================================
