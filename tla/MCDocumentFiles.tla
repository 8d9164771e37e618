-------------------------- MODULE MCDocumentFiles --------------------------
(* What the command line does to documents and files, in parts that share  *)
(* no variable: the archive workflow of DOCX documents, the command for    *)
(* PDF documents, the key beside a text, and what becomes of a text, a     *)
(* DOCX block and a PDF page.  Each is explored while the others are       *)
(* untouched.                                                              *)
EXTENDS ArchiveWorkflow, TLC

CONSTANTS x, y
CONSTANTS Commands, Nodes, LastPage, MaxSize, NoDocument, Gone
CONSTANTS Users, NoNode, Stranger
CONSTANTS Texts, LabelKeys, Digits, Configurations, RedactString
CONSTANTS Blocks, Markers, MaxReplacements, MaxPlaceholder, Refused
CONSTANTS PageTexts, Rectangles, HandRegions, PageWidth, PageHeight,
          PixelColumns, PixelRows, Overdraw, MaxGlyphs, MaxMarked, Pending

VARIABLE part     \* the one that is explored
VARIABLES inputNode, size, resized, command, folder, staging, target
VARIABLES keyName, outName, file, user, botched
VARIABLES source, spans, operators
VARIABLES block, requested, redacted, restored
VARIABLES pageText, glyphs, marked, regions, filled

Pdf == INSTANCE PdfCommand
Key == INSTANCE KeyedOutput
Render == INSTANCE Rendering
Docx == INSTANCE DocxRewriting
Page == INSTANCE PdfRedaction

pdfVars == <<inputNode, size, resized, command, folder, staging, target>>
keyVars == <<keyName, outName, file, user, botched>>
renderVars == <<source, spans, operators>>
docxVars == <<block, requested, redacted, restored>>
pageVars == <<pageText, glyphs, marked, regions, filled>>
fileVars == <<part, vars, pdfVars, keyVars, renderVars, docxVars, pageVars>>

(* Files that have different names in the model are different.             *)
ASSUME NodeAssumption ==
  /\ NoNode # Stranger
  /\ \A c \in Users : {NoNode, Stranger} \cap {Key!KeyOf(c), Key!TextOf(c)} = {}

MCDocs == {[mentions |-> <<x>>], [mentions |-> <<y>>]}

(* Texts to render, with the number of their spans.                        *)
MCTexts ==
  (<<"a", "A", "a">> :> 3) @@ (<<"[", "p", "1", "]", "a">> :> 2)
  @@ (<<"[", "p", "a", "]", "1">> :> 2)

MCDigits == <<"1", "2", "3", "4">>

Op(kind) == [kind |-> kind]
Mask(characters, direction) ==
  [kind |-> "mask", characters |-> characters, direction |-> direction]

MCConfigurations ==
  {[p |-> Op("replace"), q |-> other] :
     other \in {Op("replace"), Op("keep"), Op("redact"), Mask(1, "end"), Mask(2, "start")}}

MCRedactString == <<"*", "*">>

(* DOCX blocks: texts cut into nodes at one place or two, as they are, with*)
(* a revised node or with a tab.                                           *)
Node(kind, revised, t) == [source |-> kind, revised |-> revised, text |-> t]

BlockTexts ==
  {<<"a", "b", "a">>, <<"h", "l", "a">>, <<"[", "a", "]", "b">>, <<"[", "1", "]", "a">>,
   <<"1", "a", "]">>, <<"r", "a">>}

Cuts(t) == {c \in 0..Len(t) : c > 0 => t[c] # "h"}

CutInto(t, c, d) ==
  SelectSeq(<<Node("text", FALSE, SubSeq(t, 1, c)), Node("text", FALSE, SubSeq(t, c + 1, d)),
              Node("text", FALSE, SubSeq(t, d + 1, Len(t)))>>,
            LAMBDA node : node.text # <<>>)

BlocksOf(t) ==
  UNION {LET nodes == CutInto(t, cut[1], cut[2])
         IN {nodes, [nodes EXCEPT ![1].revised = TRUE],
             <<Head(nodes), Node("tab", FALSE, <<"t">>)>> \o Tail(nodes)} :
           cut \in {pair \in Cuts(t) \X Cuts(t) : pair[1] <= pair[2]}}

MCBlocks == UNION {BlocksOf(t) : t \in BlockTexts}

MCMarkers == <<"1", "2", "3">>

(* PDF pages of 4 by 4 points and 6 by 6 pixels.                           *)
MCPageTexts == {<<"a", " ">>, <<"h", "l", "a">>}

Rectangle(left, bottom, right, top) ==
  [left |-> left, bottom |-> bottom, right |-> right, top |-> top]

MCRectangles == {Rectangle(0, 0, 1, 1), Rectangle(1, 2, 3, 4), Rectangle(3, 0, 5, 2)}

MCHandRegions == {{}, {Rectangle(1, 2, 3, 4)}}

-----------------------------------------------------------------------------

MCInit ==
  /\ part \in {"archive", "pdf", "key", "rendering", "docx", "page"}
  /\ Init /\ Pdf!Init /\ Key!Init /\ Render!Init /\ Docx!Init /\ Page!Init

Only(p) ==
  /\ part = p /\ UNCHANGED part
  /\ p # "archive" => UNCHANGED vars
  /\ p # "pdf" => UNCHANGED pdfVars
  /\ p # "key" => UNCHANGED keyVars
  /\ p # "rendering" => UNCHANGED renderVars
  /\ p # "docx" => UNCHANGED docxVars
  /\ p # "page" => UNCHANGED pageVars

MCNext ==
  \/ Only("archive") /\ Next
  \/ Only("pdf") /\ Pdf!Next
  \/ Only("key") /\ Key!Next
  \/ Only("rendering") /\ Render!Next
  \/ Only("docx") /\ Docx!Next
  \/ Only("page") /\ Page!Next

MCSpec == MCInit /\ [][MCNext]_fileVars

Symmetry == Permutations(Processes) \cup Permutations(Outputs)

(* The properties of the parts, stated where they are defined.             *)
OutputsAreUndoable == OutputsRestore /\ Key!KeysAreSafe
OnlyInterruptionsLeaveTraces == OnlyInterruptionsLeaveFiles /\ Pdf!PdfIsConfined
NoOutputIsReplaced == NothingIsReplaced /\ [][Pdf!PdfIsNotReplaced]_pdfVars
DocumentsAreExact ==
  Render!RenderingIsExact /\ Docx!DocxIsExact /\ Page!PdfHidesDetections
=============================================================================
