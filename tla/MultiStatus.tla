---------------------------- MODULE MultiStatus ----------------------------
(***************************************************************************)
(* The answer to a listing, a multistatus document, and what               *)
(* WebdavDirParser makes of it.  The server's names and properties are its *)
(* own; how it writes them is the style of the server.                     *)
(*                                                                         *)
(* A name stands for the path of that resource in the directory listed,    *)
(* Self for the path of the directory itself.  The client's root path is   *)
(* "/", of which setConnectionSettings leaves "".  m_includeRequestedURI is *)
(* FALSE for every listing.  Dates, and the extension, which is part of the *)
(* name, are left out.                                                     *)
(***************************************************************************)
EXTENDS Naturals, Sequences, FiniteSets, SequencesExt

CONSTANTS Names,        \* the resources of a directory
          Collections,  \* those of them that are directories
          FaultyStyles  \* the styles of the servers whose answers may be faulty

Self == "."
NoName == "no href"
ASSUME NamesAssumption ==
  Collections \subseteq Names /\ Self \notin Names /\ NoName \notin Names

(* What list() asks for.                                                   *)
Asked == {"getlastmodified", "getcontentlength", "resourcetype"}

(* A propstat: its status, whether it has a prop segment, the properties in *)
(* that, and whether the resource type among them says collection.         *)
Propstat(status, prop, properties, collection) ==
  [status |-> status, prop |-> prop, properties |-> properties, collection |-> collection]

(* A resource read from the listing of a directory: its path there with or *)
(* without a slash at the end, and whether it has a size.                  *)
Item(in, name, dir, slash, size) ==
  [in |-> in, name |-> name, dir |-> dir, slash |-> slash, size |-> size]

(* codeFromResponse and the loop of davParsePropstats over the propstats of *)
(* a response.  A propstat without a status or a prop ends it with nothing. *)
Nothing == [whole |-> TRUE, dir |-> FALSE, size |-> FALSE]
DavParsePropstat(acc, stat) ==
  CASE ~acc.whole \/ stat.status = "404" -> acc
    [] acc.whole /\ (stat.status = "none" \/ (stat.status # "404" /\ ~stat.prop))
         -> [acc EXCEPT !.whole = FALSE]
    [] OTHER -> [acc EXCEPT !.dir = @ \/ stat.collection,
                            !.size = @ \/ "getcontentlength" \in stat.properties]

(* parseResponse: the item a response gives, if any.  The path of a        *)
(* directory gets the slash it lacks.                                      *)
ParseResponse(in, response) ==
  LET found == FoldLeft(DavParsePropstat, Nothing, response.propstats)
  IN IF found.whole
     THEN <<Item(in, response.name, found.dir, response.slash \/ found.dir, found.size)>>
     ELSE <<>>

(* The response is of the requested directory: its path, as Apache writes  *)
(* it, or its URL, as MS IIS does.                                         *)
PathOnly(response) ==                                              \* mutant
  response.name = Self /\ response.slash /\ ~response.url
IsRequested(response) ==
  \/ ~response.url /\ response.name = Self /\ response.slash
  \/ response.url /\ response.name = Self /\ response.slash

(* A directory without the slash at the end (box.com, dav-pocket) is seen  *)
(* by what has been appended last.                                         *)
IsRequestedContainer(items, response) ==
  Last(items).dir /\ ~response.slash /\ response.name = Self

ParseOne(in, items, response) ==
  LET longer == items \o ParseResponse(in, response)
  IN CASE response.name = NoName \/ IsRequested(response) -> items
       [] OTHER -> IF IsRequestedContainer(longer, response) THEN Front(longer) ELSE longer

ParseMultiResponse(in, items, document) ==
  FoldLeft(LAMBDA list, response : ParseOne(in, list, response), items, document)

----------------------------------------------------------------------------
(* The servers.  Style: whole URLs or paths only, a slash at the end of a  *)
(* directory or none, the propstat of what is missing after or before the  *)
(* other, the directory itself first or last.                              *)
Styles == [url : BOOLEAN, slash : BOOLEAN, missingFirst : BOOLEAN, selfFirst : BOOLEAN]
ASSUME FaultyStylesAssumption == FaultyStyles \subseteq Styles

IsDirectory(name) == name = Self \/ name \in Collections
Available(name) == IF IsDirectory(name) THEN Asked \ {"getcontentlength"} ELSE Asked

Propstats(style, name) ==
  LET found == Propstat("200", TRUE, Available(name), IsDirectory(name))
      missing == Propstat("404", TRUE, Asked \ Available(name), FALSE)
  IN CASE Available(name) = Asked -> <<found>>
       [] style.missingFirst -> <<missing, found>>
       [] OTHER -> <<found, missing>>

Response(style, name) ==
  [url |-> style.url, name |-> name, slash |-> IsDirectory(name) /\ style.slash,
   propstats |-> Propstats(style, name)]

Document(style) ==
  LET members == [i \in 1..Cardinality(Names) |-> Response(style, SetToSeq(Names)[i])]
      self == <<Response(style, Self)>>
  IN IF style.selfFirst THEN self \o members ELSE members \o self

(* What may be wrong with one response.                                    *)
Faults == {"no href", "no propstat", "no status", "no prop"}
Broken(response, fault) ==
  CASE fault = "no href" -> [response EXCEPT !.name = NoName]
    [] fault = "no propstat" -> [response EXCEPT !.propstats = <<>>]
    [] fault = "no status" -> [response EXCEPT !.propstats[1].status = "none"]
    [] fault = "no prop" -> [response EXCEPT !.propstats[1].prop = FALSE]

(* Documents with one faulty response.  A fault that leaves the list empty *)
(* makes the code read the last item of an empty list, which is undefined: *)
(* the first response is of a member and whole.                            *)
FaultyDocuments ==
  {[Document(style) EXCEPT ![i] = Broken(@, fault)] :
     style \in {s \in FaultyStyles : ~s.selfFirst}, i \in 2..(Cardinality(Names) + 1),
     fault \in Faults}

(* What a listing of a directory should give.                              *)
Contents(in) ==
  {Item(in, n, n \in Collections, n \in Collections, n \notin Collections) : n \in Names}
=============================================================================
