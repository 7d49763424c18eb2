------------------------- MODULE KptFunctionEditor --------------------------
(***************************************************************************)
(* The accordion that edits one function of a pipeline.  The user chooses  *)
(* a name and a version, or types an image; the catalog of functions is    *)
(* read meanwhile.  What the choices come to is worked out by effects: a   *)
(* pass runs the effects of one render, all on the values it was rendered  *)
(* with, and what they set is rendered by the next pass.  The user does    *)
(* nothing between the passes.                                             *)
(***************************************************************************)
EXTENDS Naturals, Sequences

CONSTANTS FunctionCatalog, \* the images of the catalog, in descending order of their text
          FunctionName,    \* image -> name
          FunctionVersion, \* image -> version
          OtherImage,      \* an image the catalog does not have
          MaxChoices       \* bound on what the user does

VARIABLES readImage,   \* the image the function had
          catalog,     \* "awaited", "arrived" or "grouped": seen by a pass
          name,        \* functionNameSelected
          version,     \* functionVersionSelected
          customImage, \* customImageName
          previousName, \* the name of the last render
          image,       \* the image of the state
          sent,        \* the image last sent to the pipeline
          passes,      \* the number of passes since the last choice
          choices      \* what the user has done so far

functionVars ==
  <<readImage, catalog, name, version, customImage, previousName, image, sent, passes, choices>>

CatalogImages == {FunctionCatalog[i] : i \in DOMAIN FunctionCatalog}
CUSTOM_IMAGE == "use custom image"
Partial == "partial" \* part of a name or version, as it is typed
NoImage == "no image"

\* The catalog is a list of images; none of its functions has the name that
\* stands for an image of one's own.
ASSUME FunctionCatalogAssumption ==
  /\ FunctionCatalog \in Seq(CatalogImages)
  /\ NoImage \notin CatalogImages
  /\ \A i \in CatalogImages : FunctionName[i] \notin {"", CUSTOM_IMAGE}

Known == IF catalog = "awaited" THEN {} ELSE CatalogImages
VersionsOf(n) == {FunctionVersion[i] : i \in {k \in Known : FunctionName[k] = n}}
ImagesOf(n) == {i \in CatalogImages : FunctionName[i] = n}
First(images) ==
  FunctionCatalog[CHOOSE i \in DOMAIN FunctionCatalog :
                    /\ FunctionCatalog[i] \in images
                    /\ \A k \in 1 .. (i - 1) : FunctionCatalog[k] \notin images]
\* The version taken for the latest is that of the image whose text comes last:
\* the registry is compared before the version.  Mutant: over the whole catalog.
LatestOfAll(n) == IF VersionsOf(n) = {} THEN "" ELSE FunctionVersion[FunctionCatalog[1]]
LatestVersion(n) == IF VersionsOf(n) = {} THEN "" ELSE FunctionVersion[First(ImagesOf(n))]

\* Mutant of ImageOf: the version is not looked at.
LatestImageOf(n, v, custom) == IF VersionsOf(n) # {} THEN First(ImagesOf(n)) ELSE custom

\* the image of the name and version chosen, or the custom one
ImageOf(n, v, custom) ==
  IF n \notin {"", CUSTOM_IMAGE} /\ v \in VersionsOf(n)
  THEN First({i \in ImagesOf(n) : FunctionVersion[i] = v})
  ELSE custom

FunctionInit ==
  /\ readImage \in CatalogImages \cup {OtherImage, NoImage}
  /\ catalog = "awaited"
  /\ name = IF readImage = NoImage THEN "" ELSE CUSTOM_IMAGE
  /\ version = ""
  /\ customImage = readImage
  /\ previousName = "not rendered"
  /\ image = readImage
  /\ sent = readImage
  /\ passes = 0
  /\ choices = 0

Settled ==
  /\ previousName = name /\ catalog # "arrived"
  /\ image = ImageOf(name, version, customImage)
  /\ sent = image

-----------------------------------------------------------------------------
\* Of two effects that set the version the later one counts.
Pass ==
  LET known == catalog = "arrived" /\ readImage \in Known
  IN  /\ ~ Settled
      /\ name' = IF known THEN FunctionName[readImage] ELSE name
      /\ version' = IF name # previousName /\ previousName # CUSTOM_IMAGE THEN LatestVersion(name)
                    ELSE IF known THEN FunctionVersion[readImage] ELSE version
      /\ image' = ImageOf(name, version, customImage)
      /\ sent' = image
      /\ previousName' = name
      /\ catalog' = IF catalog = "arrived" THEN "grouped" ELSE catalog
      /\ passes' = passes + 1
      /\ UNCHANGED <<readImage, customImage, choices>>

CatalogArrives ==
  /\ Settled /\ catalog = "awaited"
  /\ catalog' = "arrived"
  /\ passes' = 0
  /\ UNCHANGED <<readImage, name, version, customImage, previousName, image, sent, choices>>

Chooses == Settled /\ choices < MaxChoices /\ choices' = choices + 1 /\ passes' = 0

\* the control tells of every text typed into it
ChooseName(n) ==
  /\ Chooses /\ n # name
  /\ name' = n
  /\ UNCHANGED <<readImage, catalog, version, customImage, previousName, image, sent>>

ChooseVersion(v) ==
  /\ Chooses /\ VersionsOf(name) # {} /\ v # version
  /\ version' = v
  /\ UNCHANGED <<readImage, catalog, name, customImage, previousName, image, sent>>

TypeImage(i) ==
  /\ Chooses /\ name = CUSTOM_IMAGE /\ i # customImage
  /\ customImage' = i
  /\ UNCHANGED <<readImage, catalog, name, version, previousName, image, sent>>

Names == {FunctionName[i] : i \in Known} \cup {CUSTOM_IMAGE, Partial}
FunctionNext ==
  \/ Pass
  \/ CatalogArrives
  \/ \E n \in Names : ChooseName(n)
  \/ \E v \in VersionsOf(name) \cup {Partial} : ChooseVersion(v)
  \/ \E i \in {OtherImage, "typed image"} : TypeImage(i)

FunctionSpec == FunctionInit /\ [][FunctionNext]_functionVars

-----------------------------------------------------------------------------
(* Properties                                                               *)

Untouched == choices = 0

\* Opening the form and reading the catalog leave the function its image, or
\* one of the same name and version.
OpeningKeepsTheImage ==
  Untouched =>
    \/ sent = readImage
    \/ /\ sent \in CatalogImages
       /\ FunctionName[sent] = FunctionName[readImage]
       /\ FunctionVersion[sent] = FunctionVersion[readImage]

\* Whenever the effects are done, the version is one of the function chosen, or
\* what is being typed: never the version of a function chosen before.
NoForeignVersion ==
  Settled => version \in VersionsOf(name) \cup {"", Partial}

\* The effects end: four passes at most follow a choice, and the image sent is
\* then that of the name and version shown.
EffectsSettle ==
  /\ passes <= 4
  /\ Settled /\ version \in VersionsOf(name) =>
       FunctionName[sent] = name /\ FunctionVersion[sent] = version
=============================================================================
