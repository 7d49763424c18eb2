SPECIFICATION ScreensSpec
CONSTANTS
  Forms <- MCForms
  Texts <- MCTexts
  Absent = "absent"
  Read = "read"
  Blank = "blank"
  EditValues <- MCThree
  RowTexts <- MCFour
  FunctionCatalog <- MCFunctionCatalog
  FunctionName <- MCFunctionName
  FunctionVersion <- MCFunctionVersion
  OtherImage = "other"
  MaxChoices = 3
  KeyTexts <- MCKeyTexts
  IntegerKeys <- MCIntegerKeys
  ItemTexts <- MCFour
  Teams <- MCTeams
  Urls <- MCUrls
  TypedNames <- MCTypedNames
  MaxFormEdits <- MCFormEdits
CHECK_DEADLOCK FALSE
INVARIANTS
  FormTypeOK
  PlainEditsReachYaml
  ChosenEditsReachYaml
  OneSourceOnly
  ReturnShowsTheChoice
  TakenBackAsAWhole
  SharedPartsNeverTakenBack
  VolumesAreThoseShown
  FailsOnLastVolumeOnly
  RowsShowTheirElement
  TypedRowsInYaml
  OpeningKeepsTheImage
  NoForeignVersion
  EffectsSettle
  LegalItemsAreWritten
  SecretsFollowRepositories
  RegisteredAsChosen
PROPERTIES
  OnlyTypedFieldsChange
  LateChoicesFollow
  OtherItemsAreKept
  UsedSecretsAreKept
