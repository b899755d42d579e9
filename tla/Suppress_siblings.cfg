SPECIFICATION Spec
CONSTANTS
  Files <- FewFiles
  Findings <- MCFindings
  Canonical <- MCCanonical
  Wild <- MCWild
  Yaml <- MCYaml
INVARIANTS
  SiblingsApart
