SPECIFICATION Spec
CONSTANTS
  Files <- MCFiles
  Findings <- MCFindings
  Canonical <- MCCanonical
  Wild <- MCWild
  Yaml <- MCYaml
INVARIANTS
  DropsTheSilenced
  TaskIsFence
