SPECIFICATION Spec
PROPERTIES
  DocumentedVariablesSuffice
