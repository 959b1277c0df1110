CONSTANT MaxActivations = 2
SPECIFICATION Spec
INVARIANTS CleanWhenDeactivated RequiredHandlersAreBacked DeactivatedFindsService
PROPERTY CrashDeactivates
